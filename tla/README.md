# LTZVisor: a TLA+ verification project

LTZVisor runs two virtual machines on one ARMv7-A core with TrustZone: a secure
guest (S, here the bare-metal `BareApp`) and a non-secure guest (NS, here
FreeRTOS with an lwIP echo server). This directory holds TLA+ modules translated
from its source, TLC configurations that check them on small instances, and
proofs that TLAPS checks for every value of the constants.

## 1. The system

### Components

| component | state it keeps | operations | models |
|---|---|---|---|
| Monitor (`arch/armv7/cpu_monitor.S`, `inc/cpu_vcpu.h`) | the context of NS (`NS_Guest.core`), the monitor stack, the SCR, the variable `interrupt` | SMC vector (scheduler, board call, unknown number), FIQ vector; the other vectors loop | `Monitor`, `TwoWorlds` |
| Interrupt controller driver (`drivers/gic.c`, copied to `ns_guest/src/gic.c`) | the distributor's and the CPU interface's registers, the table `fiq_handlers` | set-up, enable, priority, target, security, critical section, acknowledge, end, dispatch | `Gic` (signalling, acknowledge, end, dispatch), `GicDriver` (configuration) |
| SPI 1 driver (`boards/zedboard/zynq_spi.c`) | the controller, `RX_BUFFER` with head and tail | reset, config, enable, disable, send, read, (de)assert slave, interrupt handler | `Spi`, `ByteQueue` |
| TTC driver (`boards/zedboard/zynq_ttc.c`, `s_guest/BareApp/portable/hw_zynq.c`) | prescaler, control, interval, match and interrupt registers of each timer | init, enable, disable, request, interrupt clear, `tick_set` | `Ttc` |
| UART and `printk` (`boards/zedboard/zynq_uart.c`, `lib/printk.c`; in NS `xuartps_hw.c`) | the UART's control register and FIFO | init, send a byte, format a line | `Console` |
| Boot (`cpu_entry.S`, `cpu_cp15_switch.S`, `cpu_stack.c`, ...) | stacks, SCR, CP15, `.bss` | executed once | its result is `Init` of `Monitor` |
| LTZVisor core (`core/ltzvisor.c`, `core/ltzvisor_api.c`) | `NS_Guest` | init, create NS, kick-off; the scheduler and the restart are stubs | order and error path in `GicDriver`; the context of NS is in `Init` of `Monitor` |
| Board support (`boards/*/board.c`, `ltzvisor_hw.c`) | security registers of the SoC | `ltzvisor_hw_init`, `board_init`, `board_handler` | `board_handler` in `Monitor`, `ltzvisor_hw_init` in `GicDriver` |
| Secure guest (`s_guest/BareApp`) | `lsb`, the word `sensor_data` shared with NS | loop: send, read, publish, print, `YIELD` | `Sensor`, `Console`; its driver calls in `Monitor`, `GicDriver`, `Spi`, `Ttc` |
| String library | none that outlives a call | string functions | in the actions that call them |
| Page table, caches, linker script | constant tables | executed once | not modelled |
| NS application (`ns_guest/src`) | `last_read`, sockets, connection threads | echo server, tick interrupt, set-up | `Sensor`; tick and dispatch in `RtosPort` |
| FreeRTOS port layer (`lib/freertos/port.c`, `portASM.S`) | priority mask, nesting counts, saved contexts | critical sections, interrupt entry and exit, tick, switch | `RtosPort` |
| Ethernet receive path (`lib/xil/xemacps*.c`, `lib/lwip/netif`) | descriptor ring, `recv_q`, semaphore | interrupt and error handler, refill, input thread | `EmacRx` |
| lwIP, the FreeRTOS kernel, other Xilinx drivers, bootloader | third-party | | not modelled |

The repository's own code is `src/src` and `src/ns_guest/src`, some ten thousand
lines with headers and the copies for three boards. The rest, nearly two hundred
thousand lines under `src/ns_guest/lib` and `src/ns_guest/inc`, is lwIP, FreeRTOS
and Xilinx's libraries as their projects release them; of these the two layers are
modelled on which the guest's own choices (priorities, sizes, locks) bear: the
port layer and the receive path.

### How they interact

S runs first, with IRQ and FIQ masked. It calls the drivers directly and gives
the CPU away with the hypercall `YIELD`. The monitor then pushes S's registers
on its stack, loads those of NS from `NS_Guest.core`, sets NS and FIQ in the SCR
and returns into NS. While NS runs, a secure interrupt (tick or SPI) enters
`_mon_fiq_handler`: it reads the id from ICCIAR, saves NS, calls the handler
that `fiq_handlers` has for the id, ends the interrupt and pops S. NS handles
its own IRQs without the monitor and may use the board hypercalls. Both worlds
share the interrupt controller, whose lines change at any time, also between two
instructions of the monitor.

Both worlds also write to UART 1, without a lock across them, and share one word of
memory: S writes the byte it has read from SPI 1 into `sensor_data`, uncached; the
echo server of NS reads it through its caches and sends it to web clients. Inside
NS, FreeRTOS switches threads at ticks and interrupts; the Ethernet handler fills a
queue that the input thread hands to lwIP, whose sockets the echo server uses.

### What is hard here

- One activation of the monitor pushes what a later one, of another vector,
  pops. Nothing checks the balance.
- During the FIQ handler the registers of NS are in three places.
- The FIQ handler reads ICCIAR twice while devices go on raising lines, and keeps
  the id in a global variable.
- Progress of NS depends on S's hypercall and progress of S on the tick alone.
- The SPI handler reads several bytes after one look at the status, while the
  controller goes on receiving, and the sources it disables are also switched by
  the driver's operations.
- Four interrupts share a word of the priority and target registers. Both worlds
  read, modify and write these words, and NS can lose the CPU between the read and
  the write.
- The set-up of S's interrupts is spread over calls of three files, several of
  which write whole registers: the order matters.
- The kernel of NS relies on the priority mask of the controller to keep handlers
  out of critical sections; handlers nest, and tasks give up the CPU inside critical
  sections.
- The DMA fills receive descriptors while the handler empties and refills them, both
  write the word with the new bit, and one binary semaphore stands for any number of
  packets.
- S and the threads of NS poll and write the same UART, and S can take the CPU
  between a poll and its write.
- S writes one byte of a word in memory while NS holds the word, dirty, in a cache.
- The TTC registers are updated with `|=`: what a call leaves depends on the
  calls before it.

`PROJECT.json` lists these hazards at their lines with the properties that would
notice if they went wrong.

### What makes each component correct

- Monitor: a world finds its registers as it left them (`WorldsIsolated`), the
  stack is balanced (`StackBalanced`), FIQs go where the running world needs them
  (`MonitorConsistent`, which implies `RoutesMatchWorld`), the dispatched id is current (`DispatchIsCurrent`), every
  acknowledged secure interrupt is ended, in order (`SecureInterruptsCompleted`,
  `EoiInOrder`), both worlds run again and again (`SecureResumes`,
  `NonSecureResumes`).
- Interrupt controller driver: once S has started, its interrupts stay its own,
  enabled, targeted, at their priorities and unmasked (`SecureInterruptsReady`),
  and an interrupt whose priority NS has set stays below them
  (`SettledBelowSecure`).
- SPI: the ring is a bounded queue (`RingIsQueue`), bytes keep their order
  (`BytesInOrder`), the handler never reads an empty FIFO (`NoUnderflow`), a full
  FIFO is read (`FullFifoDrained`).
- FreeRTOS port: the kernel's data have one writer (`KernelDataExclusive`), the tick
  handler may unmask (`TickFindsUnmasked`), masks and counts survive switches
  (`NestingKept`, `MaskFollowsNesting`), a switch abandons no handler
  (`SwitchLeavesNoHandler`) and comes (`SwitchHappens`).
- Ethernet reception: driver and device agree on the ring (`RingConsistent`), every
  pbuf has one owner (`PbufsOwnedOnce`), frames keep their order (`FramesInOrder`),
  no packet is left waiting (`NoPacketStranded`, `QueueDrains`).
- Console: lines of S arrive whole and read as the numbers printed
  (`SecureLinesWhole`), a byte of NS is lost only to a write that overtook it
  (`LossNeedsOvertaking`), `printk` returns (`PrintkReturns`).
- Sensor: no client sees a byte nobody wrote (`NoJunkAnswered`), answers have a
  bounded age (`AnswerNotOlderThanLastAccept`) and never go back (`NeverBackwards`),
  every sample or a later one is served (`SamplesServed`).
- TTC: no timer interrupts early (`NeverEarly`); a refused request does not touch
  a granted period (`RefusalKeepsPeriod`).

## 2. The modules

### Monitor, Gic and TwoWorlds

`Monitor` has one action per group of instructions between which a device can
make a difference:

| action | code |
|---|---|
| `Yield`, `SchedRestore` | `_mon_smc_handler`, `_mon_scheduler`, `WORLD_CONTEXT_RESTORE`, `SCR_NS_SET` |
| `BoardSmc`, `BoardReturn` | `board_smc`, `call_c_function_arg`, `board_handler`, `exception_return_arg` |
| `UnknownSmc` | the fall-through of `_mon_smc_handler` |
| `FiqEntry`, `FiqReadId`, `FiqAck`, `FiqSave`, `FiqHandle`, `FiqEoi`, `FiqReturn` | `_mon_fiq_handler` from its entry to its exception return |
| `NsIrqAck`, `NsIrqDone` | the interrupt handling of NS (external) |
| `Raise` | a device (external) |
| `Compute` | a guest's own instructions (external) |

The registers are grouped into banks, the units the monitor saves and restores.
The stack is a sequence of banks, and the positions at which the code pops are
stated apart from those at which it pushes (`Frame` and `FramePos`). `Scratch`
is what the monitor's code leaves in a register it uses: a guest that ever sees
it has received the monitor's data. `interrupt` past the end of `fiq_handlers`
makes `fiq_handler` call whatever memory holds there (`fiq_astray`).

`Gic` has the operators for the controller: the best candidate, its signal
(FIQ or IRQ), a read of ICCIAR by either world, the write of ICCEOIR. It is
hardware and marked external; which interrupts are secure and their priorities
are constants, with the values of `ltzvisor_hw.c` in `MCMonitor`.

`TwoWorlds` is the abstract specification: two worlds with their own registers;
only the one that runs computes; a switch changes no register.
`Monitor` implements it through a mapping that says where each world's
registers are at every control point (`SecureRegs`, `NonSecureRegs`).

Assumptions about the environment:
only S issues the scheduler hypercall (its `YIELD` is in the secure guest's
headers only); NS cannot mask FIQ because `SCR.FW` is clear; S executes with
FIQ masked. `TwoWorlds` is stated for what the code keeps: the FIQ bank of NS
and the SVC, ABT, UND and IRQ banks of S are not saved by the monitor, and
`monitor_svc_bank` shows what this means for the SVC bank.

### GicDriver

The registers are a record of sets and functions over the interrupts; `Word(i)`
is the set of interrupts that share a register with `i`. `StartUp` is the
sequence of driver calls from `ltzvisor_main` to the end of `hw_init`, and `pc` the
next of them; if the identification registers do not match, `ltzvisor_main`
stops (`DistributorMissing`, `ErrorLoop`). Each call of the secure side is one
step. For NS, `interrupt_priority_set` and `interrupt_target_set` are two steps
(`NsPriorityRead`/`NsPriorityWrite`, `NsTargetRead`/`NsTargetWrite`) with a FIQ,
and calls of S (`LaterCall`), possible in between. What the controller
does to an access of NS is modelled by the security extensions' rules: fields of
secure interrupts read as zero and ignore writes, priorities are shown shifted,
the mask is out of reach while S has it in the upper half.

Pending bits, and the loop of `interrupt_interface_init` that reads ICCIAR, leave
no trace: the CPU interface is disabled there and ICCIAR reads as 1023. NS is
assumed to reach the controller through its driver and not through the board
hypercall.

### Spi and ByteQueue

One action per function of the driver. They are atomic because S runs with
FIQ masked; the handler is `IsrEnter`, one `IsrRead` per round of its loop, and
`IsrExit`, interleaved with `Exchange` (a byte on the wire). `world` says which
guest executes: S calls the driver, the handler runs as a FIQ taken from NS, and
at its end S resumes. The bytes are numbered as they come in; the properties
need no more of them. `ByteQueue` is the queue the ring implements. Indices are
bytes (`% 256`); `char` is unsigned in the ARM ABI. `SPI_1_ClockEnable` and
`SPI_1_SignalRoute` write constants and are left out.

`thres` is the threshold register, which decides from which fill level on the status
shows `RX_NEMPTY`: `SPI_1_Config` sets it to `RX_THRES_VAL`, a reset puts it back to 1.
The handler reads `RX_THRES_VAL` bytes whatever the register holds, and reading an
empty FIFO gives an arbitrary byte (`RxData`). `SPI_1_Enable` does not check that the
controller was configured after the last reset; `main` of `blink.c`, its only
caller, configures it (`Configured`), and `NoUnderflow` depends on that.

The FIQ of the tick is two steps, one for each read of ICCIAR: with the priorities
of `hw_init` the second read takes the interrupt of the controller if it has been
raised since the first (`TickAckAgain`). That interrupt is never ended (run
`monitor_double_ack`), and neither it nor the tick is signalled again: `swallowed`.

### Ttc

The registers of each timer as a record, with the prescaler field as the set of
its bits, so that `|=` is a union. `asked` is a history variable, the time of the
last request that was granted. `Period` turns the registers into cycles of the
111 MHz clock, by the formula of the device.

### RtosPort

Tasks and handlers are sequences of control points; a step runs from one point at
which an interrupt can be taken to the next, and code between `CPSID` and `CPSIE` is
one step. `pmr` is the priority mask as NS sees it, `frames` the stack of handlers
that are running, `saved` the nesting counts in the contexts of tasks that are
switched out. `depth` is a history variable: the critical sections a task has
entered and not left, which the counts are compared with. Which task
`vTaskSwitchContext` chooses and what `xTaskIncrementTick` returns is left open.
`Requested` holds the priorities the set-up code passes to
`interrupt_priority_set`, which keeps four bits of them (`Prio`).

| action | code |
|---|---|
| `vPortEnterCritical_Mask`, `_Count`, `vPortExitCritical`, `_Unmask` | the two functions, split where an interrupt can come |
| `FreeRTOS_SWI_Handler`, `ResumeInCritical` | `portYIELD`, also inside a critical section, and the return from it |
| `FreeRTOS_IRQ_Handler_Entry`, `_Exit` | the assembly before and after `vApplicationIRQHandler`; ICCIAR may return 1023 |
| `FreeRTOS_Tick_Handler_Mask`, `_Increment`, `_Unmask`, `FreeRTOS_ClearTTCTickInterrupt` | the tick handler |
| `XEmacPs_IntrHandler`, `FromISR_Mask`, `FromISR_Return` | another handler and the kernel functions it calls |

### EmacRx

The descriptors, the driver's heads and counts, the registers that raise and explain
the interrupt, the queue, the semaphore and the input thread. `todo` is the list of
calls the interrupt handler still has to make; the DMA (`Receive`, `Lose`) may act
between any two of them, threads run when it is empty. `low_level_input` is one step
because `SYS_ARCH_PROTECT` masks interrupts in the CPU (`sys_arch_raw.c`). Frames are
numbered; `content` says which one a pbuf holds. The model includes that
`setup_rx_bds` hands a descriptor to the device before it has an address: a frame
that arrives there is written to address 0. `XEmacPs_BdSetAddressRx` then reads the
first word (`word` is the new bit it saw) and writes it back with the address, two steps
with the DMA in between: a new bit that was set meanwhile is erased, and `erased` records
that. From then on the scan waits at a descriptor the DMA has passed; the frame in it
is overwritten when the DMA comes round, and goes up before older ones that
were filled behind it. The counts, the owners of the pbufs and the wake-up of the
thread do not depend on the bit and hold regardless; `RingConsistent` (for the new bits)
and `FramesInOrder` are claimed up to the first erasure, which takes a ring
that has filled up during the refill (`ErasedOnlyInFullRing`).

### Console

`vsprintk` with the conversions `d`, `x` and `o` is an operator (`Digits`), and
`SecureLinesWhole` compares what arrives with a reference definition (`Reads`: the
digits read the number in the base, with no needless leading zero). S polls and
writes in one step since NS does not run meanwhile; a thread of NS polls
and writes in two, and `overtaken` is the set of those that somebody else wrote
before. `%s` is left out: `vsprintk` bounds it by the length of whatever was in
the uninitialised buffer.

### Sensor

`memory` is the word as S and the memory see it, `cache` the line of it in the caches
of NS, which may be evicted or loaded at any time (`Evict`, `Prefetch`). The echo
thread and the threads of connections are control points; requests are the kinds
the code tells apart. `recv_buf` is not terminated, so `stale` is what is
searched behind the bytes received. Samples are numbered, so that an older one is
smaller; `Junk` is a byte that was in memory before. `settled` and `due` are history
variables: the sample in memory at the last accept, and at the accept before the one
of a connection.

## 3. The runs

| run | instance | result |
|---|---|---|
| `monitor_tick` | two secure interrupts of one priority, one of NS, the read hypercall, fairness | all safety and liveness properties hold |
| `monitor_hw_init_2` | an NS interrupt more urgent than the secure one, all hypercalls | the read of the id may give 1022; every world still finds its registers as it left them |
| `monitor_double_ack` | two secure interrupts with the priorities of `hw_init`, two of NS | violation: the second read of ICCIAR acknowledges an interrupt nobody ends |
| `monitor_svc_bank` | one secure interrupt, one of NS | violation: S resumes on the SVC bank of NS |
| `gic_shared` | seven interrupts in five words, two register states before the start, `hw_init_2` and a neighbour of SPI 1 as later calls | all properties hold |
| `spi_ring` | ring of 3 slots, threshold 2, FIFO of 3, 6 bytes, the tick's FIQ between | all properties hold; a full FIFO is read unless its interrupt is acknowledged with the tick |
| `ttc_requests` | a valid and a refused timer, nine times at the boundaries of the ranges | all properties hold |
| `rtos_critical` | two tasks, two interrupts with priorities 12 and 14, critical sections two deep | all properties hold |
| `rtos_priority` | the same with the priorities `tick.c` and `xemacpsif_dma.c` pass | violation: neither interrupt is held back by a critical section |
| `emac_receive` | ring of 2, queue of 2, mailbox of 1, 6 pbufs, 5 frames | all properties hold, the new bits and the order of frames until a new bit is erased |
| `console` | S and two threads, FIFO of 2, two lines, one byte per thread | all properties hold |
| `sensor` | two connections, two samples | all properties hold |

Each `violation` run has a finding in `PROJECT.json` that quotes the line of the
repository the code disagrees with.

Smaller disagreements between comments and code, met while modelling, for which no
run is kept: `RX_THRES_VAL` is 6 where `zynq_spi.c:177` says one byte; `CR_CS_NS` is
the decimal 1111 and leaves the CS field at 0111 where `zynq_spi.c:333` says all chip
selects are de-asserted; after a longer request the prescaler stays 11 where
`zynq_ttc.c:205` says 1; the loop at `gic.c:131` leaves out the interrupts from 64 on;
`XEmacPs_BdRingFromHwRx` never compares with `HwCnt` as its comment says, which matters
once the pbuf pool is exhausted; a byte NS writes can be lost where `xuartps_hw.c:66`
says the call blocks until it is in the FIFO; `setup_rx_bds` writes to a descriptor it
has handed over, against `xemacps_bdring.c:526-529` ("Any changes made to these BDs
after this point will corrupt the BD list"): without the condition `~erased`, TLC finds
`RingConsistent` violated in nine steps and `FramesInOrder` in fourteen.

`monitor_hw_init_2` is checked without deadlock detection, because an unknown
hypercall or an id past the table leaves the modelled code for good
(`smc_astray`, `fiq_astray`). `emac_receive` and `console` are checked without it
because their bounds (`MaxFrames`; `MaxLines` and `MaxBytes`) end every behaviour, as
a silent wire does. `spi_ring` is checked without it because the program does stop: when
an interrupt is swallowed, S does not get the CPU again. Every other run is free of
deadlock.

### Bounds and why they are enough

- Monitor: register banks hold tokens (world, bank, version) with two versions,
  so a value in the wrong world, in the wrong bank or out of date is visible. The
  stack needs no bound: `StackBalanced` bounds it. Two secure interrupts are
  enough for one to overtake the other, and in `monitor_double_ack` two of NS for one
  to be active while another is pending.
- Interrupt controller driver: the words contain each kind of neighbours: SPI 1
  (S) with UART 1 (NS), and the two timers of NS. Before the start the
  registers are either at reset or with every bit the other way, so nothing the start-up
  leaves out goes unnoticed. NS asks for priorities 14 and 896 (14 shifted by 6, as
  `tick.c` does), and calls the driver for SPI 1, too.
- SPI: three slots hold two bytes, so the ring is full, empty and wrapped at every
  index; a FIFO larger than the threshold lets bytes arrive during the handler and
  overrun; six bytes (`MaxBytes`) go round the ring twice. The threshold differs from
  the reset value of its register. The proofs do away with the sizes.
- FreeRTOS port: two tasks switch to and fro at every point; two interrupts of
  different priority nest; two levels (`MaxDepth`) tell an inner exit from the outer
  one. The proofs are for any number of each.
- Ethernet: a ring of two wraps, and five frames go round it twice and leave one to
  come out of order after an erased new bit; queue and mailbox overflow. There are as many pbufs as the places that hold them, so that
  `pbuf_alloc` does not fail in this run; the real pool is smaller than ring and queue
  together, and what happens then is noted with the hazard at `xemacps_bdring.c:816`.
- Console: a line is longer than the FIFO, so S waits in it and NS finds it full;
  two threads overtake each other. The numbers are 0, one with a zero inside, and the
  largest, which uses every place.
- Sensor: with two samples one replaces the other before, during and after every
  step of the server; two connections answer in either order.
- TTC: 0, the ends of both ranges and their neighbours, 10000 for products of
  the middle. The proofs are for every time.

### Fairness

- `WF(MonitorStep)`: the monitor runs with interrupts masked and its steps are
  instructions.
- `SF(FiqEntry)`: a pending FIQ is taken before the next instruction of NS.
  A hypercall of NS disables `FiqEntry` for its duration, so weak fairness would
  allow an endless row of hypercalls to put the FIQ off, which the hardware does
  not.
- `SF(Yield)`: every round of the loop in `blink.c` ends in `YIELD`; board
  hypercalls in between disable it for their duration.
- `WF(Raise(tick))`: the interval timer runs for ever.
- SPI: `WF(Yield)` for the same reason, and `WF` of the handler and of the rest of the
  tick's FIQ because a FIQ is taken when NS runs and its code goes on to the end. An
  interrupt that the second read of ICCIAR has acknowledged is not signalled:
  `IsrEnter` is disabled then, and `FullFifoDrained` names the case.
- FreeRTOS port: `SF` of the steps and of the return of a handler, per interrupt: lines
  are asserted at the rate of a timer or of frames on a wire, so a handler that is
  interrupted again and again still executes in between. Nothing is assumed of tasks.
- Ethernet: `WF` of the interrupt, of the handler's steps, and of the thread, which
  shares its priority with others under time slicing; the thread above it waits for its
  mailbox.
- Console: `WF` of the transmitter and of S, which runs with interrupts masked. Nothing
  is assumed of NS.
- Sensor: `WF(main_Loop)`, since the tick gives S a round again and again (as long as
  no secure interrupt is lost to the second read of ICCIAR, as `monitor_double_ack` shows
  it can be; the same holds for `SecureResumes`, whose run has equal priorities), and
  `WF` of the echo thread, whose `accept` returns again and again because the page it
  serves asks for a value every second. Nothing is assumed of the connections.

## 4. The proofs

| theorem | module | says |
|---|---|---|
| `TypeCorrect`, `StackIsBalanced`, `MonitorIsConsistent`, `RoutesAreRight` | `MonitorProofs` | `TypeOK`, `StackBalanced`, `MonitorConsistent`, `RoutesMatchWorld` for all interrupts, priorities, values and hypercalls |
| `MonitorIsolatesWorlds` | `MonitorProofs` | `Spec => TW!Spec` |
| `DispatchCurrent` | `MonitorProofs` | `DispatchIsCurrent` if every secure interrupt is more urgent than every one of NS |
| `SecureInterruptsAreCompleted`, `EoisInOrder` | `MonitorProofs` | if moreover the secure interrupts have one priority |
| `GicTypeCorrect`, `SecureInterruptsStayReady`, `SettledStayBelow` | `GicDriverProofs` | for every set of interrupts, register contents before the start, calls of NS and later calls of S |
| `SpiTypeCorrect`, `HandlerNeverUnderflows`, `RingImplementsQueue`, `BytesStayInOrder` | `SpiProofs` | for every ring size up to 255, threshold and FIFO depth; the guest configures the controller between reset and enable |
| `TtcTypeCorrect`, `TimersNeverEarly`, `RefusalsKeepPeriods` | `TtcProofs` | for every set of times, so for every argument of `ttc_request` |
| `RtosTypeCorrect`, `CriticalSectionsExclude`, `TickMayUnmask`, `NestingIsKept`, `MaskIsNesting`, `NoHandlerAbandoned` | `RtosPortProofs` | if every interrupt has a priority the mask covers (`Maskable`): for all tasks, interrupts, priorities and depths |
| `EmacTypeCorrect`, `NothingStranded` | `EmacRxProofs` | `TypeOK`, `NoPacketStranded` for every ring, queue, mailbox and pool size, an exhausted pool included |
| `RingStaysConsistent`, `PbufsStayOwnedOnce`, `FramesStayInOrder` | `EmacRxProofs` | `RingConsistent`, `PbufsOwnedOnce`, `FramesInOrder` in every behaviour in which a refill finds a pbuf (`PoolLasts`), for every size; order and new bits until a new bit is erased |
| `ErasedOnlyInFullRing` | `EmacRxProofs` | under the same condition a new bit is erased, the first time, only when every descriptor of the device is filled |
| `PoolSuffices`, `EnoughPbufs` | `EmacRxProofs` | with `N + PQ_QUEUE_SIZE + Mbox + 1` pbufs (`Enough`) every refill finds one, so the three hold without that condition |
| `AnswersAreClean`, `AnswersAreNotTooOld`, `NothingGoesBackwards` | `SensorProofs` | `NoJunkAnswered`, `AnswerNotOlderThanLastAccept`, `NeverBackwards` for any connections and samples |
| `LossesAreOvertakings`, `SecureLinesArriveWhole` | `ConsoleProofs` | `LossNeedsOvertaking`, `SecureLinesWhole` for any FIFO depth, threads, numbers and conversions |
| `NumbersReadRight` | `ConsoleProofs` | the digits of every number below 2^31, in bases 10, 16 and 8 and with every padding from 1 to 8, read as this number |
| `FullFifoIsSignalled`, `PutsNeverStuck` | `SpiProofs`, `ConsoleProofs` | the safety part of `FullFifoDrained` and of `PrintkReturns`: no reachable state of the driver keeps the handler or S from going on |

The arguments:

- **Monitor.** `StackBalanced` is not inductive: whether a board call returns to
  a stack with S's frame under it depends on the SCR, and the SCR on how the
  monitor was entered. `IInv` is `TypeOK`, `StackBalanced` and
  `MonitorConsistent`; the last ties the SCR to the control points and says which
  registers may hold `Scratch` where. `TypeOK` itself needs this: the context of
  NS holds proper values because `FiqSave` takes what the handler has used from
  the stack. TLC checks all three parts in `monitor_tick`.
- **Isolation.** Under `IInv` each action is a step of `TwoWorlds` or leaves
  `running` and `regs` alone. The work is to show, action by action, that the bank
  a world's register is looked up in before the step holds the same value as the
  one after it: positions in the stack relative to its bottom for S, to its top
  for NS.
- **Interrupts.** `DispatchIsCurrent` rests on: from the signal of the FIQ to the
  first read there is a secure candidate, because no NS interrupt outranks one
  (`SecureFirst`) and lines only rise meanwhile. Completion needs that the second
  read finds nothing (`SecureEqual`): an interrupt that is not more urgent than
  the active one is not signalled. The zedboard's priorities satisfy the
  first condition and not the second, and `monitor_double_ack` is the
  counterexample.
- **Interrupt controller driver.** `IInv` adds to `TypeOK` what each call of the
  start-up has achieved by the time `pc` is past it (`Progress`) and that NS has
  not run before (`NsComesLater`). A call changes only the fields it is about
  (`EffectFields`), so later calls undo nothing. For NS one lemma (`NsKeeps`) says
  that a step which leaves secure fields alone and writes priorities and mask in
  the lower half keeps the invariant; a stale word written back after a FIQ is
  such a step, whatever S did meanwhile. Together with `SettledStayBelow` this
  gives the condition `SecureFirst` of the monitor's theorems for the interrupts NS
  has set up.
- **SPI.** `IInv` is `TypeOK`, `NoUnderflow`, the latter with the fact that S
  stays out of the driver while the handler runs, and `ThresholdInv`: a controller whose
  threshold register is not `RX_THRES_VAL` is disabled and its FIFO empty, so that the
  status shows `RX_NEMPTY` only when the handler's reads find bytes. The refinement follows from lemmas
  about the ring: appending at the head appends to `Contents`, advancing the tail
  removes its head, and a ring whose head is about to meet its tail holds
  `RxBuffSize - 1` bytes. The same lemmas carry the order of the bytes: `OrderInv` says
  that reader, ring and FIFO are each increasing, that one's bytes come before the
  next one's, and that the wire has brought them all.
- **TTC.** `NeverEarly` needs the stronger `TimerInv`: if a request was granted,
  the prescaler is on and one of the two values the driver writes, and the limit
  register holds the ticks of the time asked with at least that prescaler. Then
  the arithmetic of the two conversions is a lemma over all times in each range.
  For `RefusalKeepsPeriod`, a step that leaves the time asked as it is leaves the
  prescaler too (`StepKeepsPrescalers`), and by `TimerInv` the limit depends on the time
  asked only.
- **FreeRTOS port.** The conclusions lean on each other, so `IInv` joins them with
  what holds at each control point: tasks that are not running are at a point where
  they can be switched out (`OthersParked`), the mask a task has by its point
  (`TaskMask`) and a handler by its own (`FrameMask`), a handler below another one is
  in code that runs unmasked (`LowerFramesOpen`), a task interrupted by a handler was
  outside its critical sections (`Interrupted`), and the nesting count is the number
  of frames (`Counts`). `Maskable` gives the main step: a signalled interrupt finds the
  mask open. The guest's priorities do not satisfy `Maskable`, and `rtos_priority` is the
  counterexample; with priorities from 10 to 14 the theorems apply.
- **Ethernet.** A packet enters the queue together with a `signal` among the calls
  still to be made; that call sets the semaphore, and only the thread clears it, on its
  way to `input`, which it leaves for `delay` with an empty queue only.
  The other invariants are built in layers. `CallsInv` says which calls of the handler
  can still be to come, `RingInv` how heads and counts go together, `SplitInv` that the
  ring splits into completed, empty and free descriptors (`Split`), where the counts put
  the borders; `WordInv` that a new bit the refill has read is still there when it
  writes; `OwnerInv` that ring, queue,
  hand, lwIP and pool are a partition of the pbufs; `ContentInv` that the DMA writes
  into the pbuf the driver has stored beside the descriptor, or into none; `OrderInv`
  that what was handed on is older than what is in the hand, that than what is
  queued, and that than what is completed. `SplitInv`, `ContentInv` and `OrderInv` end
  with the first erased new bit, the others do not. All of them need that a refill finds a
  pbuf: after a failed one, the scan for completed descriptors goes on into free ones
  that still carry their old bit. `PoolLasts` is this condition. Without it TLC
  finds a ring of two with two pbufs that breaks, and the guest's configuration does not
  exclude that: `PBUF_POOL_SIZE` is 2048, queue and ring can hold 4096 and 64.
  `PoolSuffices` shows what would be enough, by counting the places a pbuf outside the
  pool can be in; `emac_receive` runs with exactly that number.
- **Sensor.** A dirty line holds the zeros of the start and is gone before the first
  read of the word (`DirtyInv`); later the line is only ever older than memory
  (`WordInv`), so that discarding it and reading again gives a published word that is not
  older than any before (`ToldInv`, `AgeInv`).
- **Console.** A thread that has polled and was not overtaken still finds room
  (`RoomInv`): only writes fill the FIFO, and each marks the threads it overtakes.
- **Lines.** The digit at a place is what is left of the number there, modulo the base.
  So what a reader has made of the first digits is the number divided by the weight of
  the next place (`PlacesDivide`, `DigitsRead`), and after the last place that weight is
  1. Where this needs induction over the places, it is made by a least
  counterexample (`LeastElement`): the library states the minimum of a well-founded
  relation for sets, and `Nat` is well-founded. The inductive invariant of
  `SecureLinesWhole` is `LineInv`: what stands before each newline of S is what
  `vsprintk` made of the call of that number (`Whole`); while S is in `uart_puts`, the
  end of the stream and the characters still to be sent make up the line under way
  (`Sending`), and otherwise there is no line under way (`Resting`).

The assumptions of the theorems are the `ASSUME`s of the modules, which TLC
evaluates in each run, and the named conditions above: `SecureFirst`, `SecureEqual`,
`Maskable`, `PoolLasts` and `Enough`.

### Only model-checked

Liveness (`SecureResumes`, `NonSecureResumes`, `FullFifoDrained`, `SwitchHappens`,
`QueueDrains`, `PrintkReturns`, `SamplesServed`) is outside what the prover handles, for
it has no rule for `ENABLED`, and so for fairness. Every safety property of a
passing run is proved.

## 5. What is not modelled, and the plan

Not modelled, and why:

- Boot (`cpu_entry.S`, `cpu_cp15_switch.S`) and the copy of the NS image: executed once
  by one core with interrupts off; the state they leave is `Init` of `Monitor` and
  the order of the C calls after them is in `GicDriver`. That the loop clearing `.bss`
  writes one word too many is listed as a hazard; what lies there is the linker's choice.
- The page table, cache maintenance by set and way, the linker script, clock and pin
  routing: constants, written once.
- DHCP (`main_thread`, `network_thread`): the race of the time-out with a late address
  is inside lwIP's client, whose timers `network_thread` calls beside the thread of lwIP
  and without its lock; a model would interleave lwIP's statements.
- `delay.c`, `hw_init_2`'s timer, `interrupt_IPI_generate`, `uart_getc`, `test`: nothing
  calls them.
- Transmission in the Ethernet driver, its reset after a bus error and the PHY.
- The insides of lwIP and of the FreeRTOS kernel, the Xilinx drivers the guest does not
  use, the bootloader image: third-party. What they may do is left open where a
  module uses them.
- Time: the status bit of an old TTC period and the age of a sample in seconds.

To come:

1. Transmission beside reception in `EmacRx`: both change the pool and run in the same
   handler.
2. A composition of `Monitor` with `GicDriver`, whose registers become the constants of
   `Gic`, so that the condition `SecureFirst` of the monitor's theorems is a consequence
   and not an assumption.
