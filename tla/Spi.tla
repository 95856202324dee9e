--------------------------------- MODULE Spi ---------------------------------
(***************************************************************************)
(* The SPI 1 driver of the zedboard (zynq_spi.c): the controller's receive *)
(* FIFO, its interrupt, and the ring buffer between the interrupt handler  *)
(* and SPI1_ReadData.                                                      *)
(*                                                                         *)
(* The secure guest calls the driver with FIQ masked, so its operations    *)
(* are single steps.  The handler runs as a FIQ taken while the non-secure *)
(* guest executes; its loop interleaves with the bytes the controller      *)
(* keeps shifting in, and when it ends the secure guest resumes.  The FIQ  *)
(* of the tick does the same, but the monitor acknowledges twice, and the  *)
(* second time may take the controller's interrupt, which nobody ends.     *)
(***************************************************************************)
EXTENDS Naturals, Sequences

CONSTANTS
    RxBuffSize, \* RX_BUFF_SIZE, the slots of the ring that are used
    RxThres,    \* RX_THRES_VAL, the bytes the handler reads
    FifoDepth,  \* the bytes the controller's FIFOs hold
    MaxBytes    \* bound: the bytes exchanged in a behaviour

ASSUME SizeAssumption ==
    /\ RxBuffSize \in 2..255
    /\ FifoDepth \in Nat
    /\ RxThres \in 1..FifoDepth
    /\ MaxBytes \in Nat

\* The bytes on the wire, told apart by their position; 0 is what `lsb' of
\* blink.c holds before the first read.
Byte == 0..MaxBytes

\* Interrupt sources of the status register: the first two are latched until
\* a 1 is written, the others follow the fill level.
Sources == {"RXOVR", "MODF", "RXNEMPTY", "RXFULL"}

VARIABLES
    enabled,    \* er_register
    cs,         \* the 4-bit CS field of cr_register
    ien,        \* the interrupt sources that are enabled
    latched,    \* the latched sources
    thres,      \* rx_thres_reg, the fill level RX_NEMPTY stands for
    txFifo,     \* bytes written to txd_register and not shifted out yet
    fifo,       \* the receive FIFO
    wire,       \* bytes exchanged so far
    buf,        \* RX_BUFFER
    head,       \* RX_BUFFER_HEAD
    tail,       \* RX_BUFFER_TAIL
    world,      \* the guest that executes: only S calls the driver
    isr,        \* the handler: Idle, or the bytes it has read in its loop
    tick,       \* the FIQ of the tick is between its two acknowledges
    swallowed,  \* the controller's interrupt was acknowledged with the tick
    got         \* what SPI1_ReadData delivered last

ring == <<buf, head, tail>>
hw == <<txFifo, fifo, wire>>
fiq == <<tick, swallowed>>
vars == <<enabled, cs, ien, latched, thres, txFifo, fifo, wire, buf, head,
          tail, world, isr, tick, swallowed, got>>

\* The handler is not running.
Idle == RxThres + 1

\* sr_register, and the interrupt line.
Status == latched \cup (IF Len(fifo) >= thres THEN {"RXNEMPTY"} ELSE {})
                  \cup (IF Len(fifo) = FifoDepth THEN {"RXFULL"} ELSE {})
Line == Status \cap ien # {}

\* CR_CS_NS is the decimal 1111 shifted by ten: of the four bits of the CS
\* field it has the lower three set.
CsNone == 7
SetBits(field) == IF field >= 8 THEN 8 + CsNone ELSE CsNone
CsSlave0 == 0

\* One slot on, in the arithmetic of a byte.  Mutant: the wrap comes one
\* slot late.
SuccessorLate(n) == IF (n + 1) % 256 > RxBuffSize THEN 0 ELSE (n + 1) % 256

Successor(n) == IF (n + 1) % 256 = RxBuffSize THEN 0 ELSE (n + 1) % 256

\* The value of rx_thres_reg after a reset.
ThresDefault == 1

\* The controller's registers after a reset.
ControllerReset ==
    /\ enabled' = FALSE
    /\ cs' = 0
    /\ ien' = {}
    /\ latched' = {}
    /\ thres' = ThresDefault
    /\ txFifo' = 0
    /\ fifo' = <<>>

-----------------------------------------------------------------------------
\* The driver's buffer is in .bss and the controller out of reset.
Init ==
    /\ enabled = FALSE
    /\ cs = 0
    /\ ien = {}
    /\ latched = {}
    /\ thres = ThresDefault
    /\ txFifo = 0
    /\ fifo = <<>>
    /\ wire = 0
    /\ buf = [n \in 0..RxBuffSize - 1 |-> 0]
    /\ head = 0
    /\ tail = 0
    /\ world = "S"
    /\ isr = Idle
    /\ tick = FALSE
    /\ swallowed = FALSE
    /\ got = 0

\* SPI_1_Reset.
Reset ==
    /\ world = "S"
    /\ ControllerReset
    /\ UNCHANGED <<wire, ring, world, isr, fiq, got>>

\* Mutant: only one end of the ring is reset.
ConfigKeepsTail ==
    /\ world = "S"
    /\ cs' = CsNone
    /\ head' = 0
    /\ thres' = RxThres
    /\ UNCHANGED <<enabled, ien, latched, hw, buf, tail, world, isr, fiq, got>>

\* SPI_1_Config.
Config ==
    /\ world = "S"
    /\ cs' = CsNone
    /\ head' = 0
    /\ tail' = 0
    /\ thres' = RxThres
    /\ UNCHANGED <<enabled, ien, latched, hw, buf, world, isr, fiq, got>>

\* Mutant: the guest enables the controller as the reset left it.
ConfiguredOrNot == TRUE

\* What the guest has done before it enables the controller: main calls
\* SPI_1_Config after every SPI_1_Reset.  (SPI_1_Enable does not look.)
Configured == thres = RxThres

\* SPI_1_Enable.
Enable ==
    /\ world = "S"
    /\ enabled' = TRUE
    /\ ien' = ien \cup {"RXFULL"}
    /\ UNCHANGED <<cs, latched, thres, hw, ring, world, isr, fiq, got>>

\* SPI_1_Disable.
Disable ==
    /\ world = "S"
    /\ enabled' = FALSE
    /\ ien' = ien \ Sources
    /\ cs' = SetBits(cs)
    /\ UNCHANGED <<latched, thres, hw, ring, world, isr, fiq, got>>

\* SPI1_SendData: select slave 0 and write txd_register, which drops the
\* byte when the transmit FIFO is full.
SendData ==
    /\ world = "S"
    /\ cs' = CsSlave0
    /\ txFifo' = IF txFifo < FifoDepth THEN txFifo + 1 ELSE txFifo
    /\ UNCHANGED <<enabled, ien, latched, thres, fifo, wire, ring, world, isr,
                   fiq, got>>

\* SPI1_ReadData.
ReadData ==
    /\ world = "S"
    /\ IF head # tail
       THEN /\ got' = buf[tail]
            /\ tail' = Successor(tail)
       ELSE UNCHANGED <<got, tail>>
    /\ cs' = SetBits(cs)
    /\ ien' = ien \cup Sources
    /\ UNCHANGED <<enabled, latched, thres, hw, buf, head, world, isr, fiq>>

\* SPI1_assert_slave: numbers other than 0 are ignored.
AssertSlave(n) ==
    /\ world = "S"
    /\ cs' = IF n = 0 THEN CsSlave0 ELSE cs
    /\ UNCHANGED <<enabled, ien, latched, thres, hw, ring, world, isr, fiq, got>>

\* SPI1_deassert_slave.
DeassertSlave ==
    /\ world = "S"
    /\ cs' = SetBits(cs)
    /\ UNCHANGED <<enabled, ien, latched, thres, hw, ring, world, isr, fiq, got>>

\* YIELD: the non-secure guest executes.
Yield ==
    /\ world = "S"
    /\ world' = "NS"
    /\ UNCHANGED <<enabled, cs, ien, latched, thres, hw, ring, isr, fiq, got>>

(***************************************************************************)
(* The FIQ of the tick.  hw_init gives the controller's interrupt priority *)
(* 4 and the tick 5, so the first read of ICCIAR returns the tick only     *)
(* while the line of the controller is low.  The second read returns the   *)
(* controller's interrupt if its line has risen since: that one is active  *)
(* from then on, only the tick's handler is called and only the tick is    *)
(* ended, and neither of the two is signalled again.  (After a first read  *)
(* that returned the controller's interrupt the second finds nothing more  *)
(* urgent: IsrEnter.)                                                      *)
(***************************************************************************)
TickFiq ==
    /\ world = "NS"
    /\ isr = Idle
    /\ ~tick /\ ~swallowed
    /\ ~Line
    /\ tick' = TRUE
    /\ UNCHANGED <<enabled, cs, ien, latched, thres, hw, ring, world, isr,
                   swallowed, got>>

\* The second read, the tick's handler and the return to the secure guest.
TickAckAgain ==
    /\ tick
    /\ tick' = FALSE
    /\ swallowed' = Line
    /\ world' = "S"
    /\ UNCHANGED <<enabled, cs, ien, latched, thres, hw, ring, isr, got>>

-----------------------------------------------------------------------------
\* The controller exchanges a byte with the slave.
Exchange ==
    /\ enabled
    /\ txFifo > 0
    /\ wire < MaxBytes
    /\ txFifo' = txFifo - 1
    /\ wire' = wire + 1
    /\ IF Len(fifo) < FifoDepth
       THEN fifo' = Append(fifo, wire') /\ UNCHANGED latched
       ELSE latched' = latched \cup {"RXOVR"} /\ UNCHANGED fifo
    /\ UNCHANGED <<enabled, cs, ien, thres, ring, world, isr, fiq, got>>

\* The controller sees another master on the bus.
ModeFail ==
    /\ enabled
    /\ "MODF" \notin latched
    /\ latched' = latched \cup {"MODF"}
    /\ UNCHANGED <<enabled, cs, ien, thres, hw, ring, world, isr, fiq, got>>

-----------------------------------------------------------------------------
(***************************************************************************)
(* SPI_1_irq_handler.  Entry: three sources are disabled, the latched ones *)
(* are cleared (each `|=' of the status register writes back every bit     *)
(* that is set), and the loop is entered if RX_NEMPTY is set.              *)
(***************************************************************************)
IsrEnter ==
    /\ world = "NS"
    /\ isr = Idle
    /\ ~tick /\ ~swallowed
    /\ Line
    /\ ien' = ien \ {"RXOVR", "MODF", "RXFULL"}
    /\ latched' = {}
    /\ isr' = IF "RXNEMPTY" \in Status THEN 0 ELSE RxThres
    /\ UNCHANGED <<enabled, cs, thres, hw, ring, world, fiq, got>>

\* What rxd_register may hold: the first byte of the FIFO, or anything when
\* that is empty.
RxData == IF fifo = <<>> THEN Byte ELSE {Head(fifo)}

\* Mutant: the check for a full ring is missing.
IsrReadOverwriting ==
    /\ isr \in 0..RxThres - 1
    /\ fifo' = IF fifo = <<>> THEN fifo ELSE Tail(fifo)
    /\ \E read \in RxData : buf' = [buf EXCEPT ![head] = read]
    /\ head' = Successor(head)
    /\ isr' = isr + 1
    /\ UNCHANGED <<enabled, cs, ien, latched, thres, txFifo, wire, tail, world,
                   fiq, got>>

\* One round of the loop: rxd_register is read, whatever the FIFO holds, and
\* the byte is stored unless the ring is full.
IsrRead ==
    /\ isr \in 0..RxThres - 1
    /\ fifo' = IF fifo = <<>> THEN fifo ELSE Tail(fifo)
    /\ \E read \in RxData :
          IF Successor(head) # tail
          THEN /\ buf' = [buf EXCEPT ![head] = read]
               /\ head' = Successor(head)
          ELSE UNCHANGED <<buf, head>>
    /\ isr' = isr + 1
    /\ UNCHANGED <<enabled, cs, ien, latched, thres, txFifo, wire, tail, world,
                   fiq, got>>

\* Mutant: the sources are not enabled again.
IsrExitSilent ==
    /\ isr = RxThres
    /\ isr' = Idle
    /\ world' = "S"
    /\ UNCHANGED <<enabled, cs, ien, latched, thres, hw, ring, fiq, got>>

\* The end of the handler, after which the monitor resumes S.
IsrExit ==
    /\ isr = RxThres
    /\ ien' = ien \cup Sources
    /\ isr' = Idle
    /\ world' = "S"
    /\ UNCHANGED <<enabled, cs, latched, thres, hw, ring, fiq, got>>

-----------------------------------------------------------------------------
Driver ==
    \/ Reset
    \/ Config
    \/ Configured /\ Enable
    \/ Disable
    \/ SendData
    \/ ReadData
    \/ \E n \in {0, 1} : AssertSlave(n)
    \/ DeassertSlave

Isr == IsrEnter \/ IsrRead \/ IsrExit

Tick == TickFiq \/ TickAckAgain

Next == Driver \/ Yield \/ Tick \/ Exchange \/ ModeFail \/ Isr

Spec == Init /\ [][Next]_vars

\* S yields in every round of its loop; a FIQ that is signalled is taken
\* while NS executes, and the monitor and the handler run to their end.
FairSpec == Spec /\ WF_vars(Yield) /\ WF_vars(Isr \/ TickAckAgain)

-----------------------------------------------------------------------------
TypeOK ==
    /\ enabled \in BOOLEAN
    /\ cs \in 0..15
    /\ ien \in SUBSET Sources
    /\ latched \in SUBSET {"RXOVR", "MODF"}
    /\ thres \in {ThresDefault, RxThres}
    /\ txFifo \in 0..FifoDepth
    /\ fifo \in Seq(Byte)
    /\ Len(fifo) <= FifoDepth
    /\ wire \in Byte
    /\ buf \in [0..RxBuffSize - 1 -> Byte]
    /\ head \in 0..RxBuffSize - 1
    /\ tail \in 0..RxBuffSize - 1
    /\ world \in {"S", "NS"}
    /\ isr \in 0..Idle
    /\ tick \in BOOLEAN
    /\ swallowed \in BOOLEAN
    /\ got \in Byte

\* The handler reads RX_THRES_VAL bytes once it has seen RX_NEMPTY, without
\* looking at the status again, and RX_NEMPTY stands for the threshold that
\* the register holds: at every round the FIFO still holds the bytes of the
\* rounds to come, while S is kept out for as long.
NoUnderflow ==
    /\ isr # Idle => world = "NS"
    /\ isr \in 0..RxThres - 1 => Len(fifo) >= RxThres - isr

\* The bytes in the ring, oldest first, with wrap-around at RX_BUFF_SIZE.
Count == IF head >= tail THEN head - tail ELSE RxBuffSize + head - tail
Slot(i) == IF tail + i - 1 < RxBuffSize THEN tail + i - 1
                                        ELSE tail + i - 1 - RxBuffSize
Contents == [i \in 1..Count |-> buf[Slot(i)]]

Q == INSTANCE ByteQueue WITH
        Capacity <- RxBuffSize - 1,
        queue <- Contents,
        turn <- IF world = "S" THEN "reader" ELSE "writer"

\* The ring that the handler fills and SPI1_ReadData empties is a bounded
\* queue: what is delivered is the oldest byte, a byte that arrives while
\* it is full is dropped, and no other byte is lost, overwritten or given
\* twice.
RingIsQueue == Q!Spec

\* Every byte comes later on the wire than the ones before it on its way
\* from the FIFO through the ring to the reader: none is delivered twice or
\* out of order, whatever was dropped and however often the driver was
\* configured anew.
BytesInOrder ==
    LET path == <<got>> \o Contents \o fifo
    IN  \A i, j \in 1..Len(path) : i < j => path[i] < path[j]

\* A byte at the end of a full FIFO is taken out of it, unless the driver
\* disables the controller or the monitor swallows its interrupt: no state of
\* the interrupt sources that enabling, reading and the handler leave behind
\* keeps the handler from running.
FullFifoDrained ==
    \A b \in Byte :
        (enabled /\ Len(fifo) = FifoDepth /\ Head(fifo) = b)
            ~> (~enabled \/ swallowed \/ \A i \in 1..Len(fifo) : fifo[i] # b)
=============================================================================
