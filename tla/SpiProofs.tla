------------------------------ MODULE SpiProofs ------------------------------
(***************************************************************************)
(* Proofs about Spi for every ring size up to 255, threshold, FIFO depth   *)
(* and number of bytes: types, the handler's reads, the ring as a bounded  *)
(* queue, the order of the bytes, and that a full FIFO is signalled.       *)
(***************************************************************************)
EXTENDS Spi, SequenceTheorems, TLAPS

\* The threshold of a controller that works, or has worked since its reset,
\* is the one the handler counts on: bytes arrive only while the controller
\* is enabled, the guest enables it only when configured, and a reset leaves
\* neither bytes nor an enabled controller.
ThresholdInv ==
    /\ enabled => thres = RxThres
    /\ Len(fifo) > 0 => thres = RxThres

\* TypeOK and NoUnderflow need each other: the loop stays in its range
\* because the FIFO holds what it is about to read.  The tick's FIQ is taken
\* while the handler is not running.
IInv ==
    /\ TypeOK
    /\ NoUnderflow
    /\ ThresholdInv
    /\ tick => isr = Idle

\* Below 256 the arithmetic of a byte wraps at RX_BUFF_SIZE and nowhere else.
LEMMA SuccessorWraps ==
    ASSUME NEW n \in 0..RxBuffSize - 1
    PROVE  /\ Successor(n) = IF n + 1 = RxBuffSize THEN 0 ELSE n + 1
           /\ Successor(n) \in 0..RxBuffSize - 1
  <1>1. (n + 1) % 256 = n + 1
    BY SizeAssumption
  <1> QED BY <1>1, SizeAssumption DEF Successor

\* Every step keeps the handler inside its loop and the FIFO ahead of it.
LEMMA StepKeepsIInv == IInv /\ [Next]_vars => IInv'
  <1> SUFFICES ASSUME IInv, [Next]_vars PROVE IInv'
    OBVIOUS
  <1> USE SizeAssumption DEF IInv, TypeOK, NoUnderflow, ThresholdInv,
          ThresDefault, Idle, Sources, ring, hw, fiq
  <1>1. CASE Reset
    <2>1. Len(fifo') = 0 /\ fifo' \in Seq(Byte)
      BY <1>1 DEF Reset, ControllerReset
    <2>2. TypeOK'
      <3>1. /\ enabled' = FALSE /\ cs' = 0 /\ ien' = {} /\ latched' = {}
            /\ thres' = ThresDefault /\ txFifo' = 0
            /\ UNCHANGED <<wire, buf, head, tail, world, isr, tick, swallowed, got>>
        BY <1>1 DEF Reset, ControllerReset
      <3>2. Len(fifo') <= FifoDepth /\ txFifo' \in 0..FifoDepth
        BY <2>1, <3>1
      <3> QED BY <2>1, <3>1, <3>2
    <2>3. isr' = Idle'
      BY <1>1 DEF Reset
    <2> QED BY <1>1, <2>1, <2>2, <2>3 DEF Reset, ControllerReset
  <1>2. CASE Config
    BY <1>2 DEF Config, CsNone
  <1>3. CASE Configured /\ Enable
    BY <1>3 DEF Enable, Configured
  <1>4. CASE Disable
    BY <1>4 DEF Disable, SetBits, CsNone
  <1>5. CASE SendData
    BY <1>5 DEF SendData, CsSlave0
  <1>6. CASE ReadData
    <2>1. tail' \in 0..RxBuffSize - 1
      BY <1>6, SuccessorWraps DEF ReadData
    <2>2. got' \in Byte
      BY <1>6 DEF ReadData
    <2> QED BY <1>6, <2>1, <2>2 DEF ReadData, SetBits, CsNone
  <1>7. ASSUME NEW n \in {0, 1}, AssertSlave(n) PROVE IInv'
    BY <1>7 DEF AssertSlave, CsSlave0
  <1>8. CASE DeassertSlave
    BY <1>8 DEF DeassertSlave, SetBits, CsNone
  <1>9. CASE Yield
    BY <1>9 DEF Yield
  <1>10. CASE Tick
    <2>1. CASE TickFiq
      BY <2>1 DEF TickFiq
    <2>2. CASE TickAckAgain
      <3>1. swallowed' \in BOOLEAN
        BY <2>2 DEF TickAckAgain, Line
      <3> QED BY <2>2, <3>1 DEF TickAckAgain
    <2> QED BY <1>10, <2>1, <2>2 DEF Tick
  <1>11. CASE Exchange
    <2>1. wire' \in Byte
      BY <1>11 DEF Exchange, Byte
    <2>2. CASE Len(fifo) < FifoDepth
      <3>1. /\ fifo' \in Seq(Byte)
            /\ Len(fifo') = Len(fifo) + 1
        BY <1>11, <2>1, <2>2 DEF Exchange
      <3>2. Len(fifo') <= FifoDepth
        BY <2>2, <3>1
      <3>3. /\ txFifo' \in 0..FifoDepth
            /\ UNCHANGED <<enabled, cs, ien, latched, thres, buf, head, tail,
                           world, isr, tick, swallowed, got>>
        BY <1>11, <2>2 DEF Exchange
      <3>4. TypeOK'
        BY <2>1, <3>1, <3>2, <3>3
      <3>5. NoUnderflow'
        BY <3>1, <3>3
      <3>6. ThresholdInv' /\ (tick => isr = Idle)'
        BY <1>11, <3>3 DEF Exchange
      <3> QED BY <3>4, <3>5, <3>6
    <2>3. CASE ~(Len(fifo) < FifoDepth)
      BY <1>11, <2>1, <2>3 DEF Exchange
    <2> QED BY <2>2, <2>3
  <1>12. CASE ModeFail
    BY <1>12 DEF ModeFail
  <1>13. CASE IsrEnter
    <2>1. "RXNEMPTY" \in Status => Len(fifo) >= thres
      BY DEF Status
    <2>2. "RXNEMPTY" \in Status => Len(fifo) >= RxThres
      BY <2>1
    <2> QED BY <1>13, <2>2 DEF IsrEnter
  <1>14. CASE IsrRead
    <2>1. /\ fifo' \in Seq(Byte)
          /\ Len(fifo') = Len(fifo) - 1
          /\ Head(fifo) \in Byte
          /\ RxData = {Head(fifo)}
      <3>1. Len(fifo) > 0
        BY <1>14 DEF IsrRead
      <3>2. fifo # <<>>
        BY <3>1
      <3> QED BY <1>14, <3>1, <3>2 DEF IsrRead, RxData
    <2>2. /\ head' \in 0..RxBuffSize - 1
          /\ buf' \in [0..RxBuffSize - 1 -> Byte]
      <3>1. Successor(head) \in 0..RxBuffSize - 1
        BY SuccessorWraps
      <3>2. [buf EXCEPT ![head] = Head(fifo)] \in [0..RxBuffSize - 1 -> Byte]
        BY <2>1
      <3> QED BY <1>14, <2>1, <3>1, <3>2 DEF IsrRead
    <2> QED BY <1>14, <2>1, <2>2 DEF IsrRead
  <1>15. CASE IsrExit
    BY <1>15 DEF IsrExit
  <1>16. CASE UNCHANGED vars
    BY <1>16 DEF vars
  <1> QED
    BY <1>1, <1>2, <1>3, <1>4, <1>5, <1>6, <1>7, <1>8, <1>9, <1>10, <1>11,
       <1>12, <1>13, <1>14, <1>15, <1>16 DEF Next, Driver, Isr

\* The inductive invariant holds initially.
LEMMA InitEstablishesIInv == Init => IInv
  BY SizeAssumption
  DEF Init, IInv, TypeOK, NoUnderflow, ThresholdInv, ThresDefault, Idle, Sources,
      Byte

\* Types, for every size: the indices stay inside RX_BUFFER and the FIFOs
\* inside their depth.
THEOREM SpiTypeCorrect == Spec => []TypeOK
  <1>1. IInv => TypeOK
    BY DEF IInv
  <1> QED BY InitEstablishesIInv, StepKeepsIInv, <1>1, PTL DEF Spec

\* SPI_1_irq_handler never reads rxd_register while the FIFO is empty,
\* although it checks the status once for RX_THRES_VAL reads and a reset puts
\* the threshold back to 1: for a guest that, like main, configures the
\* controller between a reset and the next SPI_1_Enable.
THEOREM HandlerNeverUnderflows == Spec => []NoUnderflow
  <1>1. IInv => NoUnderflow
    BY DEF IInv
  <1> QED BY InitEstablishesIInv, StepKeepsIInv, <1>1, PTL DEF Spec

-----------------------------------------------------------------------------
\* The contents of the ring are a sequence of bytes, at most RX_BUFF_SIZE - 1.
LEMMA ContentsType ==
    ASSUME TypeOK
    PROVE  /\ Count \in 0..RxBuffSize - 1
           /\ Contents \in Seq(Byte)
           /\ Len(Contents) = Count
           /\ \A i \in 1..Count : Slot(i) \in 0..RxBuffSize - 1
  <1>1. Count \in 0..RxBuffSize - 1
    BY SizeAssumption DEF TypeOK, Count
  <1>2. \A i \in 1..Count : Slot(i) \in 0..RxBuffSize - 1
    BY <1>1, SizeAssumption DEF TypeOK, Slot
  <1>3. Contents \in [1..Count -> Byte]
    BY <1>2 DEF TypeOK, Contents
  <1> QED BY <1>1, <1>2, <1>3

\* The ring is empty exactly when its ends meet.
LEMMA EmptyRing ==
    ASSUME TypeOK
    PROVE  (head = tail) <=> (Count = 0)
  BY SizeAssumption DEF TypeOK, Count

\* The ring is full exactly when the handler's test finds the next slot
\* taken.
LEMMA FullRing ==
    ASSUME TypeOK
    PROVE  (Successor(head) = tail) <=> (Count = RxBuffSize - 1)
  <1>1. head \in 0..RxBuffSize - 1 /\ tail \in 0..RxBuffSize - 1
    BY DEF TypeOK
  <1>2. Successor(head) = IF head + 1 = RxBuffSize THEN 0 ELSE head + 1
    BY <1>1, SuccessorWraps
  <1> QED BY <1>1, <1>2, SizeAssumption DEF Count

\* What a round of the handler reads is the first byte of the FIFO.
LEMMA ReadsFirst ==
    ASSUME IInv, isr \in 0..RxThres - 1
    PROVE  fifo # <<>> /\ RxData = {Head(fifo)}
  <1>1. Len(fifo) > 0
    BY SizeAssumption DEF IInv, TypeOK, NoUnderflow
  <1>2. fifo # <<>>
    BY <1>1
  <1> QED BY <1>2 DEF RxData

\* A byte the handler stores is appended to the contents; one that finds the
\* ring full leaves them alone.
LEMMA ReadPuts ==
    ASSUME IInv, IInv', IsrRead
    PROVE  Contents' = IF Len(Contents) < RxBuffSize - 1
                       THEN Append(Contents, Head(fifo)) ELSE Contents
  <1> USE SizeAssumption
  <1>1. TypeOK /\ TypeOK'
    BY DEF IInv
  <1>2. tail' = tail /\ head \in 0..RxBuffSize - 1 /\ tail \in 0..RxBuffSize - 1
    BY <1>1 DEF TypeOK, IsrRead
  <1>3. Count \in 0..RxBuffSize - 1 /\ Len(Contents) = Count
    BY <1>1, ContentsType
  <1>4. CASE Successor(head) = tail
    <2>1. head' = head /\ buf' = buf
      BY <1>4, ReadsFirst DEF IsrRead
    <2>2. Contents' = Contents
      BY <1>2, <2>1 DEF Contents, Count, Slot
    <2> QED BY <1>1, <1>3, <1>4, <2>2, FullRing
  <1>5. CASE Successor(head) # tail
    <2>1. /\ buf' = [buf EXCEPT ![head] = Head(fifo)]
          /\ head' = Successor(head)
      BY <1>5, ReadsFirst DEF IsrRead
    <2>2. Count < RxBuffSize - 1
      BY <1>1, <1>3, <1>5, FullRing
    <2>3. Count' = Count + 1
      BY <1>2, <1>5, <2>1, SuccessorWraps DEF Count
    <2>4. \A i \in 1..Count + 1 : Slot(i)' = Slot(i)
      BY <1>2 DEF Slot
    <2>5. Slot(Count + 1) = head
      BY <1>2, <1>3, <2>2 DEF Slot, Count
    <2>6. \A i \in 1..Count : Slot(i) # head /\ Slot(i) \in 0..RxBuffSize - 1
      BY <1>2, <1>3, <2>2 DEF Slot, Count
    <2>7. buf \in [0..RxBuffSize - 1 -> Byte]
      BY <1>1 DEF TypeOK
    <2>8. Contents' = [i \in 1..Count + 1 |-> buf'[Slot(i)]]
      BY <2>3, <2>4, <1>3 DEF Contents
    <2>9. Contents' = [i \in 1..Count + 1 |->
                         IF i = Count + 1 THEN Head(fifo) ELSE buf[Slot(i)]]
      <3>1. \A i \in 1..Count + 1 :
              buf'[Slot(i)] = IF i = Count + 1 THEN Head(fifo) ELSE buf[Slot(i)]
        BY <1>2, <1>3, <2>1, <2>5, <2>6, <2>7
      <3> QED BY <2>8, <3>1
    <2>10. Append(Contents, Head(fifo)) =
             [i \in 1..Count + 1 |->
                IF i = Count + 1 THEN Head(fifo) ELSE buf[Slot(i)]]
      BY <1>1, <1>3, ContentsType DEF Contents
    <2> QED BY <1>3, <2>2, <2>9, <2>10
  <1> QED BY <1>4, <1>5

\* What SPI1_ReadData delivers is the oldest byte, and the rest remains.
LEMMA ReadDataGets ==
    ASSUME IInv, IInv', ReadData, head # tail
    PROVE  /\ Contents # <<>>
           /\ got' = Head(Contents)
           /\ Contents' = Tail(Contents)
  <1> USE SizeAssumption
  <1>1. TypeOK /\ TypeOK'
    BY DEF IInv
  <1>2. /\ head' = head /\ buf' = buf
        /\ tail' = Successor(tail) /\ got' = buf[tail]
        /\ head \in 0..RxBuffSize - 1 /\ tail \in 0..RxBuffSize - 1
    BY <1>1 DEF TypeOK, ReadData
  <1>3. Count \in 1..RxBuffSize - 1 /\ Len(Contents) = Count
    BY <1>1, ContentsType, EmptyRing
  <1>4. Count' = Count - 1
    BY <1>2, SuccessorWraps DEF Count
  <1>5. \A i \in 1..Count - 1 : Slot(i)' = Slot(i + 1)
    <2>1. tail' = IF tail + 1 = RxBuffSize THEN 0 ELSE tail + 1
      BY <1>2, SuccessorWraps
    <2> QED BY <1>2, <1>3, <2>1 DEF Slot
  <1>6. Slot(1) = tail
    BY <1>2 DEF Slot
  <1>7. Contents # <<>> /\ Head(Contents) = buf[tail]
    BY <1>1, <1>3, <1>6, ContentsType DEF Contents
  <1>8. Contents' = [i \in 1..Count - 1 |-> buf[Slot(i + 1)]]
    BY <1>2, <1>3, <1>4, <1>5 DEF Contents
  <1>9. Tail(Contents) = [i \in 1..Count - 1 |-> buf[Slot(i + 1)]]
    BY <1>1, <1>3, ContentsType DEF Contents
  <1> QED BY <1>2, <1>7, <1>8, <1>9

\* Every step of the driver, the controller and the handler is a step of the
\* queue or leaves it alone.
LEMMA StepRefines ==
    ASSUME IInv, IInv', [Next]_vars
    PROVE  [Q!Next]_(Q!vars)
  <1> USE DEF Q!vars, ring, hw, fiq
  <1>1. CASE UNCHANGED <<buf, head, tail, world, got>>
    BY <1>1 DEF Contents, Count, Slot
  <1>2. CASE Config
    <2>1. Contents' = <<>>
      BY <1>2, SizeAssumption DEF Config, Contents, Count
    <2> QED BY <1>2, <2>1 DEF Config, Q!Next, Q!Clear
  <1>3. CASE ReadData /\ head # tail
    BY <1>3, ReadDataGets DEF ReadData, Q!Next, Q!Get
  <1>4. CASE Yield \/ TickAckAgain \/ IsrExit
    <2>1. Contents' = Contents /\ UNCHANGED got
      BY <1>4 DEF Yield, TickAckAgain, IsrExit, Contents, Count, Slot
    <2> QED BY <1>4, <2>1 DEF Q!Next, Q!Pass
  <1>5. CASE IsrRead
    <2>1. Head(fifo) \in Byte
      BY <1>5, ReadsFirst DEF IsrRead, IInv, TypeOK
    <2>2. world = "NS" /\ world' = "NS" /\ got' = got
      BY <1>5, SizeAssumption DEF IsrRead, IInv, TypeOK, NoUnderflow, Idle
    <2>3. Q!Put(Head(fifo))
      BY <1>5, <2>2, ReadPuts DEF Q!Put
    <2> QED BY <2>1, <2>3 DEF Q!Next
  <1> QED
    BY <1>1, <1>2, <1>3, <1>4, <1>5
    DEF Next, Driver, Isr, Tick, TickFiq, Reset, ControllerReset, Enable, Disable, SendData,
        ReadData, AssertSlave, DeassertSlave, Exchange, ModeFail, IsrEnter, vars

\* The receive ring is a bounded queue that drops the newest byte when full,
\* for every ring size up to 255.
THEOREM RingImplementsQueue == Spec => RingIsQueue
  <1>1. Init => Q!Init
    <2> SUFFICES ASSUME Init PROVE Q!Init
      OBVIOUS
    <2>1. Contents = <<>>
      BY SizeAssumption DEF Init, Contents, Count
    <2> QED BY <2>1, SizeAssumption DEF Init, Q!Init, Byte
  <1>2. IInv /\ IInv' /\ [Next]_vars => [Q!Next]_(Q!vars)
    BY StepRefines
  <1> QED
    BY <1>1, <1>2, InitEstablishesIInv, StepKeepsIInv, PTL
    DEF Spec, RingIsQueue, Q!Spec

-----------------------------------------------------------------------------
(* The order of the bytes *)

Increasing(s) == \A i, j \in 1..Len(s) : i < j => s[i] < s[j]
Over(a, s) == \A i \in 1..Len(s) : a < s[i]
UpTo(s, b) == \A i \in 1..Len(s) : s[i] <= b

\* Where each byte is between the wire and the reader, and that what is nearer
\* to the reader came earlier.
OrderInv ==
    /\ Increasing(Contents) /\ Increasing(fifo)
    /\ got <= wire /\ UpTo(Contents, wire) /\ UpTo(fifo, wire)
    /\ Over(got, Contents) /\ Over(got, fifo)
    /\ \A i \in 1..Len(Contents) : Over(Contents[i], fifo)

\* What the ends of a sequence of numbers have to do with its order.
LEMMA TailInOrder ==
    ASSUME NEW s \in Seq(Nat), s # <<>>, Increasing(s)
    PROVE  /\ Tail(s) \in Seq(Nat) /\ Head(s) \in Nat
           /\ Increasing(Tail(s)) /\ Over(Head(s), Tail(s))
           /\ \A a \in Nat : Over(a, s) => a < Head(s) /\ Over(a, Tail(s))
           /\ \A b \in Nat : UpTo(s, b) => Head(s) <= b /\ UpTo(Tail(s), b)
  <1>1. /\ Tail(s) \in Seq(Nat) /\ Len(Tail(s)) = Len(s) - 1
        /\ \A i \in 1..Len(Tail(s)) : Tail(s)[i] = s[i + 1]
        /\ Head(s) = s[1] /\ Head(s) \in Nat
    BY HeadTailProperties
  <1>2. Len(s) \in Nat \ {0}
    BY SMT
  <1>3. \A i \in 1..Len(Tail(s)) : i + 1 \in 1..Len(s) /\ 1 < i + 1
    BY <1>1, <1>2, SMT
  <1>4. \A i, j \in 1..Len(Tail(s)) : i < j => i + 1 < j + 1
    BY <1>1, <1>2, SMT
  <1>5. 1 \in 1..Len(s)
    BY <1>2, SMT
  <1>6. Increasing(Tail(s))
    BY <1>1, <1>3, <1>4 DEF Increasing
  <1>7. Over(Head(s), Tail(s))
    BY <1>1, <1>3, <1>5 DEF Increasing, Over
  <1>8. \A a \in Nat : Over(a, s) => a < Head(s) /\ Over(a, Tail(s))
    BY <1>1, <1>3, <1>5 DEF Over
  <1>9. \A b \in Nat : UpTo(s, b) => Head(s) <= b /\ UpTo(Tail(s), b)
    BY <1>1, <1>3, <1>5 DEF UpTo
  <1> QED BY <1>1, <1>6, <1>7, <1>8, <1>9

\* A byte later than all others goes to the end.
LEMMA AppendInOrder ==
    ASSUME NEW s \in Seq(Nat), NEW x \in Nat, Increasing(s),
           \A i \in 1..Len(s) : s[i] < x
    PROVE  /\ Append(s, x) \in Seq(Nat) /\ Len(Append(s, x)) = Len(s) + 1
           /\ \A i \in 1..Len(s) + 1 :
                Append(s, x)[i] = IF i = Len(s) + 1 THEN x ELSE s[i]
           /\ Increasing(Append(s, x))
           /\ \A a \in Nat : Over(a, s) /\ a < x => Over(a, Append(s, x))
           /\ \A b \in Nat : UpTo(s, b) /\ x <= b => UpTo(Append(s, x), b)
  <1>1. /\ Append(s, x) \in Seq(Nat) /\ Len(Append(s, x)) = Len(s) + 1
        /\ \A i \in 1..Len(s) : Append(s, x)[i] = s[i]
        /\ Append(s, x)[Len(s) + 1] = x
    BY AppendProperties
  <1>2. Len(s) \in Nat
    BY SMT
  <1>3. \A i \in 1..Len(s) + 1 : i = Len(s) + 1 \/ i \in 1..Len(s)
    BY <1>2, SMT
  <1>4. \A i \in 1..Len(s) + 1 :
          Append(s, x)[i] = IF i = Len(s) + 1 THEN x ELSE s[i]
    BY <1>1, <1>3
  <1>5. Increasing(Append(s, x))
    <2>1. \A i, j \in 1..Len(s) + 1 : i < j => i \in 1..Len(s)
      BY <1>2, SMT
    <2> QED BY <1>1, <1>3, <2>1 DEF Increasing
  <1>6. \A a \in Nat : Over(a, s) /\ a < x => Over(a, Append(s, x))
    BY <1>1, <1>3 DEF Over
  <1>7. \A b \in Nat : UpTo(s, b) /\ x <= b => UpTo(Append(s, x), b)
    BY <1>1, <1>3 DEF UpTo
  <1> QED BY <1>1, <1>4, <1>5, <1>6, <1>7

LEMMA EmptyInOrder ==
    /\ Increasing(<<>>)
    /\ \A a : Over(a, <<>>)
    /\ \A b : UpTo(<<>>, b)
  <1>1. 1..Len(<<>>) = {}
    BY SMT
  <1> QED BY <1>1 DEF Increasing, Over, UpTo

\* The sequences of a state are sequences of numbers.
LEMMA PathTypes ==
    ASSUME TypeOK
    PROVE  /\ Contents \in Seq(Nat) /\ fifo \in Seq(Nat)
           /\ got \in Nat /\ wire \in Nat
           /\ Len(Contents) \in Nat /\ Len(fifo) \in Nat
  <1>1. Byte \subseteq Nat
    BY SizeAssumption, SMT DEF Byte
  <1>2. Contents \in Seq(Byte) /\ fifo \in Seq(Byte) /\ got \in Byte /\ wire \in Byte
    BY ContentsType DEF TypeOK
  <1>3. \A s \in Seq(Byte) : s \in Seq(Nat)
    BY <1>1, SeqMonotonic
  <1>4. \A s \in Seq(Nat) : Len(s) \in Nat
    BY SMT
  <1> QED BY <1>1, <1>2, <1>3, <1>4

-----------------------------------------------------------------------------
\* Steps that leave the ring to the reader as it is.
LEMMA RingUnchanged ==
    ASSUME UNCHANGED <<buf, head, tail>>
    PROVE  Contents' = Contents
  BY DEF Contents, Count, Slot

LEMMA QuietStepKeepsOrder ==
    ASSUME OrderInv, UNCHANGED <<buf, head, tail, fifo, wire, got>>
    PROVE  OrderInv'
  BY RingUnchanged DEF OrderInv, Increasing, Over, UpTo

\* A reset or a configuration drops bytes.
LEMMA DropKeepsOrder ==
    ASSUME OrderInv, wire' = wire, got' = got,
           \/ Contents' = <<>> /\ fifo' = fifo
           \/ Contents' = Contents /\ fifo' = <<>>
    PROVE  OrderInv'
  <1>1. 1..Len(<<>>) = {}
    BY SMT
  <1>2. CASE Contents' = <<>> /\ fifo' = fifo
    BY <1>1, <1>2, EmptyInOrder DEF OrderInv, Increasing, Over, UpTo
  <1>3. CASE Contents' = Contents /\ fifo' = <<>>
    BY <1>1, <1>3, EmptyInOrder DEF OrderInv, Increasing, Over, UpTo
  <1> QED BY <1>2, <1>3

\* SPI1_ReadData takes the byte that came first.
LEMMA GetKeepsOrder ==
    ASSUME TypeOK, OrderInv, Contents # <<>>, got' = Head(Contents),
           Contents' = Tail(Contents), UNCHANGED <<fifo, wire>>
    PROVE  OrderInv'
  <1>1. /\ Contents \in Seq(Nat) /\ got \in Nat /\ wire \in Nat
        /\ Increasing(Contents) /\ UpTo(Contents, wire)
    BY PathTypes DEF OrderInv
  <1>2. /\ Increasing(Tail(Contents)) /\ Over(Head(Contents), Tail(Contents))
        /\ Head(Contents) <= wire /\ UpTo(Tail(Contents), wire)
    BY <1>1, TailInOrder
  <1>3. /\ Len(Tail(Contents)) = Len(Contents) - 1
        /\ \A i \in 1..Len(Tail(Contents)) : Tail(Contents)[i] = Contents[i + 1]
        /\ Head(Contents) = Contents[1] /\ Len(Contents) \in Nat \ {0}
    BY <1>1, HeadTailProperties, SMT
  <1>4. /\ 1 \in 1..Len(Contents)
        /\ \A i \in 1..Len(Tail(Contents)) : i + 1 \in 1..Len(Contents)
    BY <1>3, SMT
  <1>5. Over(Head(Contents), fifo)
    BY <1>3, <1>4 DEF OrderInv
  <1>6. \A i \in 1..Len(Tail(Contents)) : Over(Tail(Contents)[i], fifo)
    BY <1>3, <1>4 DEF OrderInv
  <1> QED BY <1>2, <1>5, <1>6 DEF OrderInv, Increasing, Over, UpTo

\* The controller appends the byte with the next number.
LEMMA ExchangeKeepsOrder ==
    ASSUME TypeOK, OrderInv, Exchange
    PROVE  OrderInv'
  <1>1. /\ wire' = wire + 1 /\ got' = got /\ Contents' = Contents
        /\ fifo' = Append(fifo, wire + 1) \/ fifo' = fifo
    BY RingUnchanged DEF Exchange, ring
  <1>2. /\ Contents \in Seq(Nat) /\ fifo \in Seq(Nat) /\ got \in Nat /\ wire \in Nat
    BY PathTypes
  <1>3. wire + 1 \in Nat /\ wire < wire + 1 /\ wire + 1 <= wire + 1
    BY <1>2, SMT
  <1>4. \A x \in Nat : x <= wire => x < wire + 1 /\ x <= wire + 1
    BY <1>2, SMT
  <1>5. /\ \A i \in 1..Len(fifo) : fifo[i] \in Nat
        /\ \A i \in 1..Len(Contents) : Contents[i] \in Nat
    BY <1>2, ElementOfSeq
  <1>6. /\ \A i \in 1..Len(fifo) : fifo[i] < wire + 1
        /\ \A i \in 1..Len(Contents) : Contents[i] < wire + 1
        /\ got < wire + 1 /\ got <= wire + 1
        /\ UpTo(fifo, wire + 1) /\ UpTo(Contents, wire + 1)
    BY <1>2, <1>4, <1>5 DEF OrderInv, UpTo
  <1>7. /\ Increasing(Append(fifo, wire + 1))
        /\ UpTo(Append(fifo, wire + 1), wire + 1)
        /\ \A a \in Nat : Over(a, fifo) /\ a < wire + 1 => Over(a, Append(fifo, wire + 1))
    BY <1>2, <1>3, <1>6, AppendInOrder DEF OrderInv
  <1>8. /\ Over(got, Append(fifo, wire + 1))
        /\ \A i \in 1..Len(Contents) : Over(Contents[i], Append(fifo, wire + 1))
    BY <1>2, <1>5, <1>6, <1>7 DEF OrderInv
  <1>9. CASE fifo' = fifo
    BY <1>1, <1>6, <1>9 DEF OrderInv, Increasing, Over, UpTo
  <1>10. CASE fifo' = Append(fifo, wire + 1)
    <2>1. /\ Increasing(fifo)' /\ UpTo(fifo, wire)' /\ Over(got, fifo)'
          /\ (\A i \in 1..Len(Contents) : Over(Contents[i], fifo))'
      BY <1>1, <1>7, <1>8, <1>10 DEF Increasing, UpTo, Over
    <2>2. /\ Increasing(Contents)' /\ (got <= wire)' /\ UpTo(Contents, wire)'
          /\ Over(got, Contents)'
      BY <1>1, <1>6 DEF OrderInv, Increasing, UpTo, Over
    <2> QED BY <2>1, <2>2 DEF OrderInv
  <1> QED BY <1>1, <1>9, <1>10

\* A round of the handler moves the first byte of the FIFO to the end of the
\* ring, or drops it.
LEMMA IsrReadKeepsOrder ==
    ASSUME IInv, IInv', OrderInv, IsrRead
    PROVE  OrderInv'
  <1> DEFINE x == Head(fifo)
  <1>1. /\ fifo # <<>> /\ fifo' = Tail(fifo) /\ wire' = wire /\ got' = got
        /\ Contents' = Contents \/ Contents' = Append(Contents, x)
    BY ReadPuts, ReadsFirst DEF IsrRead
  <1>2. /\ Contents \in Seq(Nat) /\ fifo \in Seq(Nat) /\ got \in Nat /\ wire \in Nat
    BY PathTypes DEF IInv
  <1>3. /\ x \in Nat /\ Increasing(Tail(fifo)) /\ Over(x, Tail(fifo))
        /\ \A a \in Nat : Over(a, fifo) => a < x /\ Over(a, Tail(fifo))
        /\ x <= wire /\ UpTo(Tail(fifo), wire)
    BY <1>1, <1>2, TailInOrder DEF OrderInv
  <1>4. \A i \in 1..Len(Contents) : Contents[i] \in Nat
    BY <1>2, ElementOfSeq
  <1>5. /\ \A i \in 1..Len(Contents) : Contents[i] < x /\ Over(Contents[i], Tail(fifo))
        /\ got < x /\ Over(got, Tail(fifo))
    BY <1>2, <1>3, <1>4 DEF OrderInv
  <1> HIDE DEF x
  <1>6. CASE Contents' = Contents
    BY <1>1, <1>3, <1>5, <1>6 DEF OrderInv, Increasing, Over, UpTo
  <1>7. CASE Contents' = Append(Contents, x)
    <2>1. /\ Increasing(Append(Contents, x)) /\ Len(Append(Contents, x)) = Len(Contents) + 1
          /\ \A i \in 1..Len(Contents) + 1 :
                Append(Contents, x)[i] = IF i = Len(Contents) + 1 THEN x ELSE Contents[i]
          /\ Over(got, Append(Contents, x)) /\ UpTo(Append(Contents, x), wire)
      BY <1>2, <1>3, <1>5, AppendInOrder DEF OrderInv
    <2>2. \A i \in 1..Len(Contents) + 1 : i = Len(Contents) + 1 \/ i \in 1..Len(Contents)
      BY <1>2, PathTypes, SMT DEF IInv
    <2>3. \A i \in 1..Len(Append(Contents, x)) : Over(Append(Contents, x)[i], Tail(fifo))
      BY <1>3, <1>5, <2>1, <2>2
    <2>4. /\ Increasing(Contents)' /\ Over(got, Contents)' /\ UpTo(Contents, wire)'
          /\ (\A i \in 1..Len(Contents) : Over(Contents[i], fifo))'
      BY <1>1, <1>7, <2>1, <2>3 DEF Increasing, Over, UpTo
    <2>5. /\ Increasing(fifo)' /\ Over(got, fifo)' /\ UpTo(fifo, wire)' /\ (got <= wire)'
      BY <1>1, <1>3, <1>5 DEF OrderInv, Increasing, Over, UpTo
    <2> QED BY <2>4, <2>5 DEF OrderInv
  <1> QED BY <1>1, <1>6, <1>7

LEMMA StepKeepsOrder ==
    ASSUME IInv, IInv', OrderInv, [Next]_vars
    PROVE  OrderInv'
  <1>1. CASE UNCHANGED <<buf, head, tail, fifo, wire, got>>
    BY <1>1, QuietStepKeepsOrder
  <1>2. CASE Reset
    <2>1. fifo' = <<>> /\ UNCHANGED <<buf, head, tail, wire, got>>
      BY <1>2 DEF Reset, ControllerReset, ring
    <2>2. Contents' = Contents
      BY <2>1, RingUnchanged
    <2> QED BY <2>1, <2>2, DropKeepsOrder
  <1>3. CASE Config
    <2>1. fifo' = fifo /\ UNCHANGED <<wire, got>>
      BY <1>3 DEF Config, hw
    <2>2. Contents' = <<>>
      BY <1>3, SizeAssumption DEF Config, Contents, Count
    <2> QED BY <2>1, <2>2, DropKeepsOrder
  <1>4. CASE ReadData /\ head # tail
    <2>1. fifo' = fifo /\ wire' = wire
      BY <1>4 DEF ReadData, hw
    <2> QED BY <1>4, <2>1, ReadDataGets, GetKeepsOrder DEF IInv
  <1>5. CASE Exchange
    BY <1>5, ExchangeKeepsOrder DEF IInv
  <1>6. CASE IsrRead
    BY <1>6, IsrReadKeepsOrder
  <1> QED
    BY <1>1, <1>2, <1>3, <1>4, <1>5, <1>6
    DEF Next, Driver, Isr, Tick, Enable, Disable, SendData, ReadData, AssertSlave,
        DeassertSlave, Yield, TickFiq, TickAckAgain, ModeFail, IsrEnter, IsrExit,
        vars, ring, hw

\* Three increasing parts, each later than the one before it, are an
\* increasing sequence.
LEMMA PartsInOrder ==
    ASSUME NEW a \in Nat, NEW s \in Seq(Nat), NEW t \in Seq(Nat),
           Increasing(s), Increasing(t), Over(a, s), Over(a, t),
           \A i \in 1..Len(s) : Over(s[i], t)
    PROVE  Increasing(<<a>> \o s \o t)
  <1> DEFINE u == <<a>> \o s
             m == Len(s)
             n == Len(t)
  <1>1. m \in Nat /\ n \in Nat /\ <<a>> \in Seq(Nat) /\ Len(<<a>>) = 1 /\ <<a>>[1] = a
    BY SMT
  <1>2. /\ u \in Seq(Nat) /\ Len(u) = 1 + m
        /\ \A i \in 1..(1 + m) : u[i] = IF i <= 1 THEN <<a>>[i] ELSE s[i - 1]
    BY <1>1, ConcatProperties
  <1>3. /\ Len(u \o t) = 1 + m + n
        /\ \A i \in 1..(1 + m + n) : (u \o t)[i] = IF i <= 1 + m THEN u[i] ELSE t[i - (1 + m)]
    BY <1>2, ConcatProperties
  <1>4. ASSUME NEW i \in 1..(1 + m + n)
        PROVE  \/ i = 1 /\ (u \o t)[i] = a
               \/ i > 1 /\ i <= 1 + m /\ i - 1 \in 1..m /\ (u \o t)[i] = s[i - 1]
               \/ i > 1 + m /\ i - (1 + m) \in 1..n /\ (u \o t)[i] = t[i - (1 + m)]
    <2>1. CASE i = 1
      <3>1. i \in 1..(1 + m) /\ i <= 1 /\ i <= 1 + m
        BY <1>1, <2>1, SMT
      <3> QED BY <1>1, <1>2, <1>3, <2>1, <3>1
    <2>2. CASE i > 1 /\ i <= 1 + m
      <3>1. i \in 1..(1 + m) /\ ~(i <= 1) /\ i - 1 \in 1..m
        BY <1>1, <2>2, SMT
      <3> QED BY <1>2, <1>3, <2>2, <3>1
    <2>3. CASE i > 1 + m
      <3>1. ~(i <= 1 + m) /\ i - (1 + m) \in 1..n
        BY <1>1, <2>3, SMT
      <3> QED BY <1>3, <2>3, <3>1
    <2> QED BY <1>1, <2>1, <2>2, <2>3, SMT
  <1> HIDE DEF u
  <1>5. ASSUME NEW i \in 1..(1 + m + n), NEW j \in 1..(1 + m + n), i < j
        PROVE  (u \o t)[i] < (u \o t)[j]
    <2>1. CASE i = 1 /\ j <= 1 + m
      <3>1. j > 1 /\ ~(j > 1 + m) /\ j # 1 /\ ~(i > 1) /\ ~(i > 1 + m)
        BY <1>1, <1>5, <2>1, SMT
      <3> QED BY <1>4, <2>1, <3>1 DEF Over
    <2>2. CASE i = 1 /\ j > 1 + m
      <3>1. j > 1 /\ ~(j <= 1 + m) /\ j # 1 /\ ~(i > 1) /\ ~(i > 1 + m)
        BY <1>1, <1>5, <2>2, SMT
      <3> QED BY <1>4, <2>2, <3>1 DEF Over
    <2>3. CASE i > 1 /\ j <= 1 + m
      <3>1. i # 1 /\ j # 1 /\ ~(i > 1 + m) /\ ~(j > 1 + m) /\ i - 1 < j - 1
        BY <1>1, <1>5, <2>3, SMT
      <3> QED BY <1>4, <2>3, <3>1 DEF Increasing
    <2>4. CASE i > 1 /\ i <= 1 + m /\ j > 1 + m
      <3>1. i # 1 /\ j # 1 /\ ~(i > 1 + m) /\ ~(j <= 1 + m)
        BY <1>1, <1>5, <2>4, SMT
      <3> QED BY <1>4, <2>4, <3>1 DEF Over
    <2>5. CASE i > 1 + m
      <3>1. i # 1 /\ j # 1 /\ ~(i <= 1 + m) /\ ~(j <= 1 + m) /\ i - (1 + m) < j - (1 + m)
        BY <1>1, <1>5, <2>5, SMT
      <3> QED BY <1>4, <3>1 DEF Increasing
    <2>6. \/ i = 1 /\ j <= 1 + m
          \/ i = 1 /\ j > 1 + m
          \/ i > 1 /\ j <= 1 + m
          \/ i > 1 /\ i <= 1 + m /\ j > 1 + m
          \/ i > 1 + m
      BY <1>1, SMT
    <2> QED BY <2>1, <2>2, <2>3, <2>4, <2>5, <2>6
  <1> QED BY <1>3, <1>5 DEF Increasing, u

\* Bytes reach the reader in the order of the wire, none twice, through the
\* FIFO, the handler's loop and the ring, however often the ring overflowed
\* and the driver was reset or configured anew in between.
THEOREM BytesStayInOrder == Spec => []BytesInOrder
  <1>1. Init => OrderInv
    <2> SUFFICES ASSUME Init PROVE OrderInv
      OBVIOUS
    <2>1. Contents = <<>>
      BY SizeAssumption DEF Init, Contents, Count
    <2>2. 1..Len(<<>>) = {} /\ 0 <= 0
      BY SMT
    <2> QED BY <2>1, <2>2, EmptyInOrder DEF Init, OrderInv
  <1>2. IInv /\ IInv' /\ OrderInv /\ [Next]_vars => OrderInv'
    BY StepKeepsOrder
  <1>3. IInv /\ OrderInv => BytesInOrder
    BY PathTypes, PartsInOrder DEF IInv, OrderInv, BytesInOrder, Increasing
  <1> QED
    BY <1>1, <1>2, <1>3, InitEstablishesIInv, StepKeepsIInv, PTL DEF Spec

-----------------------------------------------------------------------------
(***************************************************************************)
(* What FullFifoDrained needs of the states: each of the calls that change *)
(* the sources leaves the full FIFO among them, or the controller off.     *)
(***************************************************************************)
SourceInv == enabled /\ isr = Idle => "RXFULL" \in ien

LEMMA StepKeepsSource == IInv /\ SourceInv /\ [Next]_vars => SourceInv'
  <1> SUFFICES ASSUME IInv, SourceInv, [Next]_vars PROVE SourceInv'
    OBVIOUS
  <1> USE SizeAssumption DEF IInv, TypeOK, SourceInv, Idle
  <1>1. CASE Driver
    <2>1. CASE Reset
      BY <2>1 DEF Reset, ControllerReset
    <2>2. CASE Enable \/ Disable
      BY <2>2 DEF Enable, Disable
    <2>3. CASE ReadData
      BY <2>3 DEF ReadData, Sources
    <2>4. CASE Config \/ SendData \/ DeassertSlave \/ \E n \in {0, 1} : AssertSlave(n)
      BY <2>4 DEF Config, SendData, DeassertSlave, AssertSlave
    <2> QED BY <1>1, <2>1, <2>2, <2>3, <2>4 DEF Driver
  <1>2. CASE Yield \/ Tick \/ Exchange \/ ModeFail \/ UNCHANGED vars
    BY <1>2 DEF Yield, Tick, TickFiq, TickAckAgain, Exchange, ModeFail, vars
  <1>3. CASE IsrEnter \/ IsrRead
    <2>1. CASE IsrEnter
      BY <2>1 DEF IsrEnter
    <2>2. CASE IsrRead
      <3>1. isr \in 0..RxThres - 1 /\ isr' = isr + 1
        BY <2>2 DEF IsrRead
      <3>2. isr' # Idle'
        BY <3>1
      <3> QED BY <3>2
    <2> QED BY <1>3, <2>1, <2>2
  <1>4. CASE IsrExit
    BY <1>4 DEF IsrExit, Sources
  <1> QED BY <1>1, <1>2, <1>3, <1>4 DEF Next, Isr

\* While the controller is enabled, a full FIFO asserts the interrupt line or
\* the handler is at work already: no order of SPI_1_Enable, SPI1_ReadData,
\* SPI_1_Disable and the handler, which takes sources away at its entry and
\* gives them back at its end, leaves the FIFO full with nobody to know of it.
THEOREM FullFifoIsSignalled ==
    Spec => [](enabled /\ Len(fifo) = FifoDepth => Line \/ isr # Idle)
  <1>1. Init => SourceInv
    BY DEF Init, SourceInv
  <1>2. SourceInv => (enabled /\ Len(fifo) = FifoDepth => Line \/ isr # Idle)
    BY DEF SourceInv, Line, Status
  <1> QED
    BY <1>1, <1>2, StepKeepsSource, InitEstablishesIInv, StepKeepsIInv, PTL DEF Spec
=============================================================================
