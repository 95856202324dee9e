---------------------------- MODULE ConsoleProofs ----------------------------
(***************************************************************************)
(* Proofs about Console, for any FIFO, any number of threads and whatever  *)
(* is printed: a byte is lost only when its thread was overtaken between   *)
(* its poll and its write, vsprintk prints every number below 2^31 so that *)
(* it reads as this number, each line of S arrives whole, and S is never   *)
(* stuck in front of a FIFO that nobody empties.                           *)
(***************************************************************************)
EXTENDS Console, WellFoundedInduction, FiniteSetTheorems, TLAPS

(***************************************************************************)
(* Lost bytes.                                                             *)
(***************************************************************************)
\* What the bytes are does not matter here, only how many there are.
Bytes == \E B : fifo \in Seq(B)

\* A thread that has polled and was not overtaken still finds room.
RoomInv == \A t \in Threads : at[t] = "write" /\ t \notin overtaken => ~Full

IInv == Bytes /\ at \in [Threads -> {"poll", "write"}] /\ RoomInv

LEMMA DepthIsPositive == Depth \in Nat \ {0}
  BY ConsoleAssumption, Zenon DEF ConsoleAssumption

LEMMA AppendedBytes ==
  ASSUME Bytes, NEW e
  PROVE  \E B : Append(fifo, e) \in Seq(B)
<1>1. PICK B : fifo \in Seq(B)
  BY DEF Bytes
<1>2. fifo \in Seq(B \cup {e})
  BY <1>1
<1>3. Append(fifo, e) \in Seq(B \cup {e})
  BY <1>2
<1>. QED  BY <1>3

LEMMA WriteKeepsBytes ==
  ASSUME Bytes, NEW by, NEW c, Write(by, c)
  PROVE  Bytes'
<1>1. fifo' = fifo \/ fifo' = Append(fifo, [by |-> by, char |-> c])
  BY DEF Write
<1>2. CASE fifo' = fifo
  BY <1>2 DEF Bytes
<1>3. CASE fifo' = Append(fifo, [by |-> by, char |-> c])
  <2>. DEFINE e == [by |-> by, char |-> c]
  <2>1. \E B : Append(fifo, e) \in Seq(B)
    BY AppendedBytes
  <2>. QED  BY <1>3, <2>1 DEF Bytes
<1>. QED  BY <1>1, <1>2, <1>3

\* After a write everybody else who had polled has been overtaken.
LEMMA WriteOvertakes ==
  ASSUME NEW by, NEW c, Write(by, c), NEW t \in Threads, at[t] = "write", t # by
  PROVE  t \in overtaken'
  BY DEF Write

LEMMA InitRoom == Init => IInv
<1>. SUFFICES ASSUME Init PROVE IInv
  OBVIOUS
<1>1. at = [t \in Threads |-> "poll"]
  BY DEF Init
<1>2. at \in [Threads -> {"poll", "write"}] /\ \A t \in Threads : at[t] # "write"
  BY <1>1
<1>. DEFINE e == [by |-> "boot", char |-> Text]
<1>3. <<>> \in Seq({e}) /\ <<e>> \in Seq({e})
  OBVIOUS
<1>4. fifo \in Seq({e})
  BY <1>3 DEF Init
<1>. QED  BY <1>2, <1>4 DEF IInv, Bytes, RoomInv

\* The transmitter makes room.
LEMMA TransmitKeeps == ASSUME IInv, Transmit PROVE IInv'
<1>1. fifo # <<>> /\ fifo' = Tail(fifo) /\ at' = at /\ overtaken' = overtaken
  BY DEF Transmit
<1>2. PICK B : fifo \in Seq(B)
  BY DEF IInv, Bytes
<1>3. Tail(fifo) \in Seq(B) /\ Len(Tail(fifo)) = Len(fifo) - 1
  BY <1>1, <1>2
<1>4. Len(fifo) \in Nat /\ Depth \in Nat
  <2>1. Len(fifo) \in Nat
    BY <1>2
  <2>. QED  BY <2>1, DepthIsPositive
<1>5. ~Full => ~Full'
  <2>1. \A a \in Nat, d \in Nat : ~(a >= d) => ~(a - 1 >= d)
    BY SMT
  <2>. QED  BY <1>1, <1>3, <1>4, <2>1 DEF Full
<1>6. Bytes'
  BY <1>1, <1>3 DEF Bytes
<1>. QED  BY <1>1, <1>5, <1>6 DEF IInv, RoomInv

LEMMA InitialisedKeeps == ASSUME IInv, uart_init PROVE IInv'
<1>1. fifo' = <<>> /\ at' = at
  BY DEF uart_init
<1>2. ~Full'
  <2>1. ~(0 >= Depth)
    BY DepthIsPositive, SMT
  <2>. QED  BY <1>1, <2>1 DEF Full
<1>3. Bytes'
  <2>1. <<>> \in Seq({})
    OBVIOUS
  <2>. QED  BY <1>1, <2>1 DEF Bytes
<1>. QED  BY <1>1, <1>2, <1>3 DEF IInv, RoomInv

LEMMA PutcKeeps == ASSUME IInv, uart_putc PROVE IInv'
<1>1. Write("S", Head(line)) /\ at' = at /\ "S" \notin Threads
  BY ConsoleAssumption DEF uart_putc
<1>2. Bytes'
  BY <1>1, WriteKeepsBytes DEF IInv
<1>3. \A t \in Threads : at[t] = "write" => t \in overtaken'
  BY <1>1, WriteOvertakes
<1>. QED  BY <1>1, <1>2, <1>3 DEF IInv, RoomInv

LEMMA PollKeeps ==
  ASSUME IInv, NEW t \in Threads, XUartPs_IsTransmitFull(t)
  PROVE  IInv'
<1>1. /\ ~Full /\ fifo' = fifo /\ at' = [at EXCEPT ![t] = "write"]
  BY DEF XUartPs_IsTransmitFull
<1>2. ~Full' /\ Bytes'
  BY <1>1 DEF Full, IInv, Bytes
<1>3. at' \in [Threads -> {"poll", "write"}]
  BY <1>1 DEF IInv
<1>. QED  BY <1>2, <1>3 DEF IInv, RoomInv

LEMMA WriteRegKeeps ==
  ASSUME IInv, NEW t \in Threads, XUartPs_WriteReg(t)
  PROVE  IInv'
<1>1. Write(t, Text) /\ at' = [at EXCEPT ![t] = "poll"] /\ at \in [Threads -> {"poll", "write"}]
  BY DEF XUartPs_WriteReg, IInv
<1>2. Bytes'
  BY <1>1, WriteKeepsBytes DEF IInv
<1>3. at' \in [Threads -> {"poll", "write"}]
  BY <1>1
<1>4. \A u \in Threads : at'[u] = "write" => u # t /\ at[u] = "write"
  BY <1>1
<1>5. \A u \in Threads : at'[u] = "write" => u \in overtaken'
  BY <1>1, <1>4, WriteOvertakes
<1>. QED  BY <1>2, <1>3, <1>5 DEF IInv, RoomInv

LEMMA RoomKept == IInv /\ [Next]_vars => IInv'
<1>. SUFFICES ASSUME IInv, [Next]_vars PROVE IInv'
  OBVIOUS
<1>1. CASE Transmit \/ uart_init \/ uart_putc
  BY <1>1, TransmitKeeps, InitialisedKeeps, PutcKeeps
<1>2. CASE \E t \in Threads : XUartPs_IsTransmitFull(t) \/ XUartPs_WriteReg(t)
  BY <1>2, PollKeeps, WriteRegKeeps
<1>3. CASE printk \/ Yield \/ Fiq \/ UNCHANGED vars
  <2>1. fifo' = fifo /\ at' = at /\ overtaken' = overtaken
    BY <1>3 DEF printk, Yield, Fiq, vars
  <2>. QED  BY <2>1 DEF IInv, Bytes, RoomInv, Full
<1>. QED  BY <1>1, <1>2, <1>3 DEF Next

\* The step in which a byte is lost is the write of an overtaken thread.
LEMMA LossIsOvertaken ==
  IInv /\ [Next]_vars =>
    [lost' # lost => \E t \in overtaken : at[t] = "write" /\ at'[t] = "poll"]_vars
<1>. SUFFICES ASSUME IInv, [Next]_vars, lost' # lost
              PROVE  \E t \in overtaken : at[t] = "write" /\ at'[t] = "poll"
  OBVIOUS
<1>1. \E t \in Threads : XUartPs_WriteReg(t)
  BY DEF Next, Transmit, uart_init, printk, uart_putc, Yield, Fiq, Write,
         XUartPs_IsTransmitFull, vars
<1>2. PICK t \in Threads : XUartPs_WriteReg(t)
  BY <1>1
<1>3. at[t] = "write" /\ Full /\ at' = [at EXCEPT ![t] = "poll"]
  BY <1>2 DEF XUartPs_WriteReg, Write
<1>4. t \in overtaken
  BY <1>3 DEF IInv, RoomInv
<1>5. at'[t] = "poll"
  BY <1>3 DEF IInv
<1>. QED  BY <1>3, <1>4, <1>5

\* S never loses a byte, and a thread of the guest only when S, after a FIQ, or
\* another thread wrote between its poll and its write (XUartPs_SendByte).
THEOREM LossesAreOvertakings == Spec => LossNeedsOvertaking
<1>1. Spec => []IInv
  BY InitRoom, RoomKept, PTL DEF Spec
<1>. QED  BY <1>1, LossIsOvertaken, PTL DEF Spec, LossNeedsOvertaking

-----------------------------------------------------------------------------
(***************************************************************************)
(* The digits.  A set of numbers that is not empty has a least element:    *)
(* this is the form in which induction is used below.                      *)
(***************************************************************************)
LEMMA LeastElement ==
  ASSUME NEW T \in SUBSET Nat, T # {}
  PROVE  \E x \in T : \A y \in T : x <= y
<1>. DEFINE R == OpToRel(<, Nat)
<1>1. IsWellFoundedOn(R, Nat)
  BY NatLessThanWellFounded
<1>. HIDE DEF R
<1>2. \E x \in T : \A y \in T : ~ (<<y, x>> \in R)
  BY <1>1, WFMin
<1>3. \A x, y \in Nat : y < x => <<y, x>> \in R
  BY DEF R, OpToRel
<1>4. \A x, y \in Nat : ~(y < x) => x <= y
  BY SMT
<1>. QED  BY <1>2, <1>3, <1>4, Zenon

\* Min and Max of FiniteSetsExt choose what they are meant to.
LEMMA MinIsLeast ==
  ASSUME NEW T \in SUBSET Nat, T # {}
  PROVE  Min(T) \in T /\ \A y \in T : Min(T) <= y
<1>1. \E x \in T : \A y \in T : x <= y
  BY LeastElement
<1>. QED  BY <1>1, Zenon DEF Min

\* The conversions divide by the powers of the base; the quotients of n, from
\* n itself to 0, and what is left of each by the next.
Quotients(n, b, l) == [j \in 0 .. l |-> n \div b^j]

Divided(q, n, b, l) ==
    /\ q \in [0 .. l -> Nat] /\ q[0] = n /\ q[l] = 0
    /\ \A j \in 0 .. l - 1 : q[j] = q[j + 1] * b + (q[j] % b)

\* The largest number that is printed.
Largest == 2^30 + (2^30 - 1)

\* Quotients are between their bounds, and the only numbers that are.
LEMMA Division ==
  ASSUME NEW n \in Nat, NEW d \in Nat \ {0}
  PROVE  /\ n \div d \in Nat
         /\ (n \div d) * d <= n /\ n < (n \div d) * d + d
  BY SMT

LEMMA QuotientIs ==
  ASSUME NEW n \in Nat, NEW d \in Nat \ {0}, NEW y \in Nat,
         y * d <= n, n < y * d + d
  PROVE  n \div d = y
<1>. DEFINE x == n \div d
<1>1. x \in Nat /\ x * d <= n /\ n < x * d + d
  BY Division
<1>. HIDE DEF x
<1>2. \A u, v \in Nat : u < v => u * d + d <= v * d
  <2>. SUFFICES ASSUME NEW u \in Nat, NEW v \in Nat, u < v PROVE u * d + d <= v * d
    OBVIOUS
  <2>1. PICK k \in Nat : v = u + 1 + k
    <3>1. v - u - 1 \in Nat /\ v = u + 1 + (v - u - 1)
      BY SMT
    <3>. QED  BY <3>1
  <2>2. v * d = u * d + d + k * d /\ k * d \in Nat
    BY <2>1, SMT
  <2>3. u * d \in Nat
    BY SMT
  <2>. QED  BY <2>2, <2>3, SMT
<1>3. ~(x < y)
  <2>1. x * d \in Nat /\ y * d \in Nat
    BY <1>1, SMT
  <2>. QED  BY <1>1, <1>2, <2>1, SMT
<1>4. ~(y < x)
  <2>1. x * d \in Nat /\ y * d \in Nat
    BY <1>1, SMT
  <2>. QED  BY <1>1, <1>2, <2>1, SMT
<1>5. x = y
  BY <1>1, <1>3, <1>4, SMT
<1>. QED  BY <1>5 DEF x

\* Dividing twice is dividing by the product.
LEMMA DividedTwice ==
  ASSUME NEW n \in Nat, NEW d \in Nat \ {0}, NEW b \in Nat \ {0}
  PROVE  n \div (d * b) = (n \div d) \div b
<1>. DEFINE x == n \div d
            y == x \div b
<1>1. x \in Nat /\ x * d <= n /\ n < x * d + d
  BY Division
<1>. HIDE DEF x
<1>2. y \in Nat /\ y * b <= x /\ x < y * b + b
  BY <1>1, Division
<1>. HIDE DEF y
<1>3. y * b \in Nat /\ x <= y * b + (b - 1)
  BY <1>1, <1>2, SMT
<1>4. (y * b) * d <= x * d
  <2>1. PICK k \in Nat : x = y * b + k
    <3>1. x - y * b \in Nat /\ x = y * b + (x - y * b)
      BY <1>1, <1>2, <1>3, SMT
    <3>. QED  BY <3>1
  <2>2. x * d = (y * b) * d + k * d /\ k * d \in Nat /\ (y * b) * d \in Nat
    BY <1>3, <2>1, SMT
  <2>. QED  BY <2>2, SMT
<1>5. x * d + d <= (y * b) * d + b * d
  <2>1. PICK k \in Nat : y * b + b = x + 1 + k
    <3>1. y * b + b - x - 1 \in Nat /\ y * b + b = x + 1 + (y * b + b - x - 1)
      BY <1>1, <1>2, <1>3, SMT
    <3>. QED  BY <3>1
  <2>2. (y * b + b) * d = (x + 1 + k) * d
    BY <2>1
  <2>3. (x + 1 + k) * d = x * d + d + k * d /\ k * d \in Nat /\ x * d \in Nat
    BY <1>1, SMT
  <2>4. (y * b + b) * d = (y * b) * d + b * d
    BY <1>3, SMT
  <2>5. (y * b) * d \in Nat /\ b * d \in Nat
    BY <1>3, SMT
  <2>. QED  BY <2>2, <2>3, <2>4, <2>5, SMT
<1>6. (y * b) * d = y * (d * b) /\ b * d = d * b /\ d * b \in Nat \ {0}
  BY <1>2, SMT
<1>7. y * (d * b) <= n /\ n < y * (d * b) + d * b
  <2>1. x * d \in Nat /\ y * (d * b) \in Nat
    BY <1>1, <1>2, <1>6, SMT
  <2>. QED  BY <1>1, <1>4, <1>5, <1>6, <2>1, SMT
<1>8. n \div (d * b) = y
  BY <1>2, <1>6, <1>7, QuotientIs
<1>. QED  BY <1>8 DEF x, y

\* So the quotients by the powers of b, here w, are each b times the next one
\* and a digit.
LEMMA PlacesDivide ==
  ASSUME NEW n \in Nat, NEW b \in Nat \ {0}, NEW l \in Nat,
         NEW w \in [0 .. l -> Nat \ {0}], w[0] = 1, n < w[l],
         \A j \in 0 .. l - 1 : w[j + 1] = w[j] * b
  PROVE  Divided([j \in 0 .. l |-> n \div w[j]], n, b, l)
<1>. DEFINE q == [j \in 0 .. l |-> n \div w[j]]
<1>1. \A j \in 0 .. l : q[j] = n \div w[j]
  OBVIOUS
<1>2. \A j \in 0 .. l : n \div w[j] \in Nat
  BY Division
<1>3. q \in [0 .. l -> Nat]
  BY <1>2
<1>. HIDE DEF q
<1>4. \A x \in Nat : x = (x \div b) * b + (x % b)
  BY SMT
<1>5. ASSUME NEW j \in 0 .. l - 1
      PROVE  q[j] = q[j + 1] * b + (q[j] % b)
  <2>1. j \in 0 .. l /\ j + 1 \in 0 .. l
    BY SMT
  <2>2. n \div (w[j] * b) = (n \div w[j]) \div b
    BY <2>1, DividedTwice
  <2>3. q[j + 1] = (n \div w[j]) \div b
    BY <1>1, <2>1, <2>2
  <2>. QED  BY <1>1, <1>2, <1>4, <2>1, <2>3
<1>6. q[0] = n
  <2>1. n \div 1 = n /\ 0 \in 0 .. l
    BY SMT
  <2>. QED  BY <1>1, <2>1
<1>7. q[l] = 0
  <2>1. w[l] \in Nat \ {0} /\ l \in 0 .. l
    BY SMT
  <2>2. n \div w[l] = 0
    <3>1. 0 * w[l] <= n /\ n < 0 * w[l] + w[l]
      BY <2>1, SMT
    <3>. QED  BY <2>1, <3>1, QuotientIs
  <2>. QED  BY <1>1, <2>1, <2>2
<1>. QED  BY <1>3, <1>5, <1>6, <1>7 DEF Divided, q

\* The ten places of %d, the eight of %x and the eleven of %o are enough.
LEMMA DecimalPlaces ==
  ASSUME NEW n \in 0 .. Largest
  PROVE  Divided(Quotients(n, 10, 10), n, 10, 10)
<1>. DEFINE w == [j \in 0 .. 10 |-> 10^j]
<1>1. /\ 10^0 = 1 /\ 10^1 = 10 /\ 10^2 = 100 /\ 10^3 = 1000 /\ 10^4 = 10000
      /\ 10^5 = 100000 /\ 10^6 = 1000000 /\ 10^7 = 10000000
      /\ 10^8 = 100000000 /\ 10^9 = 1000000000 /\ 10^10 = 10000000000
  BY SMT
<1>2. /\ w[0] = 1 /\ w[1] = 10 /\ w[2] = 100 /\ w[3] = 1000 /\ w[4] = 10000
      /\ w[5] = 100000 /\ w[6] = 1000000 /\ w[7] = 10000000
      /\ w[8] = 100000000 /\ w[9] = 1000000000 /\ w[10] = 10000000000
  BY <1>1, SMT
<1>3. n \in Nat /\ n < 10000000000
  BY SMT DEF Largest
<1>4. \A j \in 0 .. 10 : j \in {0, 1, 2, 3, 4, 5, 6, 7, 8, 9, 10}
  BY SMT
<1>5. \A j \in 0 .. 10 - 1 : j \in {0, 1, 2, 3, 4, 5, 6, 7, 8, 9}
  BY SMT
<1>6. w = [j \in 0 .. 10 |-> w[j]]
  BY SMT
<1>7. Quotients(n, 10, 10) = [j \in 0 .. 10 |-> n \div w[j]]
  BY SMT DEF Quotients
<1>. HIDE DEF w
<1>8. w \in [0 .. 10 -> Nat \ {0}]
  <2>1. \A j \in 0 .. 10 : w[j] \in Nat \ {0}
    BY <1>2, <1>4, SMT
  <2>. QED  BY <1>6, <2>1, SMT
<1>9. \A j \in 0 .. 10 - 1 : w[j + 1] = w[j] * 10
  BY <1>2, <1>5, SMT
<1>10. n \in Nat /\ n < w[10] /\ w[0] = 1
  BY <1>2, <1>3, SMT
<1>11. 10 \in Nat \ {0} /\ 10 \in Nat
  BY SMT
<1>. QED  BY <1>7, <1>8, <1>9, <1>10, <1>11, PlacesDivide, Zenon

LEMMA HexPlaces ==
  ASSUME NEW n \in 0 .. Largest
  PROVE  Divided(Quotients(n, 16, 8), n, 16, 8)
<1>. DEFINE w == [j \in 0 .. 8 |-> 16^j]
<1>1. /\ 16^0 = 1 /\ 16^1 = 16 /\ 16^2 = 256 /\ 16^3 = 4096 /\ 16^4 = 65536
      /\ 16^5 = 1048576 /\ 16^6 = 16777216 /\ 16^7 = 268435456
      /\ 16^8 = 4294967296
  BY SMT
<1>2. /\ w[0] = 1 /\ w[1] = 16 /\ w[2] = 256 /\ w[3] = 4096 /\ w[4] = 65536
      /\ w[5] = 1048576 /\ w[6] = 16777216 /\ w[7] = 268435456
      /\ w[8] = 4294967296
  BY <1>1, SMT
<1>3. n \in Nat /\ n < 4294967296
  BY SMT DEF Largest
<1>4. \A j \in 0 .. 8 : j \in {0, 1, 2, 3, 4, 5, 6, 7, 8}
  BY SMT
<1>5. \A j \in 0 .. 8 - 1 : j \in {0, 1, 2, 3, 4, 5, 6, 7}
  BY SMT
<1>6. w = [j \in 0 .. 8 |-> w[j]]
  BY SMT
<1>7. Quotients(n, 16, 8) = [j \in 0 .. 8 |-> n \div w[j]]
  BY SMT DEF Quotients
<1>. HIDE DEF w
<1>8. w \in [0 .. 8 -> Nat \ {0}]
  <2>1. \A j \in 0 .. 8 : w[j] \in Nat \ {0}
    BY <1>2, <1>4, SMT
  <2>. QED  BY <1>6, <2>1, SMT
<1>9. \A j \in 0 .. 8 - 1 : w[j + 1] = w[j] * 16
  BY <1>2, <1>5, SMT
<1>10. n \in Nat /\ n < w[8] /\ w[0] = 1
  BY <1>2, <1>3, SMT
<1>11. 16 \in Nat \ {0} /\ 8 \in Nat
  BY SMT
<1>. QED  BY <1>7, <1>8, <1>9, <1>10, <1>11, PlacesDivide, Zenon

LEMMA OctalPlaces ==
  ASSUME NEW n \in 0 .. Largest
  PROVE  Divided(Quotients(n, 8, 11), n, 8, 11)
<1>. DEFINE w == [j \in 0 .. 11 |-> 8^j]
<1>1. /\ 8^0 = 1 /\ 8^1 = 8 /\ 8^2 = 64 /\ 8^3 = 512 /\ 8^4 = 4096
      /\ 8^5 = 32768 /\ 8^6 = 262144 /\ 8^7 = 2097152 /\ 8^8 = 16777216
      /\ 8^9 = 134217728 /\ 8^10 = 1073741824 /\ 8^11 = 8589934592
  BY SMT
<1>2. /\ w[0] = 1 /\ w[1] = 8 /\ w[2] = 64 /\ w[3] = 512 /\ w[4] = 4096
      /\ w[5] = 32768 /\ w[6] = 262144 /\ w[7] = 2097152 /\ w[8] = 16777216
      /\ w[9] = 134217728 /\ w[10] = 1073741824 /\ w[11] = 8589934592
  BY <1>1, SMT
<1>3. n \in Nat /\ n < 8589934592
  BY SMT DEF Largest
<1>4. \A j \in 0 .. 11 : j \in {0, 1, 2, 3, 4, 5, 6, 7, 8, 9, 10, 11}
  BY SMT
<1>5. \A j \in 0 .. 11 - 1 : j \in {0, 1, 2, 3, 4, 5, 6, 7, 8, 9, 10}
  BY SMT
<1>6. w = [j \in 0 .. 11 |-> w[j]]
  BY SMT
<1>7. Quotients(n, 8, 11) = [j \in 0 .. 11 |-> n \div w[j]]
  BY SMT DEF Quotients
<1>. HIDE DEF w
<1>8. w \in [0 .. 11 -> Nat \ {0}]
  <2>1. \A j \in 0 .. 11 : w[j] \in Nat \ {0}
    BY <1>2, <1>4, SMT
  <2>. QED  BY <1>6, <2>1, SMT
<1>9. \A j \in 0 .. 11 - 1 : w[j + 1] = w[j] * 8
  BY <1>2, <1>5, SMT
<1>10. n \in Nat /\ n < w[11] /\ w[0] = 1
  BY <1>2, <1>3, SMT
<1>11. 8 \in Nat \ {0} /\ 11 \in Nat
  BY SMT
<1>. QED  BY <1>7, <1>8, <1>9, <1>10, <1>11, PlacesDivide, Zenon

\* Value is what its recursion says: the function it chooses exists and is the
\* only one.
Reading(v, digits, b) ==
    v = [i \in 0 .. Len(digits) |-> IF i = 0 THEN 0 ELSE v[i - 1] * b + digits[i]]

LEMMA ValueReads ==
  ASSUME NEW digits \in Seq(Nat), NEW b \in Nat, NEW w, Reading(w, digits, b)
  PROVE  Value(digits, b) = w[Len(digits)]
<1>. DEFINE v == CHOOSE g : Reading(g, digits, b)
            L == Len(digits)
<1>1. Reading(v, digits, b)
  BY Zenon
<1>2. Value(digits, b) = v[L]
  BY Zenon DEF Value, Reading
<1>. HIDE DEF v
<1>3. L \in Nat
  OBVIOUS
<1>4. ASSUME NEW g, Reading(g, digits, b)
      PROVE  g[0] = 0 /\ \A i \in 1 .. L : g[i] = g[i - 1] * b + digits[i]
  BY <1>3, <1>4, SMT DEF Reading
<1>. DEFINE T == {i \in 0 .. L : v[i] # w[i]}
<1>5. T = {}
  <2>1. SUFFICES ASSUME T # {} PROVE FALSE
    OBVIOUS
  <2>2. T \in SUBSET Nat
    OBVIOUS
  <2>3. PICK x \in T : \A y \in T : x <= y
    BY <2>1, <2>2, LeastElement
  <2>4. x # 0
    BY <1>1, <1>4
  <2>5. x \in 1 .. L /\ x - 1 \in 0 .. L /\ ~(x <= x - 1)
    BY <1>3, <2>4, SMT
  <2>6. v[x - 1] = w[x - 1]
    BY <2>3, <2>5
  <2>7. v[x] = w[x]
    BY <1>1, <1>4, <2>5, <2>6
  <2>. QED  BY <2>7
<1>6. L \in 0 .. L
  BY <1>3, SMT
<1>. QED  BY <1>2, <1>5, <1>6

(***************************************************************************)
(* What vsprintk prints of a number reads as this number: the places it    *)
(* leaves out are zeros, so that the quotient at the first one it shows is *)
(* 0, and the quotients are what a reader has read so far.                 *)
(***************************************************************************)
LEMMA DigitsRead ==
  ASSUME NEW n \in Nat, NEW b \in Nat \ {0}, NEW l \in Nat, NEW p \in 1 .. l,
         Divided(Quotients(n, b, l), n, b, l)
  PROVE  /\ Digits(n, b, l, p) \in Seq(0 .. b - 1)
         /\ Len(Digits(n, b, l, p)) >= 1
         /\ Reads(Digits(n, b, l, p), n, b, p)
<1>. DEFINE q == Quotients(n, b, l)
            dig(k) == Digit(n, b, l, k)
            shown == {k \in 0 .. l - 1 : \/ \E j \in 0 .. k : dig(j) # 0
                                         \/ k >= l - p}
            k0 == Min(shown)
            m == l - k0
            d == [i \in 1 .. m |-> dig(k0 + i - 1)]
<1>1. Digits(n, b, l, p) = d
  BY DEF Digits
<1>2. \A k \in 0 .. l - 1 : dig(k) = q[l - 1 - k] % b
  <2>1. \A k \in 0 .. l - 1 : l - 1 - k \in 0 .. l
    BY SMT
  <2>. QED  BY <2>1 DEF Digit, Quotients
<1>3. /\ q \in [0 .. l -> Nat] /\ q[0] = n /\ q[l] = 0
      /\ \A j \in 0 .. l - 1 : q[j] = q[j + 1] * b + (q[j] % b)
  BY DEF Divided
<1>. HIDE DEF q
<1>4. \A k \in 0 .. l - 1 : dig(k) \in 0 .. b - 1
  <2>1. \A x \in Nat : x % b \in 0 .. b - 1
    BY SMT
  <2>2. \A k \in 0 .. l - 1 : q[l - 1 - k] \in Nat
    BY <1>3, SMT
  <2>. QED  BY <1>2, <2>1, <2>2
<1>. HIDE DEF dig
<1>5. l - p \in shown /\ shown \in SUBSET Nat
  BY SMT
<1>6. k0 \in shown /\ \A y \in shown : k0 <= y
  BY <1>5, MinIsLeast
<1>. HIDE DEF k0
<1>7. /\ k0 \in 0 .. l - p /\ k0 \in 0 .. l - 1 /\ m \in p .. l /\ m >= 1
  BY <1>5, <1>6, SMT
<1>8. m > p => dig(k0) # 0
  <2>. SUFFICES ASSUME m > p PROVE dig(k0) # 0
    OBVIOUS
  <2>1. ~(k0 >= l - p)
    BY <1>7, SMT
  <2>2. PICK j \in 0 .. k0 : dig(j) # 0
    BY <1>6, <2>1
  <2>3. j \in shown
    BY <1>7, <2>2, SMT
  <2>4. j = k0
    BY <1>6, <1>7, <2>3, SMT
  <2>. QED  BY <2>2, <2>4
<1>9. \A k \in 0 .. k0 - 1 : dig(k) = 0
  <2>. SUFFICES ASSUME NEW k \in 0 .. k0 - 1, dig(k) # 0 PROVE FALSE
    OBVIOUS
  <2>1. k \in 0 .. l - 1 /\ k \in 0 .. k /\ ~(k0 <= k)
    BY <1>7, SMT
  <2>2. k \in shown
    BY <2>1
  <2>. QED  BY <1>6, <2>1, <2>2
<1>. HIDE DEF shown
<1>10. q[m] = 0
  <2>. DEFINE T == {k \in 0 .. k0 : q[l - k] # 0}
  <2>1. T = {}
    <3>1. SUFFICES ASSUME T # {} PROVE FALSE
      OBVIOUS
    <3>2. T \in SUBSET Nat
      OBVIOUS
    <3>3. PICK x \in T : \A y \in T : x <= y
      BY <3>1, <3>2, LeastElement
    <3>4. x # 0
      BY <1>3, SMT
    <3>5. /\ x - 1 \in 0 .. k0 /\ x - 1 \in 0 .. k0 - 1 /\ ~(x <= x - 1)
          /\ x - 1 \in 0 .. l - 1 /\ l - x \in 0 .. l - 1
          /\ l - x + 1 = l - (x - 1) /\ l - 1 - (x - 1) = l - x
      BY <1>7, <3>4, SMT
    <3>6. q[l - x + 1] = 0
      BY <3>3, <3>5
    <3>7. q[l - x] % b = 0
      BY <1>2, <1>9, <3>5
    <3>8. 0 * b + 0 = 0
      BY SMT
    <3>9. q[l - x] = 0
      BY <1>3, <3>5, <3>6, <3>7, <3>8
    <3>. QED  BY <3>9
  <2>2. k0 \in 0 .. k0
    BY <1>7, SMT
  <2>. QED  BY <2>1, <2>2
<1>11. \A i \in 1 .. m : k0 + i - 1 \in 0 .. l - 1
  BY <1>7, SMT
<1>12. m \in Nat /\ d \in Seq(0 .. b - 1) /\ Len(d) = m
  <2>1. m \in Nat
    BY <1>7, SMT
  <2>2. d \in [1 .. m -> 0 .. b - 1]
    BY <1>4, <1>11
  <2>. QED  BY <2>1, <2>2
<1>13. d \in Seq(Nat)
  <2>1. 0 .. b - 1 \subseteq Nat
    BY SMT
  <2>. QED  BY <1>12, <2>1
<1>. DEFINE w == [i \in 0 .. m |-> q[m - i]]
<1>14. \A i \in 1 .. m : w[i] = w[i - 1] * b + d[i]
  <2>. SUFFICES ASSUME NEW i \in 1 .. m PROVE w[i] = w[i - 1] * b + d[i]
    OBVIOUS
  <2>1. /\ i \in 0 .. m /\ i - 1 \in 0 .. m /\ m - i \in 0 .. l - 1
        /\ m - (i - 1) = m - i + 1 /\ l - 1 - (k0 + i - 1) = m - i
    BY <1>7, SMT
  <2>2. w[i] = q[m - i] /\ w[i - 1] = q[m - i + 1]
    BY <2>1
  <2>3. d[i] = q[m - i] % b
    BY <1>2, <1>11, <2>1
  <2>. QED  BY <1>3, <2>1, <2>2, <2>3
<1>15. w[0] = 0 /\ w[m] = n
  <2>1. 0 \in 0 .. m /\ m \in 0 .. m /\ m - 0 = m /\ m - m = 0
    BY <1>12, SMT
  <2>. QED  BY <1>3, <1>10, <2>1
<1>16. d[1] = dig(k0)
  <2>1. 1 \in 1 .. m /\ k0 + 1 - 1 = k0
    BY <1>7, SMT
  <2>. QED  BY <2>1
<1>. HIDE DEF d, m
<1>17. Reading(w, d, b)
  <2>1. w = [i \in 0 .. m |-> w[i]]
    OBVIOUS
  <2>. HIDE DEF w
  <2>2. \A i \in 0 .. m : i # 0 => i \in 1 .. m
    BY <1>12, SMT
  <2>3. \A i \in 0 .. m : w[i] = IF i = 0 THEN 0 ELSE w[i - 1] * b + d[i]
    BY <1>14, <1>15, <2>2
  <2>. QED  BY <1>12, <2>1, <2>3 DEF Reading
<1>18. Value(d, b) = n
  BY <1>12, <1>13, <1>15, <1>17, ValueReads
<1>19. Head(d) = d[1]
  BY <1>7, <1>12
<1>20. Len(d) >= p /\ Len(d) >= 1 /\ (Len(d) > p => Head(d) # 0)
  BY <1>7, <1>8, <1>12, <1>16, <1>19
<1>. QED  BY <1>1, <1>12, <1>18, <1>20 DEF Reads
-----------------------------------------------------------------------------
LEMMA MaxIsGreatest ==
  ASSUME NEW h \in Nat, NEW A \in SUBSET (0 .. h), A # {}
  PROVE  Max(A) \in A /\ \A y \in A : Max(A) >= y
<1>. DEFINE B == {h - x : x \in A}
<1>1. B \in SUBSET Nat /\ B # {}
  <2>1. \A x \in 0 .. h : h - x \in Nat
    BY SMT
  <2>. QED  BY <2>1
<1>2. PICK z \in B : \A y \in B : z <= y
  BY <1>1, LeastElement
<1>3. PICK x \in A : z = h - x
  BY <1>2
<1>4. \A y \in A : x >= y
  <2>. SUFFICES ASSUME NEW y \in A PROVE x >= y
    OBVIOUS
  <2>1. h - x <= h - y
    BY <1>2, <1>3
  <2>. QED  BY <2>1, SMT
<1>. QED  BY <1>4, Zenon DEF Max

LEMMA MaxIs ==
  ASSUME NEW h \in Nat, NEW A \in SUBSET (0 .. h), NEW x \in A, \A y \in A : y <= x
  PROVE  Max(A) = x
<1>1. Max(A) \in A /\ Max(A) >= x /\ Max(A) <= x
  BY MaxIsGreatest
<1>2. Max(A) \in Nat /\ x \in Nat
  <2>1. 0 .. h \subseteq Nat
    BY SMT
  <2>. QED  BY <1>1, <2>1, Zenon
<1>. QED  BY <1>1, <1>2, SMT

(***************************************************************************)
(* The lines.                                                              *)
(***************************************************************************)
Writers == Threads \cup {"S", "boot"}
Entries == [by : Writers, char : Chars]
Calls == {<<n, cp[1], cp[2]>> : n \in Numbers, cp \in Conversions}

\* What vsprintk makes of a call.
Made(call) == vsprintk(call[1], call[2], call[3])

(***************************************************************************)
(* In a stream T: the bytes of S, those that end a line, and those after   *)
(* which the line goes on; the line that ends at i.                        *)
(***************************************************************************)
Sec(T) == {i \in DOMAIN T : T[i].by = "S"}
Ends(T) == {i \in Sec(T) : T[i].char = LF}
Open(T) == Sec(T) \ Ends(T)
UpTo(T, i) == {j \in Ends(T) : j <= i}
Begin(T, i) == Max({0} \cup {j \in 1 .. i - 1 : j \notin Open(T)})
Cut(T, i) == [j \in 1 .. i - Begin(T, i) |-> T[Begin(T, i) + j].char]

LEMMA LineFeeds ==
    /\ LF = 17 /\ CR = 16 /\ Text = 18
    /\ LF # CR /\ LF # Text /\ {LF, CR, Text} \subseteq Chars
  BY SMT DEF LF, CR, Text, Chars

\* The three conversions meet the conditions of DigitsRead.
LEMMA BasesAndLengths ==
  ASSUME NEW n \in 0 .. Largest, NEW c \in {"d", "x", "o"}, NEW p \in 1 .. 8
  PROVE  /\ Base[c] \in Nat \ {0} /\ Base[c] <= 16
         /\ Length[c] \in Nat /\ p \in 1 .. Length[c]
         /\ Divided(Quotients(n, Base[c], Length[c]), n, Base[c], Length[c])
<1>1. CASE c = "d"
  <2>1. Base[c] = 10 /\ Length[c] = 10
    BY <1>1 DEF Base, Length
  <2>2. 10 \in Nat \ {0} /\ 10 <= 16 /\ p \in 1 .. 10
    BY SMT
  <2>. QED  BY <2>1, <2>2, DecimalPlaces
<1>2. CASE c = "x"
  <2>1. Base[c] = 16 /\ Length[c] = 8
    BY <1>2 DEF Base, Length
  <2>2. 16 \in Nat \ {0} /\ 16 <= 16 /\ 8 \in Nat /\ p \in 1 .. 8
    BY SMT
  <2>. QED  BY <2>1, <2>2, HexPlaces
<1>3. CASE c = "o"
  <2>1. Base[c] = 8 /\ Length[c] = 11
    BY <1>3 DEF Base, Length
  <2>2. 8 \in Nat \ {0} /\ 8 <= 16 /\ 11 \in Nat /\ p \in 1 .. 11
    BY SMT
  <2>. QED  BY <2>1, <2>2, OctalPlaces
<1>. QED  BY <1>1, <1>2, <1>3

\* Every number below 2^31, printed by %d, %x or %o with any padding from 1 to 8,
\* reads as this number, has as many digits as the padding asks for, and no
\* zero in front beyond that (printk.c, keep_zeros and zero_padding).
THEOREM NumbersReadRight ==
  \A n \in 0 .. Largest, c \in {"d", "x", "o"}, p \in 1 .. 8 :
     Reads(Digits(n, Base[c], Length[c], p), n, Base[c], p)
<1>. SUFFICES ASSUME NEW n \in 0 .. Largest, NEW c \in {"d", "x", "o"}, NEW p \in 1 .. 8
              PROVE  Reads(Digits(n, Base[c], Length[c], p), n, Base[c], p)
  OBVIOUS
<1>1. n \in Nat
  BY SMT
<1>. QED  BY <1>1, BasesAndLengths, DigitsRead

\* What is sent for a call: a line feed at its end and nowhere else.
LEMMA MadeWell ==
  ASSUME NEW call \in Calls
  PROVE  /\ Made(call) \in Seq(Chars) /\ Len(Made(call)) >= 4
         /\ \A j \in 1 .. Len(Made(call)) : Made(call)[j] = LF <=> j = Len(Made(call))
         /\ IsLine(Made(call), call)
<1>1. PICK n \in Numbers, cp \in Conversions : call = <<n, cp[1], cp[2]>>
  BY DEF Calls
<1>2. n \in 0 .. Largest /\ cp[1] \in {"d", "x", "o"} /\ cp[2] \in 1 .. 8
  <2>1. Numbers \subseteq 0 .. 2^30 + (2^30 - 1)
    BY ConsoleAssumption DEF ConsoleAssumption
  <2>2. Conversions \subseteq {"d", "x", "o"} \X (1 .. 8)
    BY ConsoleAssumption DEF ConsoleAssumption
  <2>3. cp \in {"d", "x", "o"} \X (1 .. 8)
    BY <2>2
  <2>. QED  BY <2>1, <2>3 DEF Largest
<1>. DEFINE c == cp[1]
            p == cp[2]
            d == Digits(n, Base[c], Length[c], p)
<1>3. call[1] = n /\ call[2] = c /\ call[3] = p
  BY <1>1
<1>4. /\ d \in Seq(0 .. Base[c] - 1) /\ Len(d) >= 1 /\ Reads(d, n, Base[c], p)
      /\ Base[c] \in Nat /\ Base[c] <= 16
  <2>1. n \in Nat
    BY <1>2, SMT
  <2>. QED  BY <1>2, <2>1, BasesAndLengths, DigitsRead
<1>. HIDE DEF d
<1>5. 0 .. Base[c] - 1 \subseteq 0 .. 15
  <2>1. \A b \in Nat : b <= 16 => 0 .. b - 1 \subseteq 0 .. 15
    BY SMT
  <2>. QED  BY <1>4, <2>1, Zenon
<1>6. d \in Seq(0 .. 15) /\ Len(d) \in Nat
  <2>. DEFINE B == 0 .. Base[c] - 1
              C == 0 .. 15
  <2>1. B \subseteq C /\ d \in Seq(B)
    BY <1>4, <1>5
  <2>. HIDE DEF B, C
  <2>2. d \in Seq(C) /\ Len(d) \in Nat
    BY <2>1
  <2>. QED  BY <2>2 DEF C
<1>7. Made(call) = <<Text>> \o d \o <<CR, LF>>
  BY <1>3 DEF Made, vsprintk, d
<1>. DEFINE M == <<Text>> \o d \o <<CR, LF>>
<1>8. 0 .. 15 \subseteq Chars /\ LF \notin 0 .. 15
  BY SMT DEF Chars, LF
<1>9. <<Text>> \in Seq(Chars) /\ d \in Seq(Chars) /\ <<CR, LF>> \in Seq(Chars)
  BY <1>6, <1>8, LineFeeds
<1>10. M \in Seq(Chars) /\ Len(M) = Len(d) + 3
  BY <1>6, <1>9
<1>11. /\ M[1] = Text /\ M[Len(d) + 2] = CR /\ M[Len(d) + 3] = LF
       /\ \A i \in 1 .. Len(d) : M[i + 1] = d[i]
  BY <1>6, <1>9
<1>. HIDE DEF M
<1>12. Head(M) = Text
  BY <1>6, <1>10, <1>11
<1>13. SubSeq(M, Len(M) - 1, Len(M)) = <<CR, LF>>
  <2>1. /\ Len(M) - 1 = Len(d) + 2 /\ Len(M) \in Nat /\ Len(M) - 1 >= 1
        /\ Len(M) - (Len(M) - 1) + 1 = 2
    BY <1>6, <1>10, SMT
  <2>2. /\ SubSeq(M, Len(M) - 1, Len(M)) \in Seq(Chars)
        /\ Len(SubSeq(M, Len(M) - 1, Len(M))) = 2
        /\ SubSeq(M, Len(M) - 1, Len(M))[1] = M[Len(M) - 1]
        /\ SubSeq(M, Len(M) - 1, Len(M))[2] = M[Len(M)]
    BY <1>10, <2>1
  <2>3. \A t \in Seq(Chars) : Len(t) = 2 => t = <<t[1], t[2]>>
    OBVIOUS
  <2>4. M[Len(M) - 1] = CR /\ M[Len(M)] = LF
    BY <1>10, <1>11, <2>1
  <2>. QED  BY <2>2, <2>3, <2>4, Zenon
<1>14. SubSeq(M, 2, Len(M) - 2) = d
  <2>1. Len(M) - 2 = Len(d) + 1
    BY <1>6, <1>10, SMT
  <2>2. SubSeq(M, 2, Len(d) + 1) = [i \in 1 .. Len(d) |-> M[i + 1]]
    BY <1>6, <1>10
  <2>3. d = [i \in 1 .. Len(d) |-> d[i]]
    BY <1>6
  <2>. QED  BY <1>11, <2>1, <2>2, <2>3
<1>15. IsLine(M, call)
  <2>1. Len(M) > 3
    BY <1>4, <1>6, <1>10, SMT
  <2>. QED  BY <1>3, <1>4, <1>12, <1>13, <1>14, <2>1 DEF IsLine
<1>16. \A j \in 1 .. Len(M) : M[j] = LF <=> j = Len(M)
  <2>. SUFFICES ASSUME NEW j \in 1 .. Len(M) PROVE M[j] = LF <=> j = Len(M)
    OBVIOUS
  <2>1. \/ j = 1 \/ j - 1 \in 1 .. Len(d) \/ j = Len(d) + 2 \/ j = Len(d) + 3
    BY <1>6, <1>10, SMT
  <2>2. CASE j = 1
    <3>1. j # Len(M)
      BY <1>6, <1>10, <2>2, SMT
    <3>. QED  BY <1>11, <2>2, <3>1, LineFeeds
  <2>3. CASE j - 1 \in 1 .. Len(d)
    <3>1. j # Len(M) /\ (j - 1) + 1 = j
      BY <1>6, <1>10, <2>3, SMT
    <3>2. d[j - 1] \in 0 .. 15
      BY <1>6, <2>3
    <3>. QED  BY <1>8, <1>11, <2>3, <3>1, <3>2
  <2>4. CASE j = Len(d) + 2
    <3>1. j # Len(M)
      BY <1>6, <1>10, <2>4, SMT
    <3>. QED  BY <1>11, <2>4, <3>1, LineFeeds
  <2>5. CASE j = Len(d) + 3
    BY <1>10, <1>11, <2>5
  <2>. QED  BY <2>1, <2>2, <2>3, <2>4, <2>5
<1>17. Len(M) >= 4
  BY <1>4, <1>6, <1>10, SMT
<1>. QED  BY <1>7, <1>10, <1>15, <1>16, <1>17 DEF M
-----------------------------------------------------------------------------
\* Where the bytes of S are in a stream.
LEMMA EndsFinite ==
  ASSUME NEW T \in Seq(Entries)
  PROVE  /\ Sec(T) \subseteq 1 .. Len(T) /\ Ends(T) \subseteq Sec(T)
         /\ IsFiniteSet(Ends(T)) /\ Cardinality(Ends(T)) \in Nat
         /\ \A i \in Nat : IsFiniteSet(UpTo(T, i))
<1>1. Sec(T) \subseteq 1 .. Len(T) /\ Ends(T) \subseteq Sec(T) /\ Len(T) \in Int /\ 1 \in Int
  BY DEF Sec, Ends
<1>2. IsFiniteSet(1 .. Len(T))
  BY <1>1, FS_Interval
<1>3. IsFiniteSet(Ends(T))
  BY <1>1, <1>2, FS_Subset
<1>4. \A i \in Nat : UpTo(T, i) \in SUBSET Ends(T)
  BY DEF UpTo
<1>. QED  BY <1>1, <1>3, <1>4, FS_Subset, FS_CardinalityType

LEMMA BeginInside ==
  ASSUME NEW T, NEW i \in Nat \ {0}
  PROVE  Begin(T, i) \in 0 .. i - 1
<1>. DEFINE A == {0} \cup {j \in 1 .. i - 1 : j \notin Open(T)}
<1>1. i - 1 \in Nat /\ A \in SUBSET (0 .. i - 1) /\ A # {}
  BY SMT
<1>2. Max(A) \in A
  BY <1>1, MaxIsGreatest
<1>. QED  BY <1>1, <1>2 DEF Begin

\* A byte more leaves what is before it as it is.
LEMMA Grown ==
  ASSUME NEW T \in Seq(Entries), NEW e \in Entries
  PROVE  LET U == Append(T, e) IN
         /\ U \in Seq(Entries) /\ Len(U) = Len(T) + 1
         /\ Sec(U) = Sec(T) \cup (IF e.by = "S" THEN {Len(T) + 1} ELSE {})
         /\ Ends(U) = Ends(T) \cup (IF e.by = "S" /\ e.char = LF THEN {Len(T) + 1} ELSE {})
         /\ \A i \in Ends(T) : UpTo(U, i) = UpTo(T, i) /\ Cut(U, i) = Cut(T, i)
<1>. DEFINE U == Append(T, e)
            L == Len(T)
<1>1. /\ U \in Seq(Entries) /\ Len(U) = L + 1 /\ L \in Nat
      /\ DOMAIN U = 1 .. L + 1 /\ DOMAIN T = 1 .. L
      /\ U[L + 1] = e /\ \A i \in 1 .. L : U[i] = T[i]
  OBVIOUS
<1>. HIDE DEF U
<1>2. 1 .. L + 1 = (1 .. L) \cup {L + 1} /\ L + 1 \notin 1 .. L
  BY <1>1, SMT
<1>3. Sec(U) = Sec(T) \cup (IF e.by = "S" THEN {L + 1} ELSE {})
  BY <1>1, <1>2 DEF Sec
<1>4. Ends(U) = Ends(T) \cup (IF e.by = "S" /\ e.char = LF THEN {L + 1} ELSE {})
  BY <1>1, <1>2, <1>3 DEF Ends, Sec
<1>5. Ends(T) \subseteq 1 .. L /\ Sec(T) \subseteq 1 .. L
  BY EndsFinite
<1>6. ASSUME NEW i \in Ends(T)
      PROVE  UpTo(U, i) = UpTo(T, i) /\ Cut(U, i) = Cut(T, i)
  <2>1. i \in 1 .. L /\ ~(L + 1 <= i)
    BY <1>1, <1>5, SMT
  <2>2. UpTo(U, i) = UpTo(T, i)
    BY <1>4, <2>1 DEF UpTo
  <2>3. \A j \in 1 .. i - 1 : j \in Open(U) <=> j \in Open(T)
    <3>1. \A j \in 1 .. i - 1 : j # L + 1
      BY <1>1, <2>1, SMT
    <3>. QED  BY <1>3, <1>4, <3>1 DEF Open
  <2>4. Begin(U, i) = Begin(T, i)
    <3>1. {j \in 1 .. i - 1 : j \notin Open(U)} = {j \in 1 .. i - 1 : j \notin Open(T)}
      BY <2>3
    <3>. QED  BY <3>1 DEF Begin
  <2>5. Begin(T, i) \in 0 .. i - 1
    <3>1. i \in Nat \ {0}
      BY <2>1, SMT
    <3>. QED  BY <3>1, BeginInside
  <2>6. \A j \in 1 .. i - Begin(T, i) : Begin(T, i) + j \in 1 .. L
    BY <1>1, <2>1, <2>5, SMT
  <2>7. \A j \in 1 .. i - Begin(T, i) : U[Begin(T, i) + j].char = T[Begin(T, i) + j].char
    BY <1>1, <2>6
  <2>. QED  BY <2>2, <2>4, <2>7 DEF Cut
<1>. QED  BY <1>1, <1>3, <1>4, <1>6 DEF U

(***************************************************************************)
(* The lines of S that have ended are what vsprintk made of the calls.     *)
(***************************************************************************)
Together(T) == \A i \in Open(T) : i + 1 \in DOMAIN T => i + 1 \in Sec(T)
AsMade(T, calls) ==
    \A i \in Ends(T) :
        /\ Cardinality(UpTo(T, i)) \in 1 .. Len(calls)
        /\ Cut(T, i) = Made(calls[Cardinality(UpTo(T, i))])
Whole(T, calls) == Together(T) /\ AsMade(T, calls)

\* A call leaves the lines of the earlier ones as they are.
LEMMA OneMoreCall ==
  ASSUME NEW T, NEW calls \in Seq(Calls), NEW c \in Calls, AsMade(T, calls)
  PROVE  AsMade(T, Append(calls, c))
<1>1. /\ Len(calls) \in Nat /\ Len(Append(calls, c)) = Len(calls) + 1
      /\ \A k \in 1 .. Len(calls) : Append(calls, c)[k] = calls[k]
  OBVIOUS
<1>2. \A k \in 1 .. Len(calls) : k \in 1 .. Len(calls) + 1
  BY <1>1, SMT
<1>. QED  BY <1>1, <1>2 DEF AsMade

\* Somebody else writes after a line of S.
LEMMA WholeAfterOther ==
  ASSUME NEW T \in Seq(Entries), NEW calls, NEW e \in Entries, Whole(T, calls),
         e.by # "S", Len(T) \notin Open(T)
  PROVE  /\ Whole(Append(T, e), calls)
         /\ Ends(Append(T, e)) = Ends(T) /\ Open(Append(T, e)) = Open(T)
<1>. DEFINE U == Append(T, e)
<1>1. /\ U \in Seq(Entries) /\ Len(U) = Len(T) + 1 /\ Sec(U) = Sec(T) /\ Ends(U) = Ends(T)
      /\ \A i \in Ends(T) : UpTo(U, i) = UpTo(T, i) /\ Cut(U, i) = Cut(T, i)
  BY Grown
<1>. HIDE DEF U
<1>2. Open(U) = Open(T) /\ Open(T) \subseteq 1 .. Len(T)
  BY <1>1, EndsFinite DEF Open
<1>3. Together(U)
  <2>. SUFFICES ASSUME NEW i \in Open(T), i + 1 \in 1 .. Len(T) + 1 PROVE i + 1 \in Sec(T)
    BY <1>1, <1>2 DEF Together
  <2>1. i + 1 \in 1 .. Len(T)
    <3>1. i # Len(T) /\ i \in 1 .. Len(T) /\ Len(T) \in Nat
      BY <1>2
    <3>. QED  BY <3>1, SMT
  <2>. QED  BY <2>1 DEF Whole, Together
<1>4. AsMade(U, calls)
  BY <1>1 DEF Whole, AsMade
<1>. QED  BY <1>1, <1>2, <1>3, <1>4 DEF Whole, U

\* S goes on with its line.
LEMMA WholeInside ==
  ASSUME NEW T \in Seq(Entries), NEW calls, NEW e \in Entries, Whole(T, calls),
         e.by = "S", e.char # LF
  PROVE  /\ Whole(Append(T, e), calls) /\ Ends(Append(T, e)) = Ends(T)
         /\ Open(Append(T, e)) = Open(T) \cup {Len(T) + 1}
<1>. DEFINE U == Append(T, e)
<1>0. ~(e.by = "S" /\ e.char = LF) /\ Len(T) \in Nat
  OBVIOUS
<1>1. /\ U \in Seq(Entries) /\ Len(U) = Len(T) + 1 /\ Len(T) \in Nat
      /\ Sec(U) = Sec(T) \cup {Len(T) + 1} /\ Ends(U) = Ends(T)
      /\ \A i \in Ends(T) : UpTo(U, i) = UpTo(T, i) /\ Cut(U, i) = Cut(T, i)
  BY <1>0, Grown, Zenon
<1>. HIDE DEF U
<1>2. /\ Ends(T) \subseteq 1 .. Len(T) /\ Sec(T) \subseteq 1 .. Len(T)
      /\ Len(T) + 1 \notin 1 .. Len(T)
  BY EndsFinite
<1>3. Open(U) = Open(T) \cup {Len(T) + 1}
  BY <1>1, <1>2 DEF Open
<1>4. Together(U)
  <2>. SUFFICES ASSUME NEW i \in Open(U), i + 1 \in 1 .. Len(T) + 1 PROVE i + 1 \in Sec(U)
    BY <1>1 DEF Together
  <2>1. i \in Open(T) /\ (i + 1 \in 1 .. Len(T) \/ i + 1 = Len(T) + 1)
    <3>1. i \in 1 .. Len(T) \/ i = Len(T) + 1
      BY <1>2, <1>3 DEF Open
    <3>2. i # Len(T) + 1
      BY <1>1, SMT
    <3>. QED  BY <1>1, <1>3, <3>1, <3>2, SMT
  <2>2. DOMAIN T = 1 .. Len(T)
    OBVIOUS
  <2>. QED  BY <1>1, <2>1, <2>2 DEF Whole, Together
<1>5. AsMade(U, calls)
  BY <1>1 DEF Whole, AsMade
<1>. QED  BY <1>1, <1>3, <1>4, <1>5 DEF Whole, U

\* S ends its line: F are its characters, of which all but the last were at
\* the end of T.
LEMMA WholeAtEnd ==
  ASSUME NEW T \in Seq(Entries), NEW calls \in Seq(Calls), NEW e \in Entries, Whole(T, calls),
         e.by = "S", e.char = LF,
         calls # <<>>, Cardinality(Ends(T)) = Len(calls) - 1,
         NEW k \in 0 .. Len(T), NEW F \in Seq(Chars), Len(F) = k + 1, F[k + 1] = LF,
         F = Made(calls[Len(calls)]),
         \A j \in 1 .. k : F[j] # LF /\ T[Len(T) - k + j] = [by |-> "S", char |-> F[j]],
         Len(T) - k \notin Open(T)
  PROVE  /\ Whole(Append(T, e), calls)
         /\ Cardinality(Ends(Append(T, e))) = Len(calls)
         /\ Open(Append(T, e)) = Open(T)
<1>. DEFINE U == Append(T, e)
            L == Len(T)
<1>1. /\ U \in Seq(Entries) /\ Len(U) = L + 1 /\ L \in Nat
      /\ Sec(U) = Sec(T) \cup {L + 1} /\ Ends(U) = Ends(T) \cup {L + 1}
      /\ \A i \in Ends(T) : UpTo(U, i) = UpTo(T, i) /\ Cut(U, i) = Cut(T, i)
  BY Grown
<1>2. U[L + 1] = e /\ DOMAIN T = 1 .. L /\ \A i \in 1 .. L : U[i] = T[i]
  OBVIOUS
<1>. HIDE DEF U
<1>3. /\ Ends(T) \subseteq 1 .. L /\ Sec(T) \subseteq 1 .. L /\ L + 1 \notin 1 .. L
      /\ IsFiniteSet(Ends(T)) /\ Cardinality(Ends(T)) \in Nat
  BY EndsFinite
<1>4. Open(U) = Open(T)
  BY <1>1, <1>3 DEF Open
<1>5. Len(calls) \in Nat \ {0}
  OBVIOUS
<1>6. Cardinality(Ends(U)) = Len(calls)
  <2>1. Cardinality(Ends(U)) = Cardinality(Ends(T)) + 1
    BY <1>1, <1>3, FS_AddElement
  <2>. QED  BY <1>5, <2>1, SMT
<1>7. Together(U)
  <2>. SUFFICES ASSUME NEW i \in Open(T), i + 1 \in 1 .. L + 1 PROVE i + 1 \in Sec(U)
    BY <1>1, <1>4 DEF Together
  <2>1. i + 1 \in 1 .. L \/ i + 1 = L + 1
    BY <1>1, SMT
  <2>. QED  BY <1>1, <1>2, <2>1 DEF Whole, Together
<1>8. UpTo(U, L + 1) = Ends(U)
  <2>1. \A i \in 1 .. L : i <= L + 1
    BY <1>1, SMT
  <2>2. L + 1 <= L + 1
    BY <1>1, SMT
  <2>. QED  BY <1>1, <1>3, <2>1, <2>2 DEF UpTo
<1>9. \A j \in 1 .. k : L - k + j \in Open(T)
  <2>. SUFFICES ASSUME NEW j \in 1 .. k PROVE L - k + j \in Open(T)
    OBVIOUS
  <2>1. L - k + j \in 1 .. L
    BY <1>1, SMT
  <2>2. T[L - k + j].by = "S" /\ T[L - k + j].char # LF
    <3>1. T[L - k + j] = [by |-> "S", char |-> F[j]] /\ F[j] # LF
      OBVIOUS
    <3>. QED  BY <3>1
  <2>. QED  BY <1>2, <2>1, <2>2 DEF Open, Sec, Ends
<1>10. Begin(U, L + 1) = L - k
  <2>. DEFINE A == {0} \cup {j \in 1 .. (L + 1) - 1 : j \notin Open(U)}
  <2>1. (L + 1) - 1 = L /\ L - k \in 0 .. L /\ 0 <= L - k
    BY <1>1, SMT
  <2>2. A \in SUBSET (0 .. L)
    BY <1>1, <2>1, SMT
  <2>3. L - k \in A
    <3>1. \A x \in 0 .. L : x = 0 \/ x \in 1 .. L
      BY <1>1, SMT
    <3>. QED  BY <1>4, <2>1, <3>1
  <2>4. \A y \in A : y <= L - k
    <3>. SUFFICES ASSUME NEW y \in A, ~(y <= L - k) PROVE FALSE
      OBVIOUS
    <3>1. y \in 1 .. L /\ y \notin Open(T)
      BY <1>4, <2>1
    <3>2. y - (L - k) \in 1 .. k /\ L - k + (y - (L - k)) = y
      BY <1>1, <2>1, <3>1, SMT
    <3>. QED  BY <1>9, <3>1, <3>2
  <2>5. Max(A) = L - k
    BY <1>1, <2>2, <2>3, <2>4, MaxIs
  <2>. QED  BY <2>5 DEF Begin
<1>11. Cut(U, L + 1) = F
  <2>1. (L + 1) - (L - k) = k + 1 /\ k + 1 \in Nat
    BY <1>1, SMT
  <2>2. \A j \in 1 .. k + 1 : U[L - k + j].char = F[j]
    <3>. SUFFICES ASSUME NEW j \in 1 .. k + 1 PROVE U[L - k + j].char = F[j]
      OBVIOUS
    <3>1. CASE j \in 1 .. k
      <4>1. L - k + j \in 1 .. L
        BY <1>1, <3>1, SMT
      <4>2. T[L - k + j] = [by |-> "S", char |-> F[j]]
        BY <3>1
      <4>3. U[L - k + j] = T[L - k + j]
        BY <1>2, <4>1
      <4>. QED  BY <4>2, <4>3
    <3>2. CASE j = k + 1
      <4>1. L - k + j = L + 1
        BY <1>1, <3>2, SMT
      <4>. QED  BY <1>2, <3>2, <4>1
    <3>3. j \in 1 .. k \/ j = k + 1
      BY SMT
    <3>. QED  BY <3>1, <3>2, <3>3
  <2>3. F = [j \in 1 .. k + 1 |-> F[j]]
    OBVIOUS
  <2>. QED  BY <1>10, <2>1, <2>2, <2>3 DEF Cut
<1>12. AsMade(U, calls)
  <2>. SUFFICES ASSUME NEW i \in Ends(U)
                PROVE  /\ Cardinality(UpTo(U, i)) \in 1 .. Len(calls)
                       /\ Cut(U, i) = Made(calls[Cardinality(UpTo(U, i))])
    BY DEF AsMade
  <2>1. CASE i \in Ends(T)
    BY <1>1, <2>1 DEF Whole, AsMade
  <2>2. CASE i = L + 1
    <3>1. Cardinality(UpTo(U, i)) = Len(calls)
      BY <1>6, <1>8, <2>2
    <3>2. Len(calls) \in 1 .. Len(calls)
      BY <1>5, SMT
    <3>. QED  BY <1>11, <2>2, <3>1, <3>2
  <2>. QED  BY <1>1, <2>1, <2>2
<1>. QED  BY <1>4, <1>6, <1>7, <1>12 DEF Whole, U
-----------------------------------------------------------------------------
(***************************************************************************)
(* The line under way: its first k characters are the end of the stream,   *)
(* the rest is what uart_puts has still to send.                           *)
(***************************************************************************)
Sent(T, F, ln, k) ==
    /\ k \in 0 .. Len(T) /\ k <= Len(F) /\ ln = SubSeq(F, k + 1, Len(F))
    /\ \A j \in 1 .. k : T[Len(T) - k + j] = [by |-> "S", char |-> F[j]]
    /\ Len(T) - k \notin Open(T)

Resting(T, calls) == Cardinality(Ends(T)) = Len(calls) /\ Len(T) \notin Open(T)

Sending(T, calls, ln) ==
    /\ calls # <<>>
    /\ LET F == Made(calls[Len(calls)])
       IN  \E k \in Nat :
              /\ Sent(T, F, ln, k)
              /\ IF k < Len(F) THEN Cardinality(Ends(T)) = Len(calls) - 1
                               ELSE Resting(T, calls)

\* One byte more of the line under way.
LEMMA SendOne ==
  ASSUME NEW T \in Seq(Entries), NEW calls \in Seq(Calls), NEW ln, NEW e,
         Whole(T, calls), Sending(T, calls, ln), ln # <<>>,
         e = [by |-> "S", char |-> Head(ln)]
  PROVE  /\ e \in Entries /\ Whole(Append(T, e), calls)
         /\ Sending(Append(T, e), calls, Tail(ln))
<1>. DEFINE F == Made(calls[Len(calls)])
            U == Append(T, e)
            L == Len(T)
<1>1. calls # <<>> /\ calls[Len(calls)] \in Calls /\ Len(calls) \in Nat
  BY DEF Sending
<1>2. /\ F \in Seq(Chars) /\ Len(F) >= 4
      /\ \A j \in 1 .. Len(F) : F[j] = LF <=> j = Len(F)
  BY <1>1, MadeWell
<1>3. PICK k \in Nat : /\ Sent(T, F, ln, k)
                       /\ IF k < Len(F) THEN Cardinality(Ends(T)) = Len(calls) - 1
                                        ELSE Resting(T, calls)
  BY DEF Sending
<1>. HIDE DEF F
<1>4. /\ k \in 0 .. L /\ k <= Len(F) /\ ln = SubSeq(F, k + 1, Len(F))
      /\ \A j \in 1 .. k : T[L - k + j] = [by |-> "S", char |-> F[j]]
      /\ L - k \notin Open(T)
      /\ L \in Nat /\ Len(F) \in Nat
  BY <1>2, <1>3 DEF Sent
<1>5. k < Len(F)
  <2>. SUFFICES ASSUME k = Len(F) PROVE FALSE
    BY <1>4, SMT
  <2>1. SubSeq(F, Len(F) + 1, Len(F)) = <<>>
    BY <1>2
  <2>. QED  BY <1>4, <2>1
<1>6. /\ Head(ln) = F[k + 1] /\ Tail(ln) = SubSeq(F, (k + 1) + 1, Len(F))
      /\ k + 1 \in 1 .. Len(F)
  <2>1. k + 1 \in 1 .. Len(F) /\ k + 1 <= Len(F)
    BY <1>4, <1>5, SMT
  <2>2. Head(SubSeq(F, k + 1, Len(F))) = F[k + 1]
    BY <1>2, <2>1
  <2>3. Tail(SubSeq(F, k + 1, Len(F))) = SubSeq(F, (k + 1) + 1, Len(F))
    BY <1>2, <2>1
  <2>. QED  BY <1>4, <2>1, <2>2, <2>3
<1>7. e.by = "S" /\ e.char = F[k + 1] /\ e \in Entries
  <2>1. F[k + 1] \in Chars
    BY <1>2, <1>6
  <2>. QED  BY <1>6, <2>1 DEF Entries, Writers
<1>8. /\ Len(U) = L + 1 /\ U[L + 1] = e /\ \A i \in 1 .. L : U[i] = T[i]
  BY <1>7
<1>9. Open(T) \subseteq 1 .. L
  BY EndsFinite DEF Open
<1>10. ASSUME Open(U) \in {Open(T), Open(T) \cup {L + 1}}
       PROVE  Sent(U, F, Tail(ln), k + 1)
  <2>. HIDE DEF U
  <2>1. k + 1 \in 0 .. Len(U) /\ k + 1 <= Len(F) /\ Len(U) - (k + 1) = L - k
    BY <1>4, <1>5, <1>8, SMT
  <2>2. L - k \notin Open(U)
    <3>1. L - k # L + 1
      BY <1>4, SMT
    <3>. QED  BY <1>4, <1>10, <3>1
  <2>3. ASSUME NEW j \in 1 .. k + 1
        PROVE  U[L - k + j] = [by |-> "S", char |-> F[j]]
    <3>1. CASE j \in 1 .. k
      <4>1. L - k + j \in 1 .. L
        BY <1>4, <3>1, SMT
      <4>. QED  BY <1>4, <1>8, <3>1, <4>1
    <3>2. CASE j = k + 1
      <4>1. L - k + j = L + 1
        BY <1>4, <3>2, SMT
      <4>. QED  BY <1>6, <1>8, <3>2, <4>1
    <3>3. j \in 1 .. k \/ j = k + 1
      BY SMT
    <3>. QED  BY <3>1, <3>2, <3>3
  <2>. QED  BY <1>6, <2>1, <2>2, <2>3 DEF Sent
<1>11. CASE k + 1 < Len(F)
  <2>1. e.char # LF
    <3>1. k + 1 # Len(F)
      BY <1>4, <1>11, SMT
    <3>. QED  BY <1>2, <1>6, <1>7, <3>1
  <2>2. /\ Whole(U, calls) /\ Ends(U) = Ends(T) /\ Open(U) = Open(T) \cup {L + 1}
    BY <1>7, <2>1, WholeInside
  <2>. HIDE DEF U
  <2>3. Sent(U, F, Tail(ln), k + 1) /\ Cardinality(Ends(U)) = Len(calls) - 1
    BY <1>3, <1>5, <1>10, <2>2
  <2>4. k + 1 \in Nat
    OBVIOUS
  <2>5. Sending(U, calls, Tail(ln))
    BY <1>1, <1>11, <2>3, <2>4 DEF Sending, F
  <2>. QED  BY <1>7, <2>2, <2>5 DEF U
<1>12. CASE ~(k + 1 < Len(F))
  <2>1. Len(F) = k + 1
    BY <1>4, <1>5, <1>12, SMT
  <2>2. F[k + 1] = LF /\ \A j \in 1 .. k : F[j] # LF
    <3>1. \A j \in 1 .. k : j \in 1 .. Len(F) /\ j # Len(F)
      BY <1>4, <2>1, SMT
    <3>. QED  BY <1>2, <1>6, <2>1, <3>1
  <2>3. F = Made(calls[Len(calls)])
    BY DEF F
  <2>4. Cardinality(Ends(T)) = Len(calls) - 1
    BY <1>3, <1>5
  <2>5. /\ Whole(U, calls) /\ Cardinality(Ends(U)) = Len(calls) /\ Open(U) = Open(T)
    <3>1. k \in 0 .. Len(T) /\ F \in Seq(Chars) /\ e \in Entries
      BY <1>2, <1>4, <1>7
    <3>2. e.by = "S" /\ e.char = LF
      BY <1>7, <2>2
    <3>3. \A j \in 1 .. k : F[j] # LF /\ T[Len(T) - k + j] = [by |-> "S", char |-> F[j]]
      BY <1>4, <2>2
    <3>4. Len(T) - k \notin Open(T)
      BY <1>4
    <3>. QED  BY <1>1, <2>1, <2>2, <2>3, <2>4, <3>1, <3>2, <3>3, <3>4, WholeAtEnd, Zenon
  <2>. HIDE DEF U
  <2>6. Len(U) \notin Open(U)
    <3>1. L + 1 \notin 1 .. L
      BY <1>4, SMT
    <3>. QED  BY <1>8, <1>9, <2>5, <3>1
  <2>7. Sent(U, F, Tail(ln), k + 1) /\ k + 1 \in Nat
    BY <1>10, <2>5
  <2>8. Sending(U, calls, Tail(ln))
    BY <1>1, <1>12, <2>5, <2>6, <2>7 DEF Sending, Resting, F
  <2>. QED  BY <1>7, <2>5, <2>8 DEF U
<1>. QED  BY <1>11, <1>12

\* A new line, nothing of which has been sent.
LEMMA NewLine ==
  ASSUME NEW T \in Seq(Entries), NEW calls \in Seq(Calls), NEW c \in Calls, Resting(T, calls)
  PROVE  Sending(T, Append(calls, c), Made(c))
<1>1. /\ Append(calls, c) # <<>> /\ Len(Append(calls, c)) = Len(calls) + 1 /\ Len(calls) \in Nat
      /\ Append(calls, c)[Len(calls) + 1] = c
  OBVIOUS
<1>2. Made(c) \in Seq(Chars) /\ Len(Made(c)) >= 4
  BY MadeWell
<1>3. Made(c) = SubSeq(Made(c), 0 + 1, Len(Made(c)))
  BY <1>2
<1>4. /\ 0 \in 0 .. Len(T) /\ Len(T) - 0 = Len(T) /\ 0 < Len(Made(c)) /\ 0 <= Len(Made(c))
      /\ \A j \in 1 .. 0 : FALSE /\ Len(calls) + 1 - 1 = Len(calls)
  BY <1>1, <1>2
<1>5. Sent(T, Made(c), Made(c), 0)
  BY <1>3, <1>4 DEF Sent, Resting
<1>6. Cardinality(Ends(T)) = Len(Append(calls, c)) - 1
  BY <1>1 DEF Resting
<1>7. \E k \in Nat : /\ Sent(T, Made(c), Made(c), k)
                     /\ IF k < Len(Made(c)) THEN Cardinality(Ends(T)) = Len(Append(calls, c)) - 1
                                            ELSE Resting(T, Append(calls, c))
  BY <1>4, <1>5, <1>6
<1>. QED  BY <1>1, <1>7 DEF Sending

\* Nothing is left to send: the line has ended.
LEMMA LineSent ==
  ASSUME NEW T, NEW calls \in Seq(Calls), Sending(T, calls, <<>>)
  PROVE  Resting(T, calls)
<1>. DEFINE F == Made(calls[Len(calls)])
<1>1. calls[Len(calls)] \in Calls
  BY DEF Sending
<1>2. F \in Seq(Chars)
  BY <1>1, MadeWell
<1>3. PICK k \in Nat : /\ Sent(T, F, <<>>, k)
                       /\ IF k < Len(F) THEN Cardinality(Ends(T)) = Len(calls) - 1
                                        ELSE Resting(T, calls)
  BY DEF Sending
<1>. HIDE DEF F
<1>4. k <= Len(F) /\ SubSeq(F, k + 1, Len(F)) = <<>>
  BY <1>3 DEF Sent
<1>5. ~(k < Len(F))
  <2>. SUFFICES ASSUME k < Len(F) PROVE FALSE
    OBVIOUS
  <2>1. Len(SubSeq(F, k + 1, Len(F))) = Len(F) - k
    BY <1>2
  <2>2. Len(<<>>) = 0 /\ Len(F) \in Nat
    BY <1>2
  <2>3. Len(F) - k = 0
    BY <1>4, <2>1, <2>2, Zenon
  <2>. QED  BY <2>2, <2>3, SMT
<1>. QED  BY <1>3, <1>5
-----------------------------------------------------------------------------
(***************************************************************************)
(* The inductive invariant: what has ended is whole, and the line under    *)
(* way, if S is in uart_puts, continues what is at the end of the stream.  *)
(***************************************************************************)
TypeInv ==
    /\ wire \in Seq(Entries) /\ fifo \in Seq(Entries)
    /\ printed \in Seq(Calls)
    /\ s \in {"start", "run", "puts", "yielded"}

LineInv ==
    /\ TypeInv
    /\ Whole(Stream, printed)
    /\ s = "puts" => Sending(Stream, printed, line)
    /\ s # "puts" => Resting(Stream, printed)
    /\ s = "start" => Sec(Stream) = {} /\ printed = <<>>

LEMMA StreamType == TypeInv => Stream \in Seq(Entries)
  BY DEF TypeInv, Stream

\* A byte enters the FIFO, a byte leaves it for the wire.
LEMMA StreamGrows ==
  ASSUME NEW T \in Seq(Entries), NEW U \in Seq(Entries), NEW e \in Entries
  PROVE  T \o Append(U, e) = Append(T \o U, e)
<1>. DEFINE A == T \o Append(U, e)
            B == Append(T \o U, e)
<1>1. A \in Seq(Entries) /\ B \in Seq(Entries) /\ Len(A) = Len(T) + Len(U) + 1 /\ Len(B) = Len(A)
  OBVIOUS
<1>2. \A i \in 1 .. Len(A) : A[i] = B[i]
  OBVIOUS
<1>. HIDE DEF A, B
<1>3. A = B
  BY <1>1, <1>2
<1>. QED  BY <1>3 DEF A, B

LEMMA StreamStays ==
  ASSUME NEW T \in Seq(Entries), NEW U \in Seq(Entries), U # <<>>
  PROVE  /\ Append(T, Head(U)) \o Tail(U) = T \o U
         /\ Append(T, Head(U)) \in Seq(Entries) /\ Tail(U) \in Seq(Entries)
<1>. DEFINE A == Append(T, Head(U)) \o Tail(U)
            B == T \o U
<1>1. /\ Head(U) \in Entries /\ Tail(U) \in Seq(Entries)
      /\ Len(Tail(U)) = Len(U) - 1 /\ Len(U) \in Nat \ {0}
      /\ \A i \in 1 .. Len(U) - 1 : Tail(U)[i] = U[i + 1]
      /\ Head(U) = U[1]
  OBVIOUS
<1>2. /\ A \in Seq(Entries) /\ B \in Seq(Entries)
      /\ Len(A) = Len(T) + Len(U) /\ Len(B) = Len(A) /\ Len(T) \in Nat
  BY <1>1
<1>3. ASSUME NEW i \in 1 .. Len(A) PROVE A[i] = B[i]
  <2>1. CASE i \in 1 .. Len(T)
    BY <1>1, <2>1
  <2>2. CASE i = Len(T) + 1
    BY <1>1, <2>2
  <2>3. CASE i \in Len(T) + 2 .. Len(A)
    <3>1. A[i] = Tail(U)[i - (Len(T) + 1)]
      BY <1>1, <1>2, <2>3
    <3>2. i - (Len(T) + 1) \in 1 .. Len(U) - 1 /\ i - (Len(T) + 1) + 1 = i - Len(T)
      BY <1>1, <1>2, <2>3, SMT
    <3>3. B[i] = U[i - Len(T)]
      BY <1>1, <1>2, <2>3
    <3>. QED  BY <1>1, <3>1, <3>2, <3>3
  <2>. QED  BY <1>2, <2>1, <2>2, <2>3
<1>. HIDE DEF A, B
<1>4. A = B
  BY <1>2, <1>3
<1>. QED  BY <1>1, <1>4 DEF A, B

\* Before S has printed anything.
LEMMA NoByteOfS ==
  ASSUME NEW T \in Seq(Entries), Sec(T) = {}
  PROVE  /\ Whole(T, <<>>) /\ Resting(T, <<>>)
<1>1. Ends(T) = {} /\ Open(T) = {}
  BY DEF Ends, Open
<1>2. Cardinality(Ends(T)) = 0
  BY <1>1, FS_EmptySet
<1>. QED  BY <1>1, <1>2 DEF Whole, Together, AsMade, Resting

\* The actions, one by one.
LEMMA InitLines == Init => LineInv
<1>. SUFFICES ASSUME Init PROVE LineInv
  OBVIOUS
<1>. DEFINE e == [by |-> "boot", char |-> Text]
<1>1. e \in Entries
  BY LineFeeds DEF Entries, Writers
<1>2. wire = <<>> /\ printed = <<>> /\ s = "start" /\ fifo \in {<<>>, <<e>>}
  BY DEF Init
<1>3. fifo \in Seq(Entries)
  <2>1. \A x \in Entries : <<>> \in Seq(Entries) /\ <<x>> \in Seq(Entries)
    OBVIOUS
  <2>. QED  BY <1>1, <1>2, <2>1, Zenon
<1>4. TypeInv
  BY <1>2, <1>3 DEF TypeInv
<1>5. Stream = fifo /\ \A i \in DOMAIN fifo : fifo[i].by # "S"
  <2>1. Stream = fifo
    BY <1>2, <1>3 DEF Stream
  <2>2. CASE fifo = <<>>
    BY <2>1, <2>2
  <2>3. CASE fifo = <<e>>
    BY <2>1, <2>3
  <2>. QED  BY <1>2, <2>2, <2>3
<1>6. Sec(Stream) = {}
  BY <1>5 DEF Sec
<1>7. Whole(Stream, printed) /\ Resting(Stream, printed)
  BY <1>2, <1>4, <1>6, StreamType, NoByteOfS
<1>. QED  BY <1>2, <1>4, <1>6, <1>7 DEF LineInv

LEMMA TransmitKeepsLines == ASSUME LineInv, Transmit PROVE LineInv'
<1>1. /\ fifo # <<>> /\ wire' = Append(wire, Head(fifo)) /\ fifo' = Tail(fifo)
      /\ s' = s /\ line' = line /\ printed' = printed
  BY DEF Transmit
<1>2. /\ wire \in Seq(Entries) /\ fifo \in Seq(Entries)
  BY DEF LineInv, TypeInv
<1>3. Stream' = Stream /\ wire' \in Seq(Entries) /\ fifo' \in Seq(Entries)
  BY <1>1, <1>2, StreamStays DEF Stream
<1>. QED  BY <1>1, <1>3 DEF LineInv, TypeInv

LEMMA InitialisedKeepsLines == ASSUME LineInv, uart_init PROVE LineInv'
<1>1. /\ s = "start" /\ s' = "run" /\ fifo' = <<>> /\ wire' = wire /\ printed' = printed
  BY DEF uart_init
<1>2. /\ wire \in Seq(Entries) /\ fifo \in Seq(Entries) /\ printed = <<>> /\ Sec(Stream) = {}
  BY <1>1 DEF LineInv, TypeInv
<1>3. Stream' = wire
  BY <1>1, <1>2 DEF Stream
<1>4. Sec(wire) = {}
  <2>1. \A i \in DOMAIN wire : i \in DOMAIN Stream /\ Stream[i] = wire[i]
    BY <1>2 DEF Stream
  <2>. QED  BY <1>2, <2>1 DEF Sec
<1>5. Whole(wire, <<>>) /\ Resting(wire, <<>>)
  BY <1>2, <1>4, NoByteOfS
<1>6. TypeInv'
  BY <1>1, <1>2 DEF LineInv, TypeInv
<1>. QED  BY <1>1, <1>2, <1>3, <1>5, <1>6 DEF LineInv

LEMMA PrintkKeepsLines == ASSUME LineInv, printk PROVE LineInv'
<1>1. PICK n \in Numbers, cp \in Conversions :
        /\ line' = vsprintk(n, cp[1], cp[2])
        /\ printed' = Append(printed, <<n, cp[1], cp[2]>>)
  BY DEF printk
<1>. DEFINE c == <<n, cp[1], cp[2]>>
<1>2. c \in Calls /\ line' = Made(c)
  BY <1>1 DEF Calls, Made
<1>3. s = "run" /\ s' = "puts" /\ fifo' = fifo /\ wire' = wire
  BY DEF printk
<1>. HIDE DEF c
<1>4. printed' = Append(printed, c) /\ Stream' = Stream
  BY <1>1, <1>3 DEF c, Stream
<1>5. printed \in Seq(Calls) /\ printed' \in Seq(Calls) /\ Stream \in Seq(Entries)
  BY <1>2, <1>4, StreamType DEF LineInv, TypeInv
<1>6. Whole(Stream, printed) /\ Resting(Stream, printed)
  BY <1>3 DEF LineInv
<1>7. Whole(Stream, printed')
  BY <1>2, <1>4, <1>5, <1>6, OneMoreCall DEF Whole
<1>8. Sending(Stream, printed', line')
  BY <1>2, <1>4, <1>5, <1>6, NewLine
<1>9. TypeInv'
  BY <1>3, <1>5 DEF LineInv, TypeInv
<1>. QED  BY <1>3, <1>4, <1>7, <1>8, <1>9 DEF LineInv

LEMMA PutcKeepsLines == ASSUME LineInv, uart_putc PROVE LineInv'
<1>. DEFINE e == [by |-> "S", char |-> Head(line)]
<1>1. /\ s = "puts" /\ line # <<>> /\ s' = s /\ wire' = wire /\ printed' = printed
      /\ line' = Tail(line) /\ fifo' = Append(fifo, e)
  BY DEF uart_putc, Write
<1>2. /\ printed \in Seq(Calls) /\ Stream \in Seq(Entries)
      /\ wire \in Seq(Entries) /\ fifo \in Seq(Entries)
      /\ Whole(Stream, printed) /\ Sending(Stream, printed, line)
  BY <1>1, StreamType DEF LineInv, TypeInv
<1>3. /\ e \in Entries /\ Whole(Append(Stream, e), printed)
      /\ Sending(Append(Stream, e), printed, Tail(line))
  BY <1>1, <1>2, SendOne
<1>. HIDE DEF e
<1>4. Stream' = Append(Stream, e) /\ fifo' \in Seq(Entries)
  BY <1>1, <1>2, <1>3, StreamGrows DEF Stream
<1>5. TypeInv'
  BY <1>1, <1>2, <1>4 DEF TypeInv
<1>. QED  BY <1>1, <1>3, <1>4, <1>5 DEF LineInv

LEMMA YieldKeepsLines == ASSUME LineInv, Yield PROVE LineInv'
<1>1. /\ s = "puts" /\ line = <<>> /\ s' = "yielded" /\ wire' = wire /\ fifo' = fifo
      /\ printed' = printed /\ Stream' = Stream
  BY DEF Yield, Stream
<1>2. printed \in Seq(Calls) /\ Sending(Stream, printed, <<>>)
  BY <1>1 DEF LineInv, TypeInv
<1>3. Resting(Stream, printed)
  BY <1>2, LineSent
<1>. QED  BY <1>1, <1>3 DEF LineInv, TypeInv

LEMMA WriteRegKeepsLines ==
  ASSUME LineInv, NEW t \in Threads, XUartPs_WriteReg(t)
  PROVE  LineInv'
<1>. DEFINE e == [by |-> t, char |-> Text]
<1>1. /\ s = "yielded" /\ s' = s /\ wire' = wire /\ printed' = printed
      /\ fifo' \in {fifo, Append(fifo, e)}
  BY DEF XUartPs_WriteReg, Write
<1>2. /\ Stream \in Seq(Entries) /\ wire \in Seq(Entries) /\ fifo \in Seq(Entries)
      /\ Whole(Stream, printed) /\ Resting(Stream, printed)
  BY <1>1, StreamType DEF LineInv, TypeInv
<1>3. e \in Entries /\ e.by # "S"
  BY LineFeeds, ConsoleAssumption DEF Entries, Writers, ConsoleAssumption
<1>. HIDE DEF e
<1>4. CASE fifo' = fifo
  <2>1. Stream' = Stream
    BY <1>1, <1>4 DEF Stream
  <2>. QED  BY <1>1, <1>4, <2>1 DEF LineInv, TypeInv
<1>5. CASE fifo' = Append(fifo, e)
  <2>1. Stream' = Append(Stream, e) /\ fifo' \in Seq(Entries)
    BY <1>1, <1>2, <1>3, <1>5, StreamGrows DEF Stream
  <2>2. /\ Whole(Stream', printed) /\ Ends(Stream') = Ends(Stream) /\ Open(Stream') = Open(Stream)
    BY <1>2, <1>3, <2>1, WholeAfterOther DEF Resting
  <2>3. Len(Stream') \notin Open(Stream')
    <3>1. Len(Stream') = Len(Stream) + 1 /\ Len(Stream) \in Nat
      BY <1>2, <1>3, <2>1
    <3>2. Open(Stream) \subseteq 1 .. Len(Stream)
      BY <1>2, EndsFinite DEF Open
    <3>3. Len(Stream) + 1 \notin 1 .. Len(Stream)
      BY <3>1, SMT
    <3>. QED  BY <2>2, <3>1, <3>2, <3>3
  <2>4. Resting(Stream', printed')
    BY <1>1, <1>2, <2>2, <2>3 DEF Resting
  <2>5. TypeInv'
    BY <1>1, <2>1 DEF LineInv, TypeInv
  <2>. QED  BY <1>1, <2>2, <2>4, <2>5 DEF LineInv
<1>. QED  BY <1>1, <1>4, <1>5

LEMMA LinesKept == LineInv /\ [Next]_vars => LineInv'
<1>. SUFFICES ASSUME LineInv, [Next]_vars PROVE LineInv'
  OBVIOUS
<1>1. CASE Transmit \/ uart_init \/ printk \/ uart_putc \/ Yield
  BY <1>1, TransmitKeepsLines, InitialisedKeepsLines, PrintkKeepsLines, PutcKeepsLines,
     YieldKeepsLines
<1>2. CASE \E t \in Threads : XUartPs_WriteReg(t)
  BY <1>2, WriteRegKeepsLines
<1>3. CASE Fiq \/ (\E t \in Threads : XUartPs_IsTransmitFull(t)) \/ UNCHANGED vars
  <2>1. /\ fifo' = fifo /\ wire' = wire /\ printed' = printed /\ line' = line
        /\ s' = s \/ (s = "yielded" /\ s' = "run")
    BY <1>3 DEF Fiq, XUartPs_IsTransmitFull, vars
  <2>2. Stream' = Stream
    BY <2>1 DEF Stream
  <2>. QED  BY <2>1, <2>2 DEF LineInv, TypeInv
<1>. QED  BY <1>1, <1>2, <1>3 DEF Next

LEMMA LinesAreWhole == LineInv => SecureLinesWhole
<1>. SUFFICES ASSUME LineInv PROVE SecureLinesWhole
  OBVIOUS
<1>1. Stream \in Seq(Entries) /\ printed \in Seq(Calls) /\ Whole(Stream, printed)
  BY StreamType DEF LineInv, TypeInv
<1>2. OfS = Sec(Stream) /\ {i \in OfS : Stream[i].char = LF} = Ends(Stream)
  BY DEF OfS, Sec, Ends
<1>3. \A i \in Sec(Stream) \ Ends(Stream) : i + 1 \in DOMAIN Stream => i + 1 \in Sec(Stream)
  BY <1>1 DEF Whole, Together, Open
<1>4. s # "puts" => Cardinality(Ends(Stream)) = Len(printed)
  BY DEF LineInv, Resting
<1>5. ASSUME NEW i \in Ends(Stream)
      PROVE  IsLine(Cut(Stream, i), printed[Cardinality(UpTo(Stream, i))])
  <2>. DEFINE k == Cardinality(UpTo(Stream, i))
  <2>1. k \in 1 .. Len(printed) /\ Cut(Stream, i) = Made(printed[k])
    BY <1>1 DEF Whole, AsMade
  <2>2. printed[k] \in Calls
    BY <1>1, <2>1
  <2>. QED  BY <2>1, <2>2, MadeWell
<1>6. Len(printed) - 0 = Len(printed)
  BY <1>1
<1>. QED  BY <1>2, <1>3, <1>4, <1>5, <1>6 DEF SecureLinesWhole, UpTo, Cut, Begin, Open

\* Each line of S arrives whole and in one piece and reads as the number it was
\* given, whichever bytes of NS are lost or come in between two lines, for any
\* depth of the FIFO, any threads, and any schedule (uart_putc, vsprintk).
THEOREM SecureLinesArriveWhole == Spec => []SecureLinesWhole
<1>1. Spec => []LineInv
  BY InitLines, LinesKept, PTL DEF Spec
<1>. QED  BY <1>1, LinesAreWhole, PTL
-----------------------------------------------------------------------------
(***************************************************************************)
(* What PrintkReturns needs of the states.                                 *)
(***************************************************************************)
\* Transmit can take place.
CanTransmit == "TXEN" \in control /\ "TXDIS" \notin control /\ fifo # <<>>

PathInv == "TXEN" \in control /\ "TXDIS" \notin control

LEMMA PathKept == PathInv /\ [Next]_vars => PathInv'
<1>. SUFFICES ASSUME PathInv, [Next]_vars PROVE PathInv'
  OBVIOUS
<1>1. CASE uart_init
  BY <1>1 DEF uart_init, uart_set_baud_rate, PathInv
<1>2. CASE ~uart_init
  <2>1. control' = control
    BY <1>2 DEF Next, vars, Transmit, printk, uart_putc, Yield, Fiq,
                XUartPs_IsTransmitFull, XUartPs_WriteReg
  <2>. QED  BY <2>1 DEF PathInv
<1>. QED  BY <1>1, <1>2

\* S never polls a FIFO that cannot become empty: while it is in uart_puts it
\* has a character to write and room for it, or the transmitter is about to
\* make room, or the line is out and printk returns (uart_init leaves the
\* transmit path enabled, uart_putc).
THEOREM PutsNeverStuck ==
    Spec => [](s = "puts" => \/ line = <<>>
                             \/ ~Full
                             \/ CanTransmit)
<1>1. Init => PathInv
  BY DEF Init, PathInv
<1>2. PathInv => (s = "puts" => line = <<>> \/ ~Full \/ CanTransmit)
  <2>. SUFFICES ASSUME PathInv, Full PROVE fifo # <<>>
    BY DEF PathInv, CanTransmit
  <2>1. Len(<<>>) = 0
    OBVIOUS
  <2>. QED  BY <2>1, DepthIsPositive DEF Full
<1>. QED  BY <1>1, <1>2, PathKept, PTL DEF Spec
=============================================================================
