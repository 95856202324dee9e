------------------------------- MODULE Console -------------------------------
(***************************************************************************)
(* The console: printk and the UART driver of the secure side              *)
(* (src/lib/printk.c, src/boards/zedboard/zynq_uart.c) and the output of   *)
(* the non-secure guest (xil_printf, outbyte), which write to the same     *)
(* UART 1.  S prints a line per round and yields; NS runs only while S has *)
(* yielded, and loses the CPU to a FIQ between any two instructions.  The  *)
(* threads of NS preempt each other as well.  Nobody holds a lock.         *)
(*                                                                         *)
(* A character is a digit (its value), CR, LF or Text, which stands for    *)
(* the ordinary characters of a format; these are copied one by one.       *)
(* Numbers stay below 2^31.  %s is left out: see the README.               *)
(***************************************************************************)
EXTENDS Integers, Sequences, FiniteSetsExt

CONSTANTS
    Numbers,        \* what S prints
    Conversions,    \* <<conversion, zero_padding>> of its formats
    Threads,        \* the threads of NS that print
    Depth,          \* of the transmit FIFO
    MaxLines,       \* lines of S
    MaxBytes        \* bytes of one thread of NS

ASSUME ConsoleAssumption ==
    /\ Numbers \subseteq 0 .. 2^30 + (2^30 - 1)
    /\ Conversions \subseteq {"d", "x", "o"} \X (1 .. 8)
    /\ "S" \notin Threads /\ "boot" \notin Threads
    /\ {Depth, MaxLines, MaxBytes} \subseteq Nat \ {0}

VARIABLES
    control,    \* the bits set in the control register of the UART
    fifo,       \* the transmit FIFO, oldest byte first
    wire,       \* the bytes that left the UART
    s,          \* where S is: "start", "run", "puts" or "yielded"
    line,       \* what uart_puts has still to send
    printed,    \* the calls of printk so far, <<number, conversion, padding>>
    at,         \* where each thread of NS is: "poll" or "write"
    written,    \* how many bytes each has written
    overtaken,  \* the threads that polled before somebody else wrote
    lost        \* bytes written to a full FIFO

vars == <<control, fifo, wire, s, line, printed, at, written, overtaken, lost>>
-----------------------------------------------------------------------------
(* vsprintk *)

CR == 16
LF == 17
Text == 18
Chars == 0 .. 18

Base == [d |-> 10, x |-> 16, o |-> 8]
Length == [d |-> 10, x |-> 8, o |-> 11]

\* The digit of place k, the most significant one being place 0: by repeated
\* subtraction for d, by shifts and masks for x and o.
Digit(n, b, l, k) == (n \div b^(l - 1 - k)) % b

\* keep_zeros is set by the first digit that is not 0; the last zero_padding
\* places are printed in any case.
\* Bug: zeros inside the number are lost.
DigitsZeroLost(n, b, l, p) ==
    SelectSeq([i \in 1 .. l |-> Digit(n, b, l, i - 1)], LAMBDA d : d # 0)
Digits(n, b, l, p) ==
    LET shown == {k \in 0 .. l - 1 : \/ \E j \in 0 .. k : Digit(n, b, l, j) # 0
                                     \/ k >= l - p}
    IN  [i \in 1 .. l - Min(shown) |-> Digit(n, b, l, Min(shown) + i - 1)]

\* The format: some text, the conversion, a newline, which becomes two
\* characters.
vsprintk(n, c, p) == <<Text>> \o Digits(n, Base[c], Length[c], p) \o <<CR, LF>>
-----------------------------------------------------------------------------
(* The UART *)

Full == Len(fifo) >= Depth

\* A write to tx_rx_fifo; the device drops what does not fit.
Write(by, c) ==
    /\ fifo' = IF Full THEN fifo ELSE Append(fifo, [by |-> by, char |-> c])
    /\ lost' = IF Full THEN lost + 1 ELSE lost
    /\ overtaken' = overtaken \cup {t \in Threads \ {by} : at[t] = "write"}

\* The transmitter shifts out a byte.
Transmit ==
    /\ "TXEN" \in control /\ "TXDIS" \notin control
    /\ fifo # <<>>
    /\ wire' = Append(wire, Head(fifo))
    /\ fifo' = Tail(fifo)
    /\ UNCHANGED <<control, s, line, printed, at, written, overtaken, lost>>

\* uart_set_baud_rate: three writes to the control register, each replacing
\* the one before; TXRES empties the FIFO and clears itself.
\* Bug: the paths are not enabled again.
BaudRateLeftDisabled == {"RXDIS", "TXDIS"}
uart_set_baud_rate == {"TXEN", "RXEN"}

\* uart_init, from ltzvisor_hw_init, before anything is printed.
uart_init ==
    /\ s = "start"
    /\ control' = uart_set_baud_rate \cup {"STPBRK"}
    /\ fifo' = <<>>
    /\ s' = "run"
    /\ UNCHANGED <<wire, line, printed, at, written, overtaken, lost>>
-----------------------------------------------------------------------------
(* S *)

printk ==
    /\ s = "run" /\ Len(printed) < MaxLines
    /\ \E n \in Numbers, cp \in Conversions :
        /\ line' = vsprintk(n, cp[1], cp[2])
        /\ printed' = Append(printed, <<n, cp[1], cp[2]>>)
    /\ s' = "puts"
    /\ UNCHANGED <<control, fifo, wire, at, written, overtaken, lost>>

\* uart_puts and uart_putc: one byte, as soon as the FIFO is not full.  NS does
\* not run in between, so that the poll and the write are one step.
uart_putc ==
    /\ s = "puts" /\ line # <<>> /\ ~Full
    /\ Write("S", Head(line))
    /\ line' = Tail(line)
    /\ UNCHANGED <<control, wire, s, printed, at, written>>

\* The end of printk, and YIELD.
Yield ==
    /\ s = "puts" /\ line = <<>>
    /\ s' = "yielded"
    /\ UNCHANGED <<control, fifo, wire, line, printed, at, written, overtaken, lost>>

\* The FIQ that brings S back for its next round, wherever NS is.
Fiq ==
    /\ s = "yielded"
    /\ s' = "run"
    /\ UNCHANGED <<control, fifo, wire, line, printed, at, written, overtaken, lost>>
-----------------------------------------------------------------------------
(* A thread of NS in XUartPs_SendByte: the poll, and then the write. *)

\* Bug: it does not wait.
SendWithoutPoll(t) ==
    /\ s = "yielded" /\ at[t] = "poll" /\ written[t] < MaxBytes
    /\ at' = [at EXCEPT ![t] = "write"]
    /\ overtaken' = overtaken \ {t}
    /\ UNCHANGED <<control, fifo, wire, s, line, printed, written, lost>>
XUartPs_IsTransmitFull(t) ==
    /\ s = "yielded" /\ at[t] = "poll" /\ written[t] < MaxBytes
    /\ ~Full
    /\ at' = [at EXCEPT ![t] = "write"]
    /\ overtaken' = overtaken \ {t}
    /\ UNCHANGED <<control, fifo, wire, s, line, printed, written, lost>>

XUartPs_WriteReg(t) ==
    /\ s = "yielded" /\ at[t] = "write"
    /\ Write(t, Text)
    /\ at' = [at EXCEPT ![t] = "poll"]
    /\ written' = [written EXCEPT ![t] = @ + 1]
    /\ UNCHANGED <<control, wire, s, line, printed>>
-----------------------------------------------------------------------------
\* The boot loader has used the UART and may have left a byte in the FIFO.
Init ==
    /\ control = {"TXEN", "RXEN"}
    /\ fifo \in {<<>>, <<[by |-> "boot", char |-> Text]>>}
    /\ wire = <<>>
    /\ s = "start"
    /\ line = <<>>
    /\ printed = <<>>
    /\ at = [t \in Threads |-> "poll"]
    /\ written = [t \in Threads |-> 0]
    /\ overtaken = {}
    /\ lost = 0

Secure == uart_init \/ printk \/ uart_putc \/ Yield

Next ==
    \/ Transmit
    \/ uart_init \/ printk \/ uart_putc \/ Yield \/ Fiq
    \/ \E t \in Threads : XUartPs_IsTransmitFull(t) \/ XUartPs_WriteReg(t)

Spec == Init /\ [][Next]_vars

\* The transmitter and the CPU that runs S go on by themselves.  Nothing is
\* asked of NS or of the tick.
FairSpec == Spec /\ WF_vars(Transmit) /\ WF_vars(Secure)
-----------------------------------------------------------------------------
\* What a reader makes of digits in the base b, from left to right.
Value(digits, b) ==
    LET read[i \in 0 .. Len(digits)] ==
            IF i = 0 THEN 0 ELSE read[i - 1] * b + digits[i]
    IN  read[Len(digits)]

\* Reference: these digits read n in the base b, they are at least p, and the
\* first one is 0 only where the padding asks for it.
Reads(digits, n, b, p) ==
    /\ Value(digits, b) = n
    /\ Len(digits) >= p
    /\ Len(digits) > p => Head(digits) # 0

\* A line as a reader of the console expects it of a call of printk.
IsLine(chars, call) ==
    /\ Len(chars) > 3
    /\ Head(chars) = Text
    /\ SubSeq(chars, Len(chars) - 1, Len(chars)) = <<CR, LF>>
    /\ Reads(SubSeq(chars, 2, Len(chars) - 2), call[1], Base[call[2]], call[3])

\* What has gone into the UART, and the positions of the bytes of S in it.
Stream == wire \o fifo
OfS == {i \in DOMAIN Stream : Stream[i].by = "S"}

\* The bytes of a line of S stay together, whatever NS was about to write when
\* S took the CPU; and each line that was printed arrives whole and reads as
\* the number it was given, whatever is lost of the output of NS (printk.c,
\* uart_putc).
SecureLinesWhole ==
    LET newlines == {i \in OfS : Stream[i].char = LF}
        done == Len(printed) - (IF s = "puts" THEN 1 ELSE 0)
    IN  /\ \A i \in OfS \ newlines : i + 1 \in DOMAIN Stream => i + 1 \in OfS
        /\ s # "puts" => Cardinality(newlines) = done
        /\ \A i \in newlines :
            LET k == Cardinality({j \in newlines : j <= i})
                begin == Max({0} \cup {j \in 1 .. i - 1 : j \notin OfS \ newlines})
            IN  IsLine([j \in 1 .. i - begin |-> Stream[begin + j].char], printed[k])

\* A byte is lost only when its thread found room in the FIFO and somebody else
\* wrote before it did: S after a FIQ, or another thread (xuartps_hw.c, "blocks
\* until the data has been put into the TX FIFO register").
LossNeedsOvertaking ==
    [][lost' # lost => \E t \in overtaken : at[t] = "write" /\ at'[t] = "poll"]_vars

\* A call of printk comes back: the full FIFO is emptied while S waits for it,
\* and S then yields (uart_init, uart_putc).
PrintkReturns == (s = "puts") ~> (s = "yielded")
=============================================================================
