----------------------------- MODULE MCGicDriver -----------------------------
(***************************************************************************)
(* Instances of GicDriver for TLC: the words of the tick, of the timers of *)
(* NS and of SPI 1, which UART 1 shares; the registers as reset leaves     *)
(* them, and with everything set the wrong way round.                      *)
(***************************************************************************)
EXTENDS GicDriver

MCInts == {SCUTIMER, TTC0_2, GEM0, TTC1_1, TTC1_2, SPI_1, UART_1}

ResetRegs ==
    [isr |-> {}, ise |-> {}, ipr |-> [i \in MCInts |-> 0], iptr |-> {},
     level |-> MCInts, pmr |-> 0, dist |-> FALSE, intf |-> FALSE]

LoaderRegs ==
    [isr |-> MCInts, ise |-> MCInts, ipr |-> [i \in MCInts |-> 15],
     iptr |-> MCInts, level |-> {}, pmr |-> 15, dist |-> TRUE, intf |-> TRUE]

\* The tick of NS, UART 1, and SPI 1, which is not its own.
MCNsInts == {TTC1_2, UART_1, SPI_1}

MCBoots == {ResetRegs, LoaderRegs}

\* hw_init_2, a setting of the neighbour of SPI 1, and the critical section.
MCLaterCalls ==
    {HwInit2[n] : n \in 1..3} \cup
    {Call("priority_set", UART_1, 0), Call("target_set", UART_1, 0),
     Call("critical_entry", 0, 0), Call("critical_exit", 0, 0)}
=============================================================================
