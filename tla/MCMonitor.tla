------------------------------ MODULE MCMonitor ------------------------------
(***************************************************************************)
(* Instances of Monitor for TLC.  A register bank holds a token that names *)
(* its world, its bank and one of Versions: a value that ends up in the    *)
(* wrong bank, in the wrong world or out of date is told apart.            *)
(***************************************************************************)
EXTENDS Monitor

CONSTANTS Versions

MCVals == {<<w, b, v>> : w \in Worlds, b \in Banks, v \in Versions}
MCMmio0 == CHOOSE x \in MCVals : TRUE
MCRegFiles ==
    [w \in Worlds |-> {[b \in Banks |-> <<w, b, v>>] : v \in Versions}]

\* One secure interrupt, the tick TTC1_2, as ltzvisor_hw.c of the zybo and
\* the zc702 configures; UART1 (82) belongs to NS, whose priorities lie in
\* the less urgent half.
TickPrio == [i \in {70, 82} |-> IF i = 70 THEN 5 ELSE 8]

\* The zedboard: TTC0_2 (43) and SPI1 (81) with the priorities of hw_init;
\* GEM0 (54) and TTC1_2 (70) belong to NS.
ZedboardPrio == [i \in {43, 81, 54, 70} |->
                    CASE i = 43 -> 5 [] i = 81 -> 4 [] OTHER -> 8]

\* The zedboard with one priority for both secure interrupts, and GEM0 as the
\* interrupt of NS.
EqualPrio == [i \in {43, 81, 54} |-> IF i = 54 THEN 8 ELSE 5]

\* hw_init and hw_init_2: TTC1_1 (69), which interrupt_security_configall
\* leaves to NS, is given the priority 2 by the secure side.
HwInit2Prio == [i \in {43, 69} |-> IF i = 43 THEN 5 ELSE 2]

\* Monitor, with the fairness of the tick TTC0_2.
FairTick == Spec /\ Fairness(43)
=============================================================================
