----------------------------- MODULE MCRtosPort -----------------------------
(***************************************************************************)
(* Instances of RtosPort for TLC.                                          *)
(***************************************************************************)
EXTENDS RtosPort

\* Priorities at or below the mask, the tick the least urgent.
MCMaskable == [i \in Irqs |-> IF i = Tick THEN 14 ELSE 12]

\* What tick.c and xemacpsif_dma.c pass: 14 << (70 % 32), 1 << (54 % 32).
MCProgrammed == [i \in Irqs |-> IF i = Tick THEN 14 * 2^6 ELSE 2^22]
=============================================================================
