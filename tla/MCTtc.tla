-------------------------------- MODULE MCTtc --------------------------------
(***************************************************************************)
(* Instances of Ttc for TLC: the tick of S, a timer the argument checks    *)
(* refuse although the interrupt handler serves it, and the boundaries of  *)
(* the ranges of ttc_request.                                              *)
(***************************************************************************)
EXTENDS Ttc

MCTimers == {<<0, 1>>, <<1, 2>>}
MCTimes == {0, 1, 2, 999, 1000, 1001, 10000, 1000000, 1000001}
=============================================================================
