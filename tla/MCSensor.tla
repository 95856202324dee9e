------------------------------ MODULE MCSensor -------------------------------
(***************************************************************************)
(* An instance of Sensor for TLC.                                          *)
(***************************************************************************)
EXTENDS Sensor

\* Larger than every sample, so that it would be taken for a late one.
MCJunk == MaxSample + 1
=============================================================================
