-------------------------------- MODULE MCSpi --------------------------------
(***************************************************************************)
(* Instances of Spi for TLC.  The sizes keep the relations of the code's   *)
(* (RX_BUFF_SIZE 128, RX_THRES_VAL 6, a FIFO of 128 bytes): the threshold  *)
(* lies between one byte and a full FIFO, and the ring overflows.          *)
(***************************************************************************)
EXTENDS Spi
=============================================================================
