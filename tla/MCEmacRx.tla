------------------------------ MODULE MCEmacRx ------------------------------
(***************************************************************************)
(* An instance of EmacRx for TLC: two descriptors, so that the ring wraps. *)
(***************************************************************************)
EXTENDS EmacRx

\* As many pbufs as the ring, the queue, the thread and lwIP can hold.
MCEnough == 1..(N + PQ_QUEUE_SIZE + 1 + Mbox)
=============================================================================
