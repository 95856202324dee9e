------------------------------ MODULE ByteQueue ------------------------------
(***************************************************************************)
(* What the receive buffer of the SPI driver promises its reader: a        *)
(* bounded first-in first-out queue that drops what arrives while it is    *)
(* full and nothing else.  The reader and the writer take turns.           *)
(***************************************************************************)
EXTENDS Naturals, Sequences

CONSTANTS Byte, Capacity

VARIABLES
    queue,  \* the bytes received and not read yet
    got,    \* the byte the reader got last
    turn    \* who may operate on the queue

vars == <<queue, got, turn>>

Init ==
    /\ queue = <<>>
    /\ got \in Byte
    /\ turn = "reader"

Put(b) ==
    /\ turn = "writer"
    /\ queue' = IF Len(queue) < Capacity THEN Append(queue, b) ELSE queue
    /\ UNCHANGED <<got, turn>>

Get ==
    /\ turn = "reader"
    /\ queue # <<>>
    /\ got' = Head(queue)
    /\ queue' = Tail(queue)
    /\ UNCHANGED turn

\* The reader configures the driver anew.
Clear ==
    /\ turn = "reader"
    /\ queue' = <<>>
    /\ UNCHANGED <<got, turn>>

Pass ==
    /\ turn' \in {"reader", "writer"}
    /\ UNCHANGED <<queue, got>>

Next == Get \/ Clear \/ Pass \/ \E b \in Byte : Put(b)

Spec == Init /\ [][Next]_vars
=============================================================================
