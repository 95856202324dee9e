------------------------------- MODULE EmacRx -------------------------------
(***************************************************************************)
(* The receive path of the Ethernet driver in the non-secure guest: the    *)
(* ring of buffer descriptors shared with the DMA (xemacps_bdring.c), the  *)
(* interrupt handler that empties and refills it (xemacps_intr.c,          *)
(* xemacpsif_dma.c, xemacpsif_hw.c), the queue it fills (xpqueue.c) and    *)
(* the thread that hands packets to lwIP (xemacpsif.c, xadapter.c).        *)
(*                                                                         *)
(* The DMA runs beside the CPU.  On the CPU the interrupt handler runs     *)
(* before the thread, which takes a packet with interrupts off, so the     *)
(* steps of the handler interleave with those of the DMA only.  A frame    *)
(* fits into one buffer.                                                   *)
(*                                                                         *)
(* Between calls PreCnt and PostCnt are 0, PreHead is FreeHead and         *)
(* PostHead is HwHead, because every Alloc is followed by a ToHw and every *)
(* FromHwRx by a Free: they are left out.  A negative HwCnt stands for one *)
(* that has wrapped round.                                                 *)
(***************************************************************************)
EXTENDS Integers, Sequences, FiniteSets

CONSTANTS
    N,              \* XLWIP_CONFIG_N_RX_DESC
    PQ_QUEUE_SIZE,
    Mbox,           \* the packets lwIP accepts before it refuses one
    Pbufs,          \* the pbufs of the pool
    Null,           \* no pbuf; address 0 in a descriptor
    MaxFrames       \* bound: the frames on the wire

ASSUME SizesAssumption ==
    /\ N \in Nat \ {0} /\ PQ_QUEUE_SIZE \in Nat \ {0}
    /\ Mbox \in Nat /\ MaxFrames \in Nat

VARIABLES
    bd,             \* the descriptors: new/used bit and address
    rx_pbufs_storage,
    HwHead, HwCnt, FreeHead, FreeCnt,
    word,           \* the new bit as XEmacPs_BdSetAddressRx has read it
    erased,         \* history: the write has erased a new bit of the DMA
    dma,            \* the descriptor the DMA uses next
    wire,           \* the frames that have arrived, by number
    content,        \* the frame in each pbuf, 0 for none
    isr, rxsr,      \* the interrupt and the receive status register
    todo,           \* the calls the interrupt handler still has to make
    pool,           \* the free pbufs
    recv_q,
    sem,            \* sem_rx_data_available, binary
    thread,         \* where xemacif_input_thread is
    p,              \* the pbuf in its hand
    stack,          \* the pbufs lwIP holds
    handed          \* the last frame that was handed on

ring == <<HwHead, HwCnt, FreeHead, FreeCnt, word, erased>>
descriptors == <<bd, rx_pbufs_storage>>
device == <<dma, wire, isr, rxsr>>
consumer == <<sem, thread, p, stack, handed>>
vars == <<ring, descriptors, device, content, todo, pool, recv_q, consumer>>

Bds == 0..(N - 1)

\* The pool has a pbuf for each descriptor.
Distinct(f) == \A i, j \in Bds : f[i] = f[j] => i = j
ASSUME PbufsAssumption ==
    Null \notin Pbufs /\ \E f \in [Bds -> Pbufs] : Distinct(f)

XEmacPs_BdRingNext(i, k) == (i + k) % N

\* What an interrupt has to do: "recv" is emacps_recv_handler, "loop" its
\* loop, "setup" is setup_rx_bds, "address" the rest of one of its rounds,
\* XEmacPs_BdSetAddressRx.
Calls == {"recv", "loop", "setup", "address", "signal", "error"}

-----------------------------------------------------------------------------
\* Which of the free pbufs pbuf_alloc returns makes no difference below.
pbuf_alloc == CHOOSE b \in pool : TRUE

\* init_dma has given every descriptor a pbuf.
Init ==
    /\ rx_pbufs_storage = CHOOSE f \in [Bds -> Pbufs] : Distinct(f)
    /\ bd = [i \in Bds |-> [new |-> FALSE, addr |-> rx_pbufs_storage[i]]]
    /\ pool = Pbufs \ {rx_pbufs_storage[i] : i \in Bds}
    /\ HwHead = 0 /\ HwCnt = N /\ FreeHead = 0 /\ FreeCnt = 0
    /\ word = "unread" /\ erased = FALSE
    /\ dma = 0 /\ wire = 0
    /\ content = [b \in Pbufs |-> 0]
    /\ isr = {} /\ rxsr = {} /\ todo = <<>>
    /\ recv_q = <<>>
    /\ sem = FALSE /\ thread = "wait" /\ p = Null
    /\ stack = {} /\ handed = 0

-----------------------------------------------------------------------------
\* The device.  A frame goes to the address in the next descriptor, if that
\* is not marked used; else, or when its FIFO overruns, it is lost.
Receive ==
    /\ wire < MaxFrames
    /\ ~bd[dma].new
    /\ wire' = wire + 1
    /\ bd' = [bd EXCEPT ![dma].new = TRUE]
    /\ content' = [b \in Pbufs |-> IF b = bd[dma].addr THEN wire' ELSE content[b]]
    /\ dma' = XEmacPs_BdRingNext(dma, 1)
    /\ isr' = isr \cup {"FRAMERX"}
    /\ UNCHANGED <<ring, rx_pbufs_storage, rxsr, todo, pool, recv_q, consumer>>

Lose(why) ==
    /\ wire < MaxFrames
    /\ why = "BUFFNA" => bd[dma].new
    /\ wire' = wire + 1
    /\ isr' = isr \cup {"RX_ERR"}
    /\ rxsr' = rxsr \cup {why}
    /\ UNCHANGED <<ring, descriptors, content, dma, todo, pool, recv_q, consumer>>

-----------------------------------------------------------------------------
XEmacPs_IntrHandler ==
    /\ todo = <<>> /\ isr # {}
    /\ isr' = {}
    /\ todo' = (IF "FRAMERX" \in isr THEN <<"recv">> ELSE <<>>)
               \o (IF "RX_ERR" \in isr THEN <<"error">> ELSE <<>>)
    /\ UNCHANGED <<ring, descriptors, content, dma, wire, rxsr, pool, recv_q, consumer>>

Doing(call) == todo # <<>> /\ Head(todo) = call

\* Overrun and missing buffers are treated alike, one after the other.
emacps_error_handler ==
    /\ Doing("error")
    /\ rxsr' = {}
    /\ todo' = (IF "RXOVR" \in rxsr THEN <<"recv", "setup">> ELSE <<>>)
               \o (IF "BUFFNA" \in rxsr THEN <<"recv", "setup">> ELSE <<>>)
               \o Tail(todo)
    /\ UNCHANGED <<ring, descriptors, content, dma, wire, isr, pool, recv_q, consumer>>

emacps_recv_handler ==
    /\ Doing("recv")
    /\ rxsr' = {}
    /\ todo' = <<"loop">> \o Tail(todo)
    /\ UNCHANGED <<ring, descriptors, content, dma, wire, isr, pool, recv_q, consumer>>

\* XEmacPs_BdRingFromHwRx returns the descriptors from HwHead up to the first
\* one not marked new, or all N.
XEmacPs_BdRingFromHwRx ==
    IF HwCnt = 0
    THEN 0
    ELSE Cardinality({n \in 1..N :
            \A k \in 0..(n - 1) : bd[XEmacPs_BdRingNext(HwHead, k)].new})

Smaller(a, b) == IF a < b THEN a ELSE b

\* pq_enqueue of the pbufs in s, in order; what finds the queue full is freed.
\* Mutant: it is not.
EnqueueLeaks(s) ==
    /\ recv_q' = recv_q \o SubSeq(s, 1, Smaller(Len(s), PQ_QUEUE_SIZE - Len(recv_q)))
    /\ UNCHANGED pool

pq_enqueue(s) ==
    LET room == Smaller(Len(s), PQ_QUEUE_SIZE - Len(recv_q))
    IN  /\ recv_q' = recv_q \o SubSeq(s, 1, room)
        /\ pool' = pool \cup {s[k] : k \in (room + 1)..Len(s)}

\* One round of the loop up to the refill: FromHwRx, the queue,
\* XEmacPs_BdRingFree.
emacps_recv_handler_Loop ==
    LET n == XEmacPs_BdRingFromHwRx
    IN  /\ Doing("loop") /\ n > 0
        /\ pq_enqueue([k \in 1..n |-> rx_pbufs_storage[XEmacPs_BdRingNext(HwHead, k - 1)]])
        /\ HwHead' = XEmacPs_BdRingNext(HwHead, n)
        /\ HwCnt' = HwCnt - n
        /\ FreeCnt' = FreeCnt + n
        /\ todo' = <<"setup", "signal">> \o todo
        /\ UNCHANGED <<FreeHead, word, erased, descriptors, content, device, consumer>>

emacps_recv_handler_Return ==
    /\ Doing("loop") /\ XEmacPs_BdRingFromHwRx = 0
    /\ todo' = Tail(todo)
    /\ UNCHANGED <<ring, descriptors, content, device, pool, recv_q, consumer>>

\* A round of setup_rx_bds: pbuf_alloc, XEmacPs_BdRingAlloc,
\* XEmacPs_BdRingToHw; then the first word of the descriptor is cleared.
\* Mutant: all of the word but the new bit is.
SetupKeepsNew ==
    /\ Doing("setup") /\ FreeCnt > 0
    /\ pool # {}
    /\ pool' = pool \ {pbuf_alloc}
    /\ content' = [content EXCEPT ![pbuf_alloc] = 0]
    /\ FreeCnt' = FreeCnt - 1
    /\ HwCnt' = HwCnt + 1
    /\ bd' = [bd EXCEPT ![FreeHead].addr = Null]
    /\ rx_pbufs_storage' = [rx_pbufs_storage EXCEPT ![FreeHead] = pbuf_alloc]
    /\ todo' = <<"address">> \o todo
    /\ UNCHANGED <<HwHead, FreeHead, word, erased, device, recv_q, consumer>>

setup_rx_bds ==
    /\ Doing("setup") /\ FreeCnt > 0
    /\ pool # {}
    /\ pool' = pool \ {pbuf_alloc}
    /\ content' = [content EXCEPT ![pbuf_alloc] = 0]
    /\ FreeCnt' = FreeCnt - 1
    /\ HwCnt' = HwCnt + 1
    /\ bd' = [bd EXCEPT ![FreeHead] = [new |-> FALSE, addr |-> Null]]
    /\ rx_pbufs_storage' = [rx_pbufs_storage EXCEPT ![FreeHead] = pbuf_alloc]
    /\ todo' = <<"address">> \o todo
    /\ UNCHANGED <<HwHead, FreeHead, word, erased, device, recv_q, consumer>>

\* XEmacPs_BdSetAddressRx reads the word that holds the new bit ...
XEmacPs_BdSetAddressRx_Read ==
    /\ Doing("address") /\ word = "unread"
    /\ word' = IF bd[FreeHead].new THEN "new" ELSE "empty"
    /\ UNCHANGED <<HwHead, HwCnt, FreeHead, FreeCnt, erased, descriptors, content,
                   device, todo, pool, recv_q, consumer>>

\* ... and writes it back with the address, over whatever the DMA has made of
\* it since.  (The code moves FreeHead before and fills rx_pbufs_storage
\* after; nothing reads them in between.)
XEmacPs_BdSetAddressRx_Write ==
    /\ Doing("address") /\ word # "unread"
    /\ bd' = [bd EXCEPT ![FreeHead] =
                 [new |-> word = "new", addr |-> rx_pbufs_storage[FreeHead]]]
    /\ erased' = (erased \/ (bd[FreeHead].new /\ word = "empty"))
    /\ word' = "unread"
    /\ FreeHead' = XEmacPs_BdRingNext(FreeHead, 1)
    /\ todo' = Tail(todo)
    /\ UNCHANGED <<HwHead, HwCnt, FreeCnt, rx_pbufs_storage, content, device,
                   pool, recv_q, consumer>>

\* Every descriptor is back with the device, or pbuf_alloc has failed.
setup_rx_bds_Return ==
    /\ Doing("setup")
    /\ FreeCnt = 0 \/ pool = {}
    /\ todo' = Tail(todo)
    /\ UNCHANGED <<ring, descriptors, content, device, pool, recv_q, consumer>>

\* Mutant: the signal is lost unless the thread waits for it.
SignalIfWaiting ==
    /\ Doing("signal")
    /\ sem' = (thread = "wait")
    /\ todo' = Tail(todo)
    /\ UNCHANGED <<ring, descriptors, content, device, pool, recv_q,
                   thread, p, stack, handed>>

sys_sem_signal ==
    /\ Doing("signal")
    /\ sem' = TRUE
    /\ todo' = Tail(todo)
    /\ UNCHANGED <<ring, descriptors, content, device, pool, recv_q,
                   thread, p, stack, handed>>

HandlerStep ==
    \/ emacps_error_handler \/ emacps_recv_handler
    \/ emacps_recv_handler_Loop \/ emacps_recv_handler_Return
    \/ setup_rx_bds \/ XEmacPs_BdSetAddressRx_Read \/ XEmacPs_BdSetAddressRx_Write
    \/ setup_rx_bds_Return \/ sys_sem_signal

-----------------------------------------------------------------------------
\* The threads of the guest run when no handler does.
ThreadRuns == todo = <<>>

sys_sem_wait ==
    /\ ThreadRuns /\ thread = "wait" /\ sem
    /\ sem' = FALSE
    /\ thread' = "input"
    /\ UNCHANGED <<ring, descriptors, content, device, todo, pool, recv_q, p, stack, handed>>

\* xemacpsif_input takes packets until there is none.  Mutant: the newest one
\* first.
TakeNewest ==
    /\ ThreadRuns /\ thread = "input"
    /\ IF recv_q = <<>>
       THEN /\ thread' = "delay"
            /\ UNCHANGED <<recv_q, p>>
       ELSE /\ thread' = "hand"
            /\ p' = recv_q[Len(recv_q)] /\ recv_q' = SubSeq(recv_q, 1, Len(recv_q) - 1)
    /\ UNCHANGED <<ring, descriptors, content, device, todo, pool, sem, stack, handed>>

low_level_input ==
    /\ ThreadRuns /\ thread = "input"
    /\ IF recv_q = <<>>
       THEN /\ thread' = "delay"
            /\ UNCHANGED <<recv_q, p>>
       ELSE /\ thread' = "hand"
            /\ p' = Head(recv_q) /\ recv_q' = Tail(recv_q)
    /\ UNCHANGED <<ring, descriptors, content, device, todo, pool, sem, stack, handed>>

\* netif->input takes the packet, unless its mailbox is full ...
xemacpsif_input_Hand ==
    /\ ThreadRuns /\ thread = "hand"
    /\ Cardinality(stack) < Mbox
    /\ stack' = stack \cup {p}
    /\ handed' = IF content[p] = 0 THEN handed ELSE content[p]
    /\ thread' = "input" /\ p' = Null
    /\ UNCHANGED <<ring, descriptors, content, device, todo, pool, recv_q, sem>>

\* ... and otherwise, or when it is of another type, it is freed.  Mutant: the
\* pointer to it is kept.
FreeKeepsPointer ==
    /\ ThreadRuns /\ thread = "hand"
    /\ pool' = pool \cup {p}
    /\ thread' = "input"
    /\ UNCHANGED <<ring, descriptors, content, device, todo, recv_q, sem, p, stack, handed>>

xemacpsif_input_Free ==
    /\ ThreadRuns /\ thread = "hand"
    /\ pool' = pool \cup {p}
    /\ thread' = "input" /\ p' = Null
    /\ UNCHANGED <<ring, descriptors, content, device, todo, recv_q, sem, stack, handed>>

\* Mutant: a delay that does not end.
DelayStuck ==
    /\ ThreadRuns /\ thread = "delay"
    /\ UNCHANGED vars

vTaskDelay ==
    /\ ThreadRuns /\ thread = "delay"
    /\ thread' = "wait"
    /\ UNCHANGED <<ring, descriptors, content, device, todo, pool, recv_q, sem, p, stack, handed>>

\* lwIP is done with a packet.
pbuf_free(b) ==
    /\ ThreadRuns /\ b \in stack
    /\ stack' = stack \ {b}
    /\ pool' = pool \cup {b}
    /\ UNCHANGED <<ring, descriptors, content, device, todo, recv_q, sem, thread, p, handed>>

ThreadStep ==
    \/ sys_sem_wait \/ low_level_input
    \/ xemacpsif_input_Hand \/ xemacpsif_input_Free \/ vTaskDelay

-----------------------------------------------------------------------------
Next ==
    \/ Receive \/ \E why \in {"RXOVR", "BUFFNA"} : Lose(why)
    \/ XEmacPs_IntrHandler \/ HandlerStep
    \/ ThreadStep \/ \E b \in Pbufs : pbuf_free(b)

Spec == Init /\ [][Next]_vars

\* An interrupt is taken and handled; the thread shares its priority with the
\* guest's other threads, which FreeRTOS serves in turn, and the one above
\* them, lwIP's, waits for its mailbox.
FairSpec ==
    /\ Spec
    /\ WF_vars(XEmacPs_IntrHandler) /\ WF_vars(HandlerStep) /\ WF_vars(ThreadStep)

-----------------------------------------------------------------------------
TypeOK ==
    /\ bd \in [Bds -> [new : BOOLEAN, addr : Pbufs \cup {Null}]]
    /\ rx_pbufs_storage \in [Bds -> Pbufs]
    /\ HwHead \in Bds /\ FreeHead \in Bds /\ HwCnt \in Int /\ FreeCnt \in Int
    /\ word \in {"unread", "new", "empty"} /\ erased \in BOOLEAN
    /\ dma \in Bds /\ wire \in Nat /\ handed \in Nat
    /\ content \in [Pbufs -> Nat]
    /\ isr \in SUBSET {"FRAMERX", "RX_ERR"} /\ rxsr \in SUBSET {"RXOVR", "BUFFNA"}
    /\ todo \in Seq(Calls)
    /\ pool \in SUBSET Pbufs /\ stack \in SUBSET Pbufs
    /\ recv_q \in Seq(Pbufs) /\ Len(recv_q) <= PQ_QUEUE_SIZE
    /\ sem \in BOOLEAN /\ thread \in {"wait", "input", "hand", "delay"}
    /\ p \in Pbufs \cup {Null} /\ (thread = "hand" <=> p # Null)

\* The descriptors the driver counts as the device's.
HwBds == {XEmacPs_BdRingNext(HwHead, k) : k \in 0..(HwCnt - 1)}

\* Driver and device agree on the ring: the counts add up to N, and, until
\* the refill erases a new bit, from HwHead on come the completed descriptors,
\* then, from where the DMA is, the empty ones (BdRingFromHwRx, BdRingFree,
\* BdRingAlloc, BdRingToHw).
RingConsistent ==
    /\ HwCnt \in 0..N /\ FreeCnt = N - HwCnt
    /\ XEmacPs_BdRingNext(FreeHead, IF Doing("address") THEN 1 ELSE 0)
          = XEmacPs_BdRingNext(HwHead, HwCnt)
    /\ ~erased =>
          \E n \in 0..HwCnt :
             /\ dma = XEmacPs_BdRingNext(HwHead, n)
             /\ \A k \in 0..(HwCnt - 1) :
                   bd[XEmacPs_BdRingNext(HwHead, k)].new <=> k < n

\* Where a pbuf is.
Places(b) ==
    {<<"bd", i>> : i \in {j \in HwBds : rx_pbufs_storage[j] = b}}
    \cup {<<"recv_q", k>> : k \in {j \in 1..Len(recv_q) : recv_q[j] = b}}
    \cup {<<x>> : x \in {y \in {"pool", "thread", "stack"} :
              \/ y = "pool" /\ b \in pool
              \/ y = "thread" /\ b = p
              \/ y = "stack" /\ b \in stack}}

\* Every pbuf is in exactly one place: none is lost, none is given to the
\* device, queued or freed twice, whatever overflows or is refused.
PbufsOwnedOnce == \A b \in Pbufs : Cardinality(Places(b)) = 1

\* The packets on their way, oldest first: in the thread's hand, in the queue,
\* completed in the ring.
InFlight ==
    (IF p = Null THEN <<>> ELSE <<p>>) \o recv_q
    \o [k \in 1..Smaller(XEmacPs_BdRingFromHwRx, HwCnt) |->
            rx_pbufs_storage[XEmacPs_BdRingNext(HwHead, k - 1)]]

\* Frames reach lwIP in the order of the wire and at most once, until the
\* refill erases a new bit: from then on the scan waits at a descriptor that
\* the DMA has passed, and finds it filled after those behind it.
FramesInOrder ==
    ~erased =>
        \A k \in 1..Len(InFlight) :
            content[InFlight[k]] # 0 =>
                /\ content[InFlight[k]] > handed
                /\ \A j \in 1..(k - 1) : content[InFlight[j]] < content[InFlight[k]]

\* No packet waits in the queue while the thread sleeps with nothing to wake
\* it: the semaphore is binary, and signalled after the queue is filled.
NoPacketStranded ==
    recv_q # <<>> =>
        \/ sem \/ thread \in {"input", "hand"}
        \/ \E k \in 1..Len(todo) : todo[k] = "signal"

\* Packets in the queue are taken from it.
QueueDrains == recv_q # <<>> ~> recv_q = <<>>
=============================================================================
