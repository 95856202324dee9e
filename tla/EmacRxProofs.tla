---------------------------- MODULE EmacRxProofs ----------------------------
(***************************************************************************)
(* Proofs about EmacRx: for any ring, queue and pool no packet is left in  *)
(* the queue with the thread asleep, even when the pool runs out; as long  *)
(* as it does not, the counts of the ring add up and every pbuf has one    *)
(* owner; and until the refill erases a new bit, which takes a full ring,  *)
(* driver and DMA agree on the descriptors and the frames stay in order.   *)
(***************************************************************************)
EXTENDS EmacRx, FiniteSetTheorems, SequenceTheorems, TLAPS

IInv == TypeOK /\ NoPacketStranded

\* The index of a descriptor stays in the ring.
LEMMA NextInRing ==
  ASSUME NEW i \in Nat, NEW k \in Nat
  PROVE  XEmacPs_BdRingNext(i, k) \in Bds
<1>1. i + k \in Nat /\ N \in Nat \ {0}
  BY SizesAssumption, SMT
<1>2. \A a \in Nat, m \in Nat \ {0} : a % m \in 0..(m - 1)
  BY SMT
<1>. QED  BY <1>1, <1>2 DEF XEmacPs_BdRingNext, Bds

\* The scan returns between none and all of the descriptors.
LEMMA ScanBound == XEmacPs_BdRingFromHwRx \in 0..N
<1>. DEFINE S == {n \in 1..N : \A k \in 0..(n - 1) : bd[XEmacPs_BdRingNext(HwHead, k)].new}
<1>1. N \in Nat /\ 0 \in 0..N
  BY SizesAssumption, SMT
<1>2. IsFiniteSet(1..N) /\ Cardinality(1..N) = N
  <2>1. 1 \in Int /\ N \in Int /\ ~(1 > N)
    BY SizesAssumption, SMT
  <2>2. N - 1 + 1 = N
    BY <2>1, SMT
  <2>. QED  BY <2>1, <2>2, FS_Interval
<1>3. S \in SUBSET (1..N)
  OBVIOUS
<1>4. IsFiniteSet(S) /\ Cardinality(S) <= N
  BY <1>2, <1>3, FS_Subset
<1>5. Cardinality(S) \in Nat
  BY <1>4, FS_CardinalityType
<1>6. Cardinality(S) \in 0..N
  BY <1>1, <1>4, <1>5, SMT
<1>. QED  BY <1>1, <1>6 DEF XEmacPs_BdRingFromHwRx

LEMMA AllocFromPool == pool # {} => pbuf_alloc \in pool
  BY DEF pbuf_alloc

-----------------------------------------------------------------------------
LEMMA InitInv == Init => IInv
<1>. SUFFICES ASSUME Init PROVE IInv
  OBVIOUS
<1>1. rx_pbufs_storage \in [Bds -> Pbufs]
  BY PbufsAssumption DEF Init
<1>2. 0 \in Nat /\ 0 \in Int /\ N \in Int /\ 0 \in Bds /\ Len(<<>>) <= PQ_QUEUE_SIZE
  BY SizesAssumption, SMT DEF Bds
<1>3. /\ bd \in [Bds -> [new : BOOLEAN, addr : Pbufs \cup {Null}]]
      /\ content \in [Pbufs -> Nat]
  BY <1>1, <1>2 DEF Init
<1>4. /\ recv_q \in Seq(Pbufs) /\ Len(recv_q) <= PQ_QUEUE_SIZE /\ todo \in Seq(Calls)
      /\ pool \in SUBSET Pbufs /\ stack \in SUBSET Pbufs
  BY <1>2 DEF Init
<1>5. /\ isr \in SUBSET {"FRAMERX", "RX_ERR"} /\ rxsr \in SUBSET {"RXOVR", "BUFFNA"}
      /\ sem \in BOOLEAN /\ thread \in {"wait", "input", "hand", "delay"}
      /\ p \in Pbufs \cup {Null} /\ (thread = "hand" <=> p # Null)
  BY DEF Init
<1>6. /\ HwHead \in Bds /\ FreeHead \in Bds /\ HwCnt \in Int /\ FreeCnt \in Int
      /\ word \in {"unread", "new", "empty"} /\ erased \in BOOLEAN
      /\ dma \in Bds /\ wire \in Nat /\ handed \in Nat
  BY <1>2 DEF Init
<1>7. TypeOK
  BY <1>1, <1>3, <1>4, <1>5, <1>6 DEF TypeOK
<1>8. NoPacketStranded
  BY DEF Init, NoPacketStranded
<1>. QED  BY <1>7, <1>8 DEF IInv

-----------------------------------------------------------------------------
\* The typing of the sequences that the steps build.
HasSignal(s) == \E k \in 1..Len(s) : s[k] = "signal"

LEMMA Prepend ==
  ASSUME NEW s \in Seq(Calls), NEW r \in Seq(Calls)
  PROVE  s \o r \in Seq(Calls) /\ (HasSignal(r) => HasSignal(s \o r))
                               /\ (HasSignal(s) => HasSignal(s \o r))
<1>1. Len(s) \in Nat /\ Len(r) \in Nat
  BY SMT
<1>2. s \o r \in Seq(Calls) /\ Len(s \o r) = Len(s) + Len(r)
  BY ConcatProperties
<1>3. \A i \in 1..(Len(s) + Len(r)) :
        (s \o r)[i] = IF i <= Len(s) THEN s[i] ELSE r[i - Len(s)]
  BY ConcatProperties
<1>4. \A k \in 1..Len(r) : k + Len(s) \in 1..Len(s \o r) /\ (s \o r)[k + Len(s)] = r[k]
  <2>1. \A k \in 1..Len(r) :
           /\ k + Len(s) \in 1..(Len(s) + Len(r))
           /\ ~(k + Len(s) <= Len(s)) /\ (k + Len(s)) - Len(s) = k
    BY <1>1, SMT
  <2>. QED  BY <1>2, <1>3, <2>1
<1>5. \A k \in 1..Len(s) : k \in 1..Len(s \o r) /\ (s \o r)[k] = s[k]
  <2>1. \A k \in 1..Len(s) : k \in 1..(Len(s) + Len(r)) /\ k <= Len(s)
    BY <1>1, SMT
  <2>. QED  BY <1>2, <1>3, <2>1
<1>. QED  BY <1>2, <1>4, <1>5 DEF HasSignal

LEMMA Pop ==
  ASSUME NEW s \in Seq(Calls), s # <<>>
  PROVE  Tail(s) \in Seq(Calls) /\ (HasSignal(s) /\ Head(s) # "signal" => HasSignal(Tail(s)))
<1>1. /\ Tail(s) \in Seq(Calls) /\ Len(Tail(s)) = Len(s) - 1
      /\ \A i \in 1..Len(Tail(s)) : Tail(s)[i] = s[i + 1]
  BY HeadTailProperties
<1>2. Len(s) \in Nat \ {0} /\ Head(s) = s[1]
  BY SMT
<1>3. ASSUME NEW k \in 1..Len(s), k # 1
      PROVE  k - 1 \in 1..Len(Tail(s)) /\ (k - 1) + 1 = k
  BY <1>1, <1>2, <1>3, SMT
<1>4. \A k \in 1..Len(s) : k # 1 => k - 1 \in 1..Len(Tail(s)) /\ Tail(s)[k - 1] = s[k]
  BY <1>1, <1>3
<1>5. ASSUME HasSignal(s), Head(s) # "signal" PROVE HasSignal(Tail(s))
  <2>1. PICK k \in 1..Len(s) : s[k] = "signal"
    BY <1>5 DEF HasSignal
  <2>2. k # 1
    BY <1>2, <1>5, <2>1
  <2>. QED  BY <1>4, <2>1, <2>2 DEF HasSignal
<1>. QED  BY <1>1, <1>5

\* Short lists of calls.
LEMMA Literals ==
  /\ <<>> \in Seq(Calls) /\ <<"recv">> \in Seq(Calls) /\ <<"error">> \in Seq(Calls)
  /\ <<"recv", "setup">> \in Seq(Calls) /\ <<"loop">> \in Seq(Calls)
  /\ <<"address">> \in Seq(Calls)
  /\ <<"setup", "signal">> \in Seq(Calls) /\ HasSignal(<<"setup", "signal">>)
<1>1. HasSignal(<<"setup", "signal">>)
  <2>1. Len(<<"setup", "signal">>) = 2 /\ 2 \in 1..2
    BY SMT
  <2>. QED  BY <2>1 DEF HasSignal
<1>. QED  BY <1>1 DEF Calls

\* A step that leaves queue and consumer alone strands no packet as long as it
\* does not forget a signal.
LEMMA StrandsNothing ==
  ASSUME NoPacketStranded, recv_q' = recv_q, sem' = sem, thread' = thread,
         HasSignal(todo) => HasSignal(todo)'
  PROVE  NoPacketStranded'
  BY DEF NoPacketStranded, HasSignal

-----------------------------------------------------------------------------
LEMMA ReceiveKeeps == ASSUME IInv, Receive PROVE IInv'
<1>1. /\ wire' = wire + 1 /\ bd' = [bd EXCEPT ![dma].new = TRUE]
      /\ content' = [b \in Pbufs |-> IF b = bd[dma].addr THEN wire' ELSE content[b]]
      /\ dma' = XEmacPs_BdRingNext(dma, 1) /\ isr' = isr \cup {"FRAMERX"}
      /\ UNCHANGED <<HwHead, HwCnt, FreeHead, FreeCnt, word, erased, rx_pbufs_storage, rxsr,
                     todo, pool, recv_q, sem, thread, p, stack, handed>>
  BY DEF Receive, ring, consumer
<1>2. wire' \in Nat
  BY <1>1, SMT DEF IInv, TypeOK
<1>3. dma' \in Bds
  <2>1. dma \in Nat /\ 1 \in Nat
    BY SizesAssumption, SMT DEF IInv, TypeOK, Bds
  <2>. QED  BY <1>1, <2>1, NextInRing
<1>4. bd' \in [Bds -> [new : BOOLEAN, addr : Pbufs \cup {Null}]]
  <2>1. bd \in [Bds -> [new : BOOLEAN, addr : Pbufs \cup {Null}]] /\ dma \in Bds
    BY DEF IInv, TypeOK
  <2>2. [bd[dma] EXCEPT !.new = TRUE] \in [new : BOOLEAN, addr : Pbufs \cup {Null}]
    BY <2>1
  <2>. QED  BY <1>1, <2>1, <2>2
<1>5. content' \in [Pbufs -> Nat] /\ isr' \in SUBSET {"FRAMERX", "RX_ERR"}
  BY <1>1, <1>2 DEF IInv, TypeOK
<1>6. TypeOK'
  BY <1>1, <1>2, <1>3, <1>4, <1>5 DEF IInv, TypeOK
<1>7. NoPacketStranded'
  BY <1>1 DEF IInv, NoPacketStranded
<1>. QED  BY <1>6, <1>7 DEF IInv

LEMMA LoseKeeps ==
  ASSUME IInv, NEW why \in {"RXOVR", "BUFFNA"}, Lose(why)
  PROVE  IInv'
<1>1. /\ wire' = wire + 1 /\ isr' = isr \cup {"RX_ERR"} /\ rxsr' = rxsr \cup {why}
      /\ UNCHANGED <<HwHead, HwCnt, FreeHead, FreeCnt, word, erased, bd, rx_pbufs_storage,
                     content, dma, todo, pool, recv_q, sem, thread, p, stack, handed>>
  BY DEF Lose, ring, descriptors, consumer
<1>2. wire' \in Nat
  BY <1>1, SMT DEF IInv, TypeOK
<1>3. TypeOK'
  BY <1>1, <1>2 DEF IInv, TypeOK
<1>4. NoPacketStranded'
  BY <1>1 DEF IInv, NoPacketStranded
<1>. QED  BY <1>3, <1>4 DEF IInv

-----------------------------------------------------------------------------
\* A step of the interrupt handler that does not touch the ring, the pool or
\* the queue.
LEMMA CallKeeps ==
  ASSUME IInv, todo' \in Seq(Calls), HasSignal(todo) => HasSignal(todo)',
         isr' \in SUBSET {"FRAMERX", "RX_ERR"}, rxsr' \in SUBSET {"RXOVR", "BUFFNA"},
         UNCHANGED <<ring, descriptors, content, dma, wire, pool, recv_q, consumer>>
  PROVE  IInv'
<1>1. UNCHANGED <<HwHead, HwCnt, FreeHead, FreeCnt, word, erased, bd, rx_pbufs_storage,
                  content, dma, wire, pool, recv_q, sem, thread, p, stack, handed>>
  BY DEF ring, descriptors, consumer
<1>2. TypeOK'
  BY <1>1 DEF IInv, TypeOK
<1>3. NoPacketStranded'
  BY <1>1, StrandsNothing DEF IInv
<1>. QED  BY <1>2, <1>3 DEF IInv

LEMMA IntrKeeps == ASSUME IInv, XEmacPs_IntrHandler PROVE IInv'
<1>1. /\ todo = <<>> /\ isr' = {} /\ rxsr' = rxsr
      /\ UNCHANGED <<ring, descriptors, content, dma, wire, pool, recv_q, consumer>>
  BY DEF XEmacPs_IntrHandler
<1>2. todo' \in Seq(Calls)
  <2>. DEFINE a == IF "FRAMERX" \in isr THEN <<"recv">> ELSE <<>>
              b == IF "RX_ERR" \in isr THEN <<"error">> ELSE <<>>
  <2>1. a \in Seq(Calls) /\ b \in Seq(Calls)
    BY Literals
  <2>2. todo' = a \o b
    BY DEF XEmacPs_IntrHandler
  <2>. HIDE DEF a, b
  <2>. QED  BY <2>1, <2>2, Prepend
<1>3. ~HasSignal(todo)
  <2>1. 1..Len(<<>>) = {}
    BY SMT
  <2>. QED  BY <1>1, <2>1 DEF HasSignal
<1>4. isr' \in SUBSET {"FRAMERX", "RX_ERR"} /\ rxsr' \in SUBSET {"RXOVR", "BUFFNA"}
  BY <1>1 DEF IInv, TypeOK
<1>. QED  BY <1>1, <1>2, <1>3, <1>4, CallKeeps

LEMMA ErrorKeeps == ASSUME IInv, emacps_error_handler PROVE IInv'
<1>. DEFINE a == IF "RXOVR" \in rxsr THEN <<"recv", "setup">> ELSE <<>>
            b == IF "BUFFNA" \in rxsr THEN <<"recv", "setup">> ELSE <<>>
<1>1. /\ todo # <<>> /\ Head(todo) = "error" /\ rxsr' = {} /\ isr' = isr
      /\ todo' = a \o b \o Tail(todo)
      /\ UNCHANGED <<ring, descriptors, content, dma, wire, pool, recv_q, consumer>>
  BY DEF emacps_error_handler, Doing
<1>2. a \in Seq(Calls) /\ b \in Seq(Calls) /\ todo \in Seq(Calls)
  BY Literals DEF IInv, TypeOK
<1>. HIDE DEF a, b
<1>3. Tail(todo) \in Seq(Calls) /\ (HasSignal(todo) => HasSignal(Tail(todo)))
  BY <1>1, <1>2, Pop
<1>4. a \o b \in Seq(Calls)
  BY <1>2, Prepend
<1>5. todo' \in Seq(Calls) /\ (HasSignal(Tail(todo)) => HasSignal(todo)')
  <2>1. /\ (a \o b) \o Tail(todo) \in Seq(Calls)
        /\ HasSignal(Tail(todo)) => HasSignal((a \o b) \o Tail(todo))
    BY <1>3, <1>4, Prepend
  <2>. QED  BY <1>1, <2>1 DEF HasSignal
<1>6. isr' \in SUBSET {"FRAMERX", "RX_ERR"} /\ rxsr' \in SUBSET {"RXOVR", "BUFFNA"}
  BY <1>1 DEF IInv, TypeOK
<1>. QED  BY <1>1, <1>3, <1>5, <1>6, CallKeeps

LEMMA RecvKeeps == ASSUME IInv, emacps_recv_handler PROVE IInv'
<1>1. /\ todo # <<>> /\ Head(todo) = "recv" /\ rxsr' = {} /\ isr' = isr
      /\ todo' = <<"loop">> \o Tail(todo)
      /\ UNCHANGED <<ring, descriptors, content, dma, wire, pool, recv_q, consumer>>
  BY DEF emacps_recv_handler, Doing
<1>2. todo \in Seq(Calls)
  BY DEF IInv, TypeOK
<1>3. Tail(todo) \in Seq(Calls) /\ (HasSignal(todo) => HasSignal(Tail(todo)))
  BY <1>1, <1>2, Pop
<1>4. todo' \in Seq(Calls) /\ (HasSignal(Tail(todo)) => HasSignal(todo)')
  <2>1. /\ <<"loop">> \o Tail(todo) \in Seq(Calls)
        /\ HasSignal(Tail(todo)) => HasSignal(<<"loop">> \o Tail(todo))
    BY <1>3, Literals, Prepend
  <2>. QED  BY <1>1, <2>1 DEF HasSignal
<1>5. isr' \in SUBSET {"FRAMERX", "RX_ERR"} /\ rxsr' \in SUBSET {"RXOVR", "BUFFNA"}
  BY <1>1 DEF IInv, TypeOK
<1>. QED  BY <1>1, <1>3, <1>4, <1>5, CallKeeps

\* A return to the caller.
LEMMA ReturnKeeps ==
  ASSUME IInv, emacps_recv_handler_Return \/ setup_rx_bds_Return
  PROVE  IInv'
<1>1. /\ todo # <<>> /\ Head(todo) # "signal" /\ todo' = Tail(todo)
      /\ isr' = isr /\ rxsr' = rxsr
      /\ UNCHANGED <<ring, descriptors, content, dma, wire, pool, recv_q, consumer>>
  BY DEF emacps_recv_handler_Return, setup_rx_bds_Return, Doing, device
<1>2. todo \in Seq(Calls)
  BY DEF IInv, TypeOK
<1>3. Tail(todo) \in Seq(Calls) /\ (HasSignal(todo) => HasSignal(Tail(todo)))
  BY <1>1, <1>2, Pop
<1>4. todo' \in Seq(Calls) /\ (HasSignal(todo) => HasSignal(todo)')
  BY <1>1, <1>3 DEF HasSignal
<1>5. isr' \in SUBSET {"FRAMERX", "RX_ERR"} /\ rxsr' \in SUBSET {"RXOVR", "BUFFNA"}
  BY <1>1 DEF IInv, TypeOK
<1>. QED  BY <1>1, <1>4, <1>5, CallKeeps

-----------------------------------------------------------------------------
\* The pbufs of the descriptors scanned, and what of them fits in the queue.
LEMMA Enqueue ==
  ASSUME IInv, NEW n \in 0..N, NEW s,
         s = [k \in 1..n |-> rx_pbufs_storage[XEmacPs_BdRingNext(HwHead, k - 1)]],
         pq_enqueue(s)
  PROVE  /\ recv_q' \in Seq(Pbufs) /\ Len(recv_q') <= PQ_QUEUE_SIZE
         /\ pool' \in SUBSET Pbufs
<1>. DEFINE room == Smaller(Len(s), PQ_QUEUE_SIZE - Len(recv_q))
<1>1. /\ recv_q' = recv_q \o SubSeq(s, 1, room)
      /\ pool' = pool \cup {s[k] : k \in (room + 1)..Len(s)}
  BY DEF pq_enqueue
<1>2. recv_q \in Seq(Pbufs) /\ Len(recv_q) <= PQ_QUEUE_SIZE /\ pool \in SUBSET Pbufs
  BY DEF IInv, TypeOK
<1>3. n \in Nat /\ PQ_QUEUE_SIZE \in Nat /\ HwHead \in Nat
  BY SizesAssumption, SMT DEF IInv, TypeOK, Bds
<1>4. \A k \in 1..n : rx_pbufs_storage[XEmacPs_BdRingNext(HwHead, k - 1)] \in Pbufs
  <2>1. \A k \in 1..n : k - 1 \in Nat
    BY <1>3, SMT
  <2>2. \A k \in 1..n : XEmacPs_BdRingNext(HwHead, k - 1) \in Bds
    BY <1>3, <2>1, NextInRing
  <2>. QED  BY <2>2 DEF IInv, TypeOK
<1>5. s \in [1..n -> Pbufs]
  BY <1>4
<1>6. s \in Seq(Pbufs) /\ Len(s) = n
  BY <1>3, <1>5, SMT
<1>7. Len(recv_q) \in Nat
  BY <1>2, SMT
<1>8. room \in 0..n /\ room + Len(recv_q) <= PQ_QUEUE_SIZE
  BY <1>2, <1>3, <1>6, <1>7, SMT DEF Smaller
<1>. HIDE DEF room
<1>9. SubSeq(s, 1, room) \in Seq(Pbufs) /\ Len(SubSeq(s, 1, room)) = room
  <2>1. 1 \in 1..(Len(s) + 1) /\ room \in (1 - 1)..Len(s)
    BY <1>3, <1>6, <1>8, SMT
  <2>2. /\ SubSeq(s, 1, room) \in Seq(Pbufs)
        /\ Len(SubSeq(s, 1, room)) = IF 1 <= room THEN room - 1 + 1 ELSE 0
    BY <1>6, <2>1, SubSeqProperties
  <2>3. (IF 1 <= room THEN room - 1 + 1 ELSE 0) = room
    BY <1>3, <1>8, SMT
  <2>. QED  BY <2>2, <2>3
<1>10. /\ recv_q' \in Seq(Pbufs) /\ Len(recv_q') = Len(recv_q) + room
  BY <1>1, <1>2, <1>9, ConcatProperties
<1>11. Len(recv_q') <= PQ_QUEUE_SIZE
  BY <1>3, <1>7, <1>8, <1>10, SMT
<1>12. \A k \in (room + 1)..Len(s) : s[k] \in Pbufs
  <2>1. \A k \in (room + 1)..n : k \in 1..n
    BY <1>3, <1>8, SMT
  <2>. QED  BY <1>5, <1>6, <2>1
<1>. QED  BY <1>1, <1>2, <1>10, <1>11, <1>12

LEMMA LoopKeeps == ASSUME IInv, emacps_recv_handler_Loop PROVE IInv'
<1>. DEFINE n == XEmacPs_BdRingFromHwRx
            s == [k \in 1..n |-> rx_pbufs_storage[XEmacPs_BdRingNext(HwHead, k - 1)]]
<1>1. /\ pq_enqueue(s) /\ HwHead' = XEmacPs_BdRingNext(HwHead, n)
      /\ HwCnt' = HwCnt - n /\ FreeCnt' = FreeCnt + n
      /\ todo' = <<"setup", "signal">> \o todo
      /\ UNCHANGED <<FreeHead, word, erased, bd, rx_pbufs_storage, content, dma, wire, isr,
                     rxsr, sem, thread, p, stack, handed>>
  BY DEF emacps_recv_handler_Loop, descriptors, device, consumer
<1>2. n \in 0..N
  BY ScanBound
<1>3. /\ recv_q' \in Seq(Pbufs) /\ Len(recv_q') <= PQ_QUEUE_SIZE
      /\ pool' \in SUBSET Pbufs
  BY <1>1, <1>2, Enqueue
<1>. HIDE DEF n, s
<1>4. n \in Nat /\ HwHead \in Nat
  BY <1>2, SizesAssumption, SMT DEF IInv, TypeOK, Bds
<1>5. HwHead' \in Bds
  BY <1>1, <1>4, NextInRing
<1>6. HwCnt' \in Int /\ FreeCnt' \in Int
  BY <1>1, <1>4, SMT DEF IInv, TypeOK
<1>7. todo' \in Seq(Calls) /\ HasSignal(todo)'
  <2>1. todo \in Seq(Calls)
    BY DEF IInv, TypeOK
  <2>2. /\ <<"setup", "signal">> \o todo \in Seq(Calls)
        /\ HasSignal(<<"setup", "signal">> \o todo)
    BY <2>1, Literals, Prepend
  <2>. QED  BY <1>1, <2>2 DEF HasSignal
<1>8. TypeOK'
  BY <1>1, <1>3, <1>5, <1>6, <1>7 DEF IInv, TypeOK
<1>9. NoPacketStranded'
  BY <1>7 DEF NoPacketStranded, HasSignal
<1>. QED  BY <1>8, <1>9 DEF IInv

LEMMA SetupKeeps == ASSUME IInv, setup_rx_bds PROVE IInv'
<1>1. /\ pool # {} /\ pool' = pool \ {pbuf_alloc}
      /\ content' = [content EXCEPT ![pbuf_alloc] = 0]
      /\ FreeCnt' = FreeCnt - 1 /\ HwCnt' = HwCnt + 1
      /\ bd' = [bd EXCEPT ![FreeHead] = [new |-> FALSE, addr |-> Null]]
      /\ rx_pbufs_storage' = [rx_pbufs_storage EXCEPT ![FreeHead] = pbuf_alloc]
      /\ todo' = <<"address">> \o todo
      /\ UNCHANGED <<HwHead, FreeHead, word, erased, dma, wire, isr, rxsr, recv_q, sem,
                     thread, p, stack, handed>>
  BY DEF setup_rx_bds, device, consumer
<1>2. pbuf_alloc \in Pbufs
  BY <1>1, AllocFromPool DEF IInv, TypeOK
<1>3. FreeCnt' \in Int /\ HwCnt' \in Int /\ 0 \in Nat
  BY <1>1, SMT DEF IInv, TypeOK
<1>4. /\ bd' \in [Bds -> [new : BOOLEAN, addr : Pbufs \cup {Null}]]
      /\ rx_pbufs_storage' \in [Bds -> Pbufs] /\ content' \in [Pbufs -> Nat]
      /\ pool' \in SUBSET Pbufs
  BY <1>1, <1>2, <1>3 DEF IInv, TypeOK
<1>5. todo' \in Seq(Calls) /\ (HasSignal(todo) => HasSignal(todo)')
  <2>1. todo \in Seq(Calls)
    BY DEF IInv, TypeOK
  <2>2. /\ <<"address">> \o todo \in Seq(Calls)
        /\ HasSignal(todo) => HasSignal(<<"address">> \o todo)
    BY <2>1, Literals, Prepend
  <2>. QED  BY <1>1, <2>2 DEF HasSignal
<1>6. TypeOK'
  BY <1>1, <1>3, <1>4, <1>5 DEF IInv, TypeOK
<1>7. NoPacketStranded'
  BY <1>1, <1>5, StrandsNothing DEF IInv
<1>. QED  BY <1>6, <1>7 DEF IInv

LEMMA ReadKeeps == ASSUME IInv, XEmacPs_BdSetAddressRx_Read PROVE IInv'
<1>1. /\ word' = (IF bd[FreeHead].new THEN "new" ELSE "empty")
      /\ UNCHANGED <<HwHead, HwCnt, FreeHead, FreeCnt, erased, bd, rx_pbufs_storage, content,
                     dma, wire, isr, rxsr, todo, pool, recv_q, sem, thread, p, stack, handed>>
  BY DEF XEmacPs_BdSetAddressRx_Read, descriptors, device, consumer
<1>2. word' \in {"unread", "new", "empty"}
  BY <1>1
<1>3. TypeOK'
  BY <1>1, <1>2 DEF IInv, TypeOK
<1>4. NoPacketStranded'
  BY <1>1 DEF IInv, NoPacketStranded
<1>. QED  BY <1>3, <1>4 DEF IInv

LEMMA WriteKeeps == ASSUME IInv, XEmacPs_BdSetAddressRx_Write PROVE IInv'
<1>1. /\ todo # <<>> /\ Head(todo) = "address"
      /\ bd' = [bd EXCEPT ![FreeHead] =
                   [new |-> word = "new", addr |-> rx_pbufs_storage[FreeHead]]]
      /\ erased' = (erased \/ (bd[FreeHead].new /\ word = "empty")) /\ word' = "unread"
      /\ FreeHead' = XEmacPs_BdRingNext(FreeHead, 1) /\ todo' = Tail(todo)
      /\ UNCHANGED <<HwHead, HwCnt, FreeCnt, rx_pbufs_storage, content, dma, wire, isr,
                     rxsr, pool, recv_q, sem, thread, p, stack, handed>>
  BY DEF XEmacPs_BdSetAddressRx_Write, Doing, device, consumer
<1>2. FreeHead' \in Bds
  <2>1. FreeHead \in Nat /\ 1 \in Nat
    BY SizesAssumption, SMT DEF IInv, TypeOK, Bds
  <2>. QED  BY <1>1, <2>1, NextInRing
<1>3. bd' \in [Bds -> [new : BOOLEAN, addr : Pbufs \cup {Null}]]
  <2>1. /\ bd \in [Bds -> [new : BOOLEAN, addr : Pbufs \cup {Null}]] /\ FreeHead \in Bds
        /\ rx_pbufs_storage[FreeHead] \in Pbufs
    BY DEF IInv, TypeOK
  <2>2. [new |-> word = "new", addr |-> rx_pbufs_storage[FreeHead]]
           \in [new : BOOLEAN, addr : Pbufs \cup {Null}]
    BY <2>1
  <2>. QED  BY <1>1, <2>1, <2>2
<1>4. todo' \in Seq(Calls) /\ (HasSignal(todo) => HasSignal(todo)')
  <2>1. todo \in Seq(Calls)
    BY DEF IInv, TypeOK
  <2>2. Tail(todo) \in Seq(Calls) /\ (HasSignal(todo) => HasSignal(Tail(todo)))
    BY <1>1, <2>1, Pop
  <2>. QED  BY <1>1, <2>2 DEF HasSignal
<1>5. word' \in {"unread", "new", "empty"} /\ erased' \in BOOLEAN
  BY <1>1 DEF IInv, TypeOK
<1>6. TypeOK'
  BY <1>1, <1>2, <1>3, <1>4, <1>5 DEF IInv, TypeOK
<1>7. NoPacketStranded'
  BY <1>1, <1>4, StrandsNothing DEF IInv
<1>. QED  BY <1>6, <1>7 DEF IInv

LEMMA SignalKeeps == ASSUME IInv, sys_sem_signal PROVE IInv'
<1>1. /\ todo # <<>> /\ sem' = TRUE /\ todo' = Tail(todo)
      /\ UNCHANGED <<HwHead, HwCnt, FreeHead, FreeCnt, word, erased, bd, rx_pbufs_storage,
                     content, dma, wire, isr, rxsr, pool, recv_q, thread, p, stack, handed>>
  BY DEF sys_sem_signal, Doing, ring, descriptors, device
<1>2. todo' \in Seq(Calls)
  BY <1>1, Pop DEF IInv, TypeOK
<1>3. TypeOK'
  BY <1>1, <1>2 DEF IInv, TypeOK
<1>4. NoPacketStranded'
  BY <1>1 DEF NoPacketStranded
<1>. QED  BY <1>3, <1>4 DEF IInv

-----------------------------------------------------------------------------
\* A step of a thread.
LEMMA ThreadKeeps ==
  ASSUME IInv, UNCHANGED <<ring, descriptors, content, device, todo>>,
         pool' \in SUBSET Pbufs, stack' \in SUBSET Pbufs, handed' \in Nat,
         recv_q' \in Seq(Pbufs), Len(recv_q') <= PQ_QUEUE_SIZE, sem' \in BOOLEAN,
         thread' \in {"wait", "input", "hand", "delay"}, p' \in Pbufs \cup {Null},
         thread' = "hand" <=> p' # Null,
         NoPacketStranded'
  PROVE  IInv'
<1>1. UNCHANGED <<HwHead, HwCnt, FreeHead, FreeCnt, word, erased, bd, rx_pbufs_storage,
                  content, dma, wire, isr, rxsr, todo>>
  BY DEF ring, descriptors, device
<1>2. TypeOK'
  BY <1>1 DEF IInv, TypeOK
<1>. QED  BY <1>2 DEF IInv

LEMMA WaitKeeps == ASSUME IInv, sys_sem_wait PROVE IInv'
<1>1. /\ thread = "wait" /\ sem' = FALSE /\ thread' = "input"
      /\ UNCHANGED <<ring, descriptors, content, device, todo>>
      /\ UNCHANGED <<pool, recv_q, p, stack, handed>>
  BY DEF sys_sem_wait
<1>2. NoPacketStranded'
  BY <1>1 DEF NoPacketStranded
<1>. QED  BY <1>1, <1>2, ThreadKeeps DEF IInv, TypeOK

LEMMA InputKeeps == ASSUME IInv, low_level_input PROVE IInv'
<1>1. /\ thread = "input"
      /\ UNCHANGED <<ring, descriptors, content, device, todo>>
      /\ UNCHANGED <<pool, sem, stack, handed>>
  BY DEF low_level_input
<1>2. CASE recv_q = <<>>
  <2>1. thread' = "delay" /\ recv_q' = recv_q /\ p' = p
    BY <1>2 DEF low_level_input
  <2>2. NoPacketStranded'
    BY <1>2, <2>1 DEF NoPacketStranded
  <2>. QED  BY <1>1, <2>1, <2>2, ThreadKeeps DEF IInv, TypeOK
<1>3. CASE recv_q # <<>>
  <2>1. thread' = "hand" /\ p' = Head(recv_q) /\ recv_q' = Tail(recv_q)
    BY <1>3 DEF low_level_input
  <2>2. recv_q \in Seq(Pbufs) /\ Len(recv_q) <= PQ_QUEUE_SIZE
    BY DEF IInv, TypeOK
  <2>3. /\ Head(recv_q) \in Pbufs /\ Tail(recv_q) \in Seq(Pbufs)
        /\ Len(Tail(recv_q)) = Len(recv_q) - 1
    BY <1>3, <2>2, HeadTailProperties
  <2>4. Len(recv_q) \in Nat
    BY <2>2, SMT
  <2>5. Len(recv_q') <= PQ_QUEUE_SIZE
    BY <2>1, <2>2, <2>3, <2>4, SizesAssumption, SMT
  <2>6. p' \in Pbufs /\ p' # Null
    BY <2>1, <2>3, PbufsAssumption
  <2>7. NoPacketStranded'
    BY <2>1 DEF NoPacketStranded
  <2>. QED  BY <1>1, <2>1, <2>3, <2>5, <2>6, <2>7, ThreadKeeps DEF IInv, TypeOK
<1>. QED  BY <1>2, <1>3

LEMMA HandKeeps ==
  ASSUME IInv, xemacpsif_input_Hand \/ xemacpsif_input_Free
  PROVE  IInv'
<1>1. /\ thread = "hand" /\ thread' = "input" /\ p' = Null
      /\ UNCHANGED <<ring, descriptors, content, device, todo>>
      /\ UNCHANGED <<recv_q, sem>>
  BY DEF xemacpsif_input_Hand, xemacpsif_input_Free
<1>2. p \in Pbufs
  BY <1>1 DEF IInv, TypeOK
<1>3. content[p] \in Nat
  BY <1>2 DEF IInv, TypeOK
<1>4. pool' \in SUBSET Pbufs /\ stack' \in SUBSET Pbufs /\ handed' \in Nat
  BY <1>2, <1>3 DEF xemacpsif_input_Hand, xemacpsif_input_Free, IInv, TypeOK
<1>5. NoPacketStranded'
  BY <1>1 DEF NoPacketStranded
<1>. QED  BY <1>1, <1>4, <1>5, ThreadKeeps DEF IInv, TypeOK

\* The thread sleeps with the queue as it found it: what was queued since it
\* saw the queue empty has left the semaphore signalled.
LEMMA DelayKeeps == ASSUME IInv, vTaskDelay PROVE IInv'
<1>1. /\ thread = "delay" /\ thread' = "wait"
      /\ UNCHANGED <<ring, descriptors, content, device, todo>>
      /\ UNCHANGED <<pool, recv_q, sem, p, stack, handed>>
  BY DEF vTaskDelay
<1>2. NoPacketStranded'
  BY <1>1 DEF IInv, NoPacketStranded
<1>. QED  BY <1>1, <1>2, ThreadKeeps DEF IInv, TypeOK

LEMMA FreeKeeps == ASSUME IInv, NEW b \in Pbufs, pbuf_free(b) PROVE IInv'
<1>1. /\ stack' = stack \ {b} /\ pool' = pool \cup {b}
      /\ UNCHANGED <<ring, descriptors, content, device, todo>>
      /\ UNCHANGED <<recv_q, sem, thread, p, handed>>
  BY DEF pbuf_free
<1>2. NoPacketStranded'
  BY <1>1 DEF IInv, NoPacketStranded
<1>. QED  BY <1>1, <1>2, ThreadKeeps DEF IInv, TypeOK

LEMMA StutterKeeps == ASSUME IInv, UNCHANGED vars PROVE IInv'
<1>1. UNCHANGED <<ring, descriptors, content, device, todo>>
  BY DEF vars
<1>2. UNCHANGED <<pool, recv_q, sem, thread, p, stack, handed>>
  BY DEF vars, consumer
<1>3. todo' = todo
  BY <1>1
<1>4. NoPacketStranded'
  BY <1>2, <1>3 DEF IInv, NoPacketStranded
<1>. QED  BY <1>1, <1>2, <1>4, ThreadKeeps DEF IInv, TypeOK

-----------------------------------------------------------------------------
LEMMA NextKeeps == IInv /\ [Next]_vars => IInv'
<1>. SUFFICES ASSUME IInv, [Next]_vars PROVE IInv'
  OBVIOUS
<1>1. CASE Receive
  BY <1>1, ReceiveKeeps
<1>2. CASE \E why \in {"RXOVR", "BUFFNA"} : Lose(why)
  BY <1>2, LoseKeeps
<1>3. CASE XEmacPs_IntrHandler
  BY <1>3, IntrKeeps
<1>4. CASE HandlerStep
  BY <1>4, ErrorKeeps, RecvKeeps, LoopKeeps, ReturnKeeps, SetupKeeps, ReadKeeps,
     WriteKeeps, SignalKeeps DEF HandlerStep
<1>5. CASE ThreadStep
  BY <1>5, WaitKeeps, InputKeeps, HandKeeps, DelayKeeps DEF ThreadStep
<1>6. CASE \E b \in Pbufs : pbuf_free(b)
  BY <1>6, FreeKeeps
<1>7. CASE UNCHANGED vars
  BY <1>7, StutterKeeps
<1>. QED  BY <1>1, <1>2, <1>3, <1>4, <1>5, <1>6, <1>7 DEF Next

LEMMA InvHolds == Spec => []IInv
  BY InitInv, NextKeeps, PTL DEF Spec

\* The queue never outgrows PQ_QUEUE_SIZE, the indices stay in the ring, and
\* the thread holds a pbuf exactly while it hands it on.
THEOREM EmacTypeCorrect == Spec => []TypeOK
<1>1. IInv => TypeOK
  BY DEF IInv
<1>. QED  BY <1>1, InvHolds, PTL

\* However the handler's rounds fall between the thread's steps, a queued
\* packet has a signal ahead of it, on the way or consumed (sys_sem_signal
\* after pq_enqueue, a binary semaphore, xemacpsif_input until the queue is
\* empty) - in any ring, and when the pool is exhausted too.
THEOREM NothingStranded == Spec => []NoPacketStranded
<1>1. IInv => NoPacketStranded
  BY DEF IInv
<1>. QED  BY <1>1, InvHolds, PTL

-----------------------------------------------------------------------------
(***************************************************************************)
(* The ring, the owners of the pbufs and the order of the frames.  They    *)
(* need pbuf_alloc to succeed in the refill: after a failure the scan goes *)
(* on into descriptors that have not been refilled.                        *)
(***************************************************************************)
PoolLasts == Doing("setup") /\ FreeCnt > 0 => pool # {}

\* One turn round the ring.
LEMMA NextVal ==
  ASSUME NEW i \in Bds, NEW k \in 0..N
  PROVE  XEmacPs_BdRingNext(i, k) = IF i + k < N THEN i + k ELSE i + k - N
<1>1. N \in Nat \ {0} /\ i \in Nat /\ k \in Nat /\ i < N /\ k <= N
  BY SizesAssumption, SMT DEF Bds
<1>2. \A a \in Nat, m \in Nat \ {0} : a < m => a % m = a
  BY SMT
<1>3. \A a \in Nat, m \in Nat \ {0} : m <= a /\ a < m + m => a % m = a - m
  BY SMT
<1>4. i + k \in Nat /\ i + k < N + N
  BY <1>1, SMT
<1>5. CASE i + k < N
  BY <1>1, <1>2, <1>4, <1>5 DEF XEmacPs_BdRingNext
<1>6. CASE ~(i + k < N)
  <2>1. N <= i + k
    BY <1>1, <1>4, <1>6, SMT
  <2>2. (i + k) % N = (i + k) - N
    BY <1>1, <1>3, <1>4, <2>1, Zenon
  <2>3. XEmacPs_BdRingNext(i, k) = (i + k) - N
    BY <2>2 DEF XEmacPs_BdRingNext
  <2>. QED  BY <1>1, <1>6, <2>3
<1>. QED  BY <1>5, <1>6

\* The descriptors of one turn are different, and are all there are.
LEMMA NextInjective ==
  ASSUME NEW i \in Bds, NEW k \in 0..(N - 1), NEW l \in 0..(N - 1),
         XEmacPs_BdRingNext(i, k) = XEmacPs_BdRingNext(i, l)
  PROVE  k = l
<1>1. N \in Nat \ {0} /\ i \in Nat /\ i < N /\ k \in 0..N /\ l \in 0..N
  BY SizesAssumption, SMT DEF Bds
<1>. DEFINE f(x) == IF i + x < N THEN i + x ELSE i + x - N
<1>2. f(k) = f(l)
  BY <1>1, NextVal
<1>. QED  BY <1>1, <1>2, SMT

LEMMA NextCovers ==
  ASSUME NEW i \in Bds, NEW j \in Bds
  PROVE  \E k \in 0..(N - 1) : j = XEmacPs_BdRingNext(i, k)
<1>1. N \in Nat \ {0} /\ i \in Nat /\ i < N /\ j \in Nat /\ j < N
  BY SizesAssumption, SMT DEF Bds
<1>. DEFINE k == IF i <= j THEN j - i ELSE j - i + N
<1>2. k \in 0..(N - 1) /\ k \in 0..N /\ j = IF i + k < N THEN i + k ELSE i + k - N
  BY <1>1, SMT
<1>. HIDE DEF k
<1>. QED  BY <1>2, NextVal

\* Two moves are one move.
LEMMA NextAdds ==
  ASSUME NEW i \in Bds, NEW k \in 0..N, NEW l \in 0..N, k + l <= N
  PROVE  XEmacPs_BdRingNext(XEmacPs_BdRingNext(i, k), l) = XEmacPs_BdRingNext(i, k + l)
<1>1. N \in Nat \ {0} /\ i \in Nat /\ i < N /\ k \in Nat /\ l \in Nat /\ k + l \in 0..N
  BY SizesAssumption, SMT DEF Bds
<1>. DEFINE a == XEmacPs_BdRingNext(i, k)
<1>2. a \in Bds
  BY <1>1, NextInRing
<1>3. /\ a = IF i + k < N THEN i + k ELSE i + k - N
      /\ XEmacPs_BdRingNext(i, k + l) = IF i + (k + l) < N THEN i + (k + l) ELSE i + (k + l) - N
  BY <1>1, NextVal
<1>4. XEmacPs_BdRingNext(a, l) = IF a + l < N THEN a + l ELSE a + l - N
  BY <1>2, NextVal
<1>. HIDE DEF a
<1>5. (IF a + l < N THEN a + l ELSE a + l - N)
         = IF i + (k + l) < N THEN i + (k + l) ELSE i + (k + l) - N
  BY <1>1, <1>3, SMT
<1>. QED  BY <1>3, <1>4, <1>5 DEF a

\* Round once, past the place where it began.
LEMMA NextWraps ==
  ASSUME NEW i \in Bds, NEW k \in 0..N, NEW l \in 0..N, N <= k + l
  PROVE  XEmacPs_BdRingNext(XEmacPs_BdRingNext(i, k), l) = XEmacPs_BdRingNext(i, k + l - N)
<1>1. N \in Nat \ {0} /\ i \in Nat /\ i < N /\ k \in Nat /\ l \in Nat /\ k + l - N \in 0..N
  BY SizesAssumption, SMT DEF Bds
<1>. DEFINE a == XEmacPs_BdRingNext(i, k)
            d == k + l - N
<1>2. a \in Bds
  BY <1>1, NextInRing
<1>3. /\ a = IF i + k < N THEN i + k ELSE i + k - N
      /\ XEmacPs_BdRingNext(i, d) = IF i + d < N THEN i + d ELSE i + d - N
  BY <1>1, NextVal
<1>4. XEmacPs_BdRingNext(a, l) = IF a + l < N THEN a + l ELSE a + l - N
  BY <1>2, NextVal
<1>. HIDE DEF a
<1>5. (IF a + l < N THEN a + l ELSE a + l - N) = IF i + d < N THEN i + d ELSE i + d - N
  BY <1>1, <1>3, SMT
<1>. QED  BY <1>3, <1>4, <1>5 DEF a

-----------------------------------------------------------------------------
\* The descriptor k places after HwHead.
At(k) == XEmacPs_BdRingNext(HwHead, k)

\* A descriptor is missing from the device only while setup_rx_bds is at work;
\* "address" is the rest of one of its rounds.
CallsInv ==
    /\ ~Doing("setup") /\ ~Doing("address") => HwCnt = N
    /\ Doing("address") => Len(todo) >= 2 /\ todo[2] = "setup"
    /\ \A k \in 2..Len(todo) : todo[k] # "address"

\* Of the descriptors from HwHead on the first n are completed, the others up
\* to HwCnt are empty, and the rest are still marked as they came back.
Split(n) ==
    /\ dma = At(n)
    /\ \A k \in 0..(N - 1) : bd[At(k)].new <=> (k < n \/ k >= HwCnt)

RingInv ==
    /\ HwCnt \in 0..N /\ FreeCnt = N - HwCnt
    /\ Doing("address") => HwCnt > 0 /\ FreeHead = At(HwCnt - 1)
    /\ ~Doing("address") => FreeHead = At(HwCnt)

\* It is so split until the refill erases a new bit.
SplitInv == \E n \in 0..HwCnt : Split(n)

\* What XEmacPs_BdSetAddressRx has read: a new bit it has seen is still there,
\* as only the handler takes one away.
WordInv ==
    /\ word # "unread" => Doing("address")
    /\ word = "new" => bd[FreeHead].new

NoAddress(s) == \A k \in 1..Len(s) : s[k] # "address"

LEMMA AtInRing ==
  ASSUME IInv
  PROVE  N \in Nat \ {0} /\ HwHead \in Bds /\ \A k \in 0..N : At(k) \in Bds
<1>1. N \in Nat \ {0} /\ HwHead \in Bds
  BY SizesAssumption DEF IInv, TypeOK
<1>2. HwHead \in Nat
  BY <1>1, SMT DEF Bds
<1>3. \A k \in 0..N : k \in Nat
  BY <1>1, SMT
<1>. QED  BY <1>1, <1>2, <1>3, NextInRing DEF At

LEMMA HeadIsFirst ==
  ASSUME NEW s \in Seq(Calls), Len(s) # 0
  PROVE  s # <<>> /\ Head(s) = s[1]
  BY SMT

\* What is left to do after a call, and a list put in front of it.
LEMMA TailNoAddress ==
  ASSUME IInv, CallsInv, todo # <<>>
  PROVE  Tail(todo) \in Seq(Calls) /\ NoAddress(Tail(todo))
<1>1. todo \in Seq(Calls)
  BY DEF IInv, TypeOK
<1>2. /\ Tail(todo) \in Seq(Calls) /\ Len(Tail(todo)) = Len(todo) - 1
      /\ \A i \in 1..Len(Tail(todo)) : Tail(todo)[i] = todo[i + 1]
  BY <1>1, HeadTailProperties
<1>3. Len(todo) \in Nat
  BY <1>1, SMT
<1>4. \A i \in 1..Len(Tail(todo)) : i + 1 \in 2..Len(todo)
  BY <1>2, <1>3, SMT
<1>. QED  BY <1>2, <1>4 DEF CallsInv, NoAddress

LEMMA ConcatNoAddress ==
  ASSUME NEW s \in Seq(Calls), NEW r \in Seq(Calls), NoAddress(s), NoAddress(r)
  PROVE  s \o r \in Seq(Calls) /\ NoAddress(s \o r)
<1>1. Len(s) \in Nat /\ Len(r) \in Nat
  BY SMT
<1>2. s \o r \in Seq(Calls) /\ Len(s \o r) = Len(s) + Len(r)
  BY ConcatProperties
<1>3. \A i \in 1..(Len(s) + Len(r)) :
        (s \o r)[i] = IF i <= Len(s) THEN s[i] ELSE r[i - Len(s)]
  BY ConcatProperties
<1>4. \A i \in 1..(Len(s) + Len(r)) :
        IF i <= Len(s) THEN i \in 1..Len(s) ELSE i - Len(s) \in 1..Len(r)
  BY <1>1, SMT
<1>. QED  BY <1>2, <1>3, <1>4 DEF NoAddress

LEMMA NotDoingAddress ==
  ASSUME NEW s \in Seq(Calls), NoAddress(s), s # <<>>
  PROVE  Head(s) # "address" /\ \A k \in 2..Len(s) : s[k] # "address"
<1>1. Len(s) \in Nat \ {0} /\ Head(s) = s[1]
  BY SMT
<1>2. 1 \in 1..Len(s) /\ \A k \in 2..Len(s) : k \in 1..Len(s)
  BY <1>1, SMT
<1>. QED  BY <1>1, <1>2 DEF NoAddress

LEMMA ShortNoAddress ==
  /\ NoAddress(<<>>) /\ NoAddress(<<"recv">>) /\ NoAddress(<<"error">>)
  /\ NoAddress(<<"recv", "setup">>) /\ NoAddress(<<"loop">>)
  /\ NoAddress(<<"setup", "signal">>)
  BY DEF NoAddress

\* A call that leaves the ring alone, with every descriptor at the device.
LEMMA CallKeepsRing ==
  ASSUME RingInv, ~Doing("address"), HwCnt = N,
         todo' \in Seq(Calls), NoAddress(todo)',
         UNCHANGED ring, bd' = bd, dma' = dma
  PROVE  CallsInv' /\ RingInv' /\ (SplitInv => SplitInv')
<1>1. HwHead' = HwHead /\ HwCnt' = HwCnt /\ FreeHead' = FreeHead /\ FreeCnt' = FreeCnt
  BY DEF ring
<1>2. ~Doing("address")' /\ \A k \in 2..Len(todo') : todo'[k] # "address"
  <2>1. CASE todo' = <<>>
    <3>1. 2..Len(<<>>) = {}
      BY SMT
    <3>. QED  BY <2>1, <3>1 DEF Doing
  <2>2. CASE todo' # <<>>
    <3>1. Head(todo') # "address" /\ \A k \in 2..Len(todo') : todo'[k] # "address"
      BY <2>2, NotDoingAddress DEF NoAddress
    <3>. QED  BY <3>1 DEF Doing
  <2>. QED  BY <2>1, <2>2
<1>3. CallsInv'
  BY <1>1, <1>2 DEF CallsInv
<1>4. RingInv'
  BY <1>1, <1>2 DEF RingInv, At
<1>5. SplitInv => SplitInv'
  BY <1>1 DEF SplitInv, Split, At
<1>. QED  BY <1>3, <1>4, <1>5

LEMMA SameKeepsRing ==
  ASSUME CallsInv, RingInv, HwHead' = HwHead, HwCnt' = HwCnt, FreeHead' = FreeHead,
         FreeCnt' = FreeCnt, bd' = bd, dma' = dma, todo' = todo
  PROVE  CallsInv' /\ RingInv' /\ (SplitInv => SplitInv')
<1>1. CallsInv' /\ RingInv'
  BY DEF CallsInv, RingInv, At, Doing
<1>2. SplitInv => SplitInv'
  BY DEF SplitInv, Split, At
<1>. QED  BY <1>1, <1>2

\* The DMA writes to an empty descriptor only, which becomes the last of the
\* completed ones.
LEMMA ReceivesInto ==
  ASSUME IInv, RingInv, NEW n \in 0..HwCnt, Split(n), ~bd[dma].new
  PROVE  n \in 0..(HwCnt - 1)
<1>1. N \in Nat \ {0} /\ HwHead \in Bds
  BY AtInRing
<1>2. HwCnt \in 0..N
  BY DEF RingInv
<1>3. SUFFICES ASSUME n = HwCnt PROVE FALSE
  BY <1>1, <1>2, SMT
<1>4. CASE HwCnt < N
  <2>1. n \in 0..(N - 1) /\ n >= HwCnt
    BY <1>1, <1>2, <1>3, <1>4, SMT
  <2>. QED  BY <2>1 DEF Split
<1>5. CASE ~(HwCnt < N)
  <2>1. n = N /\ 0 \in 0..(N - 1) /\ 0 < n /\ 0 \in 0..N /\ N \in 0..N
    BY <1>1, <1>2, <1>3, <1>5, SMT
  <2>2. At(N) = At(0)
    <3>1. HwHead \in Nat /\ ~(HwHead + N < N) /\ HwHead + 0 < N /\ HwHead + N - N = HwHead + 0
      BY <1>1, SMT DEF Bds
    <3>2. /\ At(N) = IF HwHead + N < N THEN HwHead + N ELSE HwHead + N - N
          /\ At(0) = IF HwHead + 0 < N THEN HwHead + 0 ELSE HwHead + 0 - N
      BY <1>1, <2>1, NextVal DEF At
    <3>. QED  BY <3>1, <3>2
  <2>. QED  BY <2>1, <2>2 DEF Split
<1>. QED  BY <1>4, <1>5

LEMMA ReceiveSplits ==
  ASSUME IInv, RingInv, SplitInv, Receive
  PROVE  \E n \in 0..(HwCnt - 1) : Split(n) /\ Split(n + 1)'
<1>1. /\ ~bd[dma].new /\ bd' = [bd EXCEPT ![dma].new = TRUE]
      /\ dma' = XEmacPs_BdRingNext(dma, 1) /\ HwHead' = HwHead /\ HwCnt' = HwCnt
  BY DEF Receive, ring
<1>2. N \in Nat \ {0} /\ HwHead \in Bds /\ HwCnt \in 0..N
  BY AtInRing DEF RingInv
<1>3. PICK n \in 0..HwCnt : Split(n)
  BY DEF SplitInv
<1>4. n \in 0..(HwCnt - 1)
  BY <1>1, <1>3, ReceivesInto
<1>5. n \in 0..N /\ n \in 0..(N - 1) /\ 1 \in 0..N /\ n + 1 <= N
  BY <1>2, <1>4, SMT
<1>6. dma' = At(n + 1)
  BY <1>1, <1>2, <1>3, <1>5, NextAdds DEF Split, At
<1>7. ASSUME NEW k \in 0..(N - 1)
      PROVE  bd'[At(k)].new <=> (k < n + 1 \/ k >= HwCnt)
  <2>1. bd \in [Bds -> [new : BOOLEAN, addr : Pbufs \cup {Null}]] /\ dma \in Bds
    BY DEF IInv, TypeOK
  <2>2. k \in 0..N
    BY <1>2, SMT
  <2>3. At(k) \in Bds
    BY <2>2, AtInRing
  <2>4. CASE k = n
    <3>1. bd'[At(k)].new
      BY <1>1, <1>3, <2>1, <2>4 DEF Split
    <3>2. k < n + 1
      BY <1>2, <1>5, <2>4, SMT
    <3>. QED  BY <3>1, <3>2
  <2>5. CASE k # n
    <3>1. At(k) # dma
      BY <1>2, <1>3, <1>5, <2>5, NextInjective DEF Split, At
    <3>2. bd'[At(k)] = bd[At(k)]
      BY <1>1, <2>1, <2>3, <3>1
    <3>3. k < n + 1 <=> k < n
      BY <1>2, <1>5, <2>5, SMT
    <3>. QED  BY <1>3, <3>2, <3>3 DEF Split
  <2>. QED  BY <2>4, <2>5
<1>8. Split(n + 1)'
  BY <1>1, <1>6, <1>7 DEF Split, At
<1>. QED  BY <1>3, <1>4, <1>8

LEMMA ReceiveKeepsRing ==
  ASSUME IInv, CallsInv, RingInv, Receive
  PROVE  CallsInv' /\ RingInv' /\ (SplitInv => SplitInv')
<1>1. /\ HwHead' = HwHead /\ HwCnt' = HwCnt /\ FreeHead' = FreeHead /\ FreeCnt' = FreeCnt
      /\ todo' = todo
  BY DEF Receive, ring
<1>2. HwCnt \in 0..N /\ N \in Nat
  BY AtInRing DEF RingInv
<1>3. ASSUME SplitInv PROVE SplitInv'
  <2>1. PICK n \in 0..(HwCnt - 1) : Split(n + 1)'
    BY <1>3, ReceiveSplits
  <2>2. n + 1 \in 0..HwCnt
    BY <1>2, SMT
  <2>. QED  BY <1>1, <2>1, <2>2 DEF SplitInv
<1>4. RingInv'
  BY <1>1 DEF RingInv, At, Doing
<1>. QED  BY <1>1, <1>3, <1>4 DEF CallsInv, Doing

\* Of the descriptors the scan returns, those at the device are the completed
\* ones: it runs past them only when all of the device's are completed.
LEMMA ScanSeesSplit ==
  ASSUME IInv, RingInv, NEW n \in 0..HwCnt, Split(n)
  PROVE  Smaller(XEmacPs_BdRingFromHwRx, HwCnt) = n
<1>. DEFINE S == {m \in 1..N : \A k \in 0..(m - 1) : bd[XEmacPs_BdRingNext(HwHead, k)].new}
            e == IF n = HwCnt THEN N ELSE n
<1>1. N \in Nat \ {0} /\ HwCnt \in 0..N
  BY AtInRing DEF RingInv
<1>2. e \in Nat /\ e <= N /\ n \in Nat /\ n <= HwCnt
  BY <1>1, SMT
<1>3. CASE HwCnt = 0
  <2>1. XEmacPs_BdRingFromHwRx = 0
    BY <1>3 DEF XEmacPs_BdRingFromHwRx
  <2>. QED  BY <1>1, <1>3, <2>1, SMT DEF Smaller
<1>4. CASE HwCnt # 0
  <2>1. \A k \in 0..(N - 1) :
           bd[XEmacPs_BdRingNext(HwHead, k)].new <=> (k < n \/ k >= HwCnt)
    BY DEF Split, At
  <2>2. ASSUME NEW m \in 1..e PROVE m \in S
    <3>1. m \in 1..N /\ \A k \in 0..(m - 1) : k \in 0..(N - 1) /\ (k < n \/ k >= HwCnt)
      BY <1>1, <1>2, SMT
    <3>. QED  BY <2>1, <3>1
  <2>3. ASSUME NEW m \in S PROVE m \in 1..e
    <3>1. m \in 1..N
      OBVIOUS
    <3>2. CASE n = HwCnt
      BY <3>1, <3>2
    <3>3. CASE n # HwCnt
      <4>1. ~(n \in 0..(m - 1))
        <5>1. n \in 0..(N - 1) /\ ~(n < n) /\ ~(n >= HwCnt)
          BY <1>1, <1>2, <3>3, SMT
        <5>. QED  BY <2>1, <5>1
      <4>. QED  BY <1>1, <1>2, <3>1, <3>3, <4>1, SMT
    <3>. QED  BY <3>2, <3>3
  <2>4. S = 1..e
    BY <2>2, <2>3
  <2>5. Cardinality(1..e) = e
    <3>1. 1 \in Int /\ e \in Int /\ (1 > e => e = 0) /\ e - 1 + 1 = e
      BY <1>2, SMT
    <3>. QED  BY <3>1, FS_Interval
  <2>6. XEmacPs_BdRingFromHwRx = e
    BY <1>4, <2>4, <2>5 DEF XEmacPs_BdRingFromHwRx
  <2>. QED  BY <1>1, <1>2, <2>6, SMT DEF Smaller
<1>. QED  BY <1>3, <1>4

LEMMA ScanIsSplit ==
  ASSUME IInv, RingInv, HwCnt = N, NEW n \in 0..HwCnt, Split(n)
  PROVE  XEmacPs_BdRingFromHwRx = n
<1>1. XEmacPs_BdRingFromHwRx \in 0..N /\ Smaller(XEmacPs_BdRingFromHwRx, N) = n /\ N \in Nat
  BY ScanBound, ScanSeesSplit, AtInRing
<1>. QED  BY <1>1, SMT DEF Smaller

\* The first n descriptors come back; those after them, n of them less, start
\* with the first empty one.
LEMMA AtMoves ==
  ASSUME IInv, NEW n \in 0..N, HwHead' = At(n)
  PROVE  /\ \A k \in 0..(N - n) : At(k)' = At(n + k)
         /\ \A k \in (N - n)..(N - 1) : At(k)' = At(n + k - N)
<1>1. N \in Nat \ {0} /\ HwHead \in Bds /\ n \in Nat /\ n <= N
  BY AtInRing, SMT
<1>2. \A k : At(k)' = XEmacPs_BdRingNext(XEmacPs_BdRingNext(HwHead, n), k)
  BY DEF At, XEmacPs_BdRingNext
<1>3. ASSUME NEW k \in 0..(N - n) PROVE At(k)' = At(n + k)
  <2>1. k \in 0..N /\ n + k <= N
    BY <1>1, SMT
  <2>. QED  BY <1>1, <1>2, <2>1, NextAdds DEF At
<1>4. ASSUME NEW k \in (N - n)..(N - 1) PROVE At(k)' = At(n + k - N)
  <2>1. k \in 0..N /\ N <= n + k
    BY <1>1, SMT
  <2>. QED  BY <1>1, <1>2, <2>1, NextWraps DEF At
<1>. QED  BY <1>3, <1>4

LEMMA LoopFacts ==
  ASSUME IInv, CallsInv, RingInv, emacps_recv_handler_Loop
  PROVE  \E n \in 1..N :
           /\ n = XEmacPs_BdRingFromHwRx /\ (SplitInv => Split(n))
           /\ HwCnt = N /\ FreeCnt = 0 /\ FreeHead = At(N)
           /\ HwHead' = At(n) /\ HwCnt' = N - n /\ FreeCnt' = n
           /\ FreeHead' = FreeHead /\ bd' = bd /\ dma' = dma
           /\ rx_pbufs_storage' = rx_pbufs_storage
           /\ Doing("setup")' /\ ~Doing("address")'
           /\ \A k \in 2..Len(todo') : todo'[k] # "address"
<1>1. ~Doing("setup") /\ ~Doing("address") /\ todo # <<>> /\ todo \in Seq(Calls)
  BY DEF emacps_recv_handler_Loop, Doing, IInv, TypeOK
<1>2. HwCnt = N /\ FreeHead = At(N) /\ FreeCnt = N - N
  BY <1>1 DEF CallsInv, RingInv
<1>. DEFINE n == XEmacPs_BdRingFromHwRx
<1>3. n \in 0..N
  BY ScanBound
<1>4. SplitInv => Split(n)
  BY <1>2, ScanIsSplit DEF SplitInv
<1>5. /\ n > 0 /\ HwHead' = At(n) /\ HwCnt' = HwCnt - n /\ FreeCnt' = FreeCnt + n
      /\ FreeHead' = FreeHead /\ bd' = bd /\ dma' = dma
      /\ rx_pbufs_storage' = rx_pbufs_storage
      /\ todo' = <<"setup", "signal">> \o todo
  BY DEF emacps_recv_handler_Loop, At, descriptors, device
<1>. HIDE DEF n
<1>6. N \in Nat
  BY AtInRing
<1>7. n \in 1..N /\ FreeCnt = 0 /\ FreeCnt' = n
  BY <1>2, <1>3, <1>5, <1>6, SMT
<1>8. NoAddress(todo)
  <2>1. Len(todo) \in Nat \ {0} /\ Head(todo) = todo[1]
    BY <1>1, SMT
  <2>2. \A k \in 1..Len(todo) : k = 1 \/ k \in 2..Len(todo)
    BY <2>1, SMT
  <2>3. todo[1] # "address"
    BY <1>1, <2>1 DEF Doing
  <2>. QED  BY <2>2, <2>3 DEF CallsInv, NoAddress
<1>9. todo' \in Seq(Calls) /\ NoAddress(todo')
  BY <1>1, <1>5, <1>8, Literals, ShortNoAddress, ConcatNoAddress
<1>10. todo' # <<>> /\ Head(todo') = "setup"
  <2>1. Len(todo) \in Nat
    BY <1>1, SMT
  <2>2. <<"setup", "signal">> \in Seq(Calls) /\ Len(<<"setup", "signal">>) = 2
    BY Literals
  <2>3. Len(todo') = 2 + Len(todo) /\ todo'[1] = <<"setup", "signal">>[1]
    BY <1>1, <1>5, <2>1, <2>2, ConcatProperties
  <2>. QED  BY <1>9, <2>1, <2>3, SMT
<1>11. ~Doing("address")' /\ Doing("setup")' /\ \A k \in 2..Len(todo') : todo'[k] # "address"
  BY <1>9, <1>10, NotDoingAddress DEF Doing
<1>12. n = XEmacPs_BdRingFromHwRx
  BY DEF n
<1>. QED  BY <1>2, <1>4, <1>5, <1>7, <1>11, <1>12

LEMMA LoopKeepsRing ==
  ASSUME IInv, CallsInv, RingInv, emacps_recv_handler_Loop
  PROVE  CallsInv' /\ RingInv' /\ (SplitInv => SplitInv')
<1>1. PICK n \in 1..N :
           /\ (SplitInv => Split(n)) /\ HwCnt = N /\ FreeHead = At(N)
           /\ HwHead' = At(n) /\ HwCnt' = N - n /\ FreeCnt' = n
           /\ FreeHead' = FreeHead /\ bd' = bd /\ dma' = dma
           /\ Doing("setup")' /\ ~Doing("address")'
           /\ \A k \in 2..Len(todo') : todo'[k] # "address"
  BY LoopFacts
<1>2. N \in Nat \ {0} /\ n \in Nat /\ n <= N /\ n \in 0..N
  BY AtInRing, SMT
<1>3. /\ 0 \in 0..(N - n) /\ n + 0 = n /\ N - n \in 0..(N - n) /\ n + (N - n) = N
      /\ N - n \in 0..N /\ n = N - (N - n) /\ 0 \in 0..(N - n)
  BY <1>2, SMT
<1>4. At(0)' = At(n) /\ At(N - n)' = At(N)
  BY <1>1, <1>2, <1>3, AtMoves
<1>5. ASSUME SplitInv, NEW k \in 0..(N - 1)
      PROVE  bd[At(k)'].new <=> (k < 0 \/ k >= N - n)
  <2>1. CASE k < N - n
    <3>1. /\ k \in 0..(N - n) /\ n + k \in 0..(N - 1) /\ ~(n + k < n) /\ ~(n + k >= N)
          /\ ~(k < 0) /\ ~(k >= N - n)
      BY <1>2, <2>1, SMT
    <3>2. At(k)' = At(n + k)
      BY <1>1, <1>2, <3>1, AtMoves
    <3>. QED  BY <1>1, <1>5, <3>1, <3>2 DEF Split
  <2>2. CASE ~(k < N - n)
    <3>1. /\ k \in (N - n)..(N - 1) /\ n + k - N \in 0..(N - 1) /\ n + k - N < n
          /\ k >= N - n
      BY <1>2, <2>2, SMT
    <3>2. At(k)' = At(n + k - N)
      BY <1>1, <1>2, <3>1, AtMoves
    <3>. QED  BY <1>1, <1>5, <3>1, <3>2 DEF Split
  <2>. QED  BY <2>1, <2>2
<1>6. ASSUME SplitInv PROVE SplitInv'
  <2>1. dma = At(n)
    BY <1>1, <1>6 DEF Split
  <2>2. Split(0)'
    BY <1>1, <1>4, <1>5, <1>6, <2>1 DEF Split
  <2>. QED  BY <1>1, <1>3, <2>2 DEF SplitInv
<1>7. RingInv'
  BY <1>1, <1>3, <1>4 DEF RingInv
<1>. QED  BY <1>1, <1>6, <1>7 DEF CallsInv

\* A refilled descriptor becomes the last of the empty ones ...
LEMMA SetupFacts ==
  ASSUME IInv, CallsInv, RingInv, setup_rx_bds
  PROVE  /\ HwCnt \in 0..(N - 1) /\ FreeHead = At(HwCnt) /\ FreeHead' = FreeHead
         /\ HwHead' = HwHead /\ HwCnt' = HwCnt + 1 /\ FreeCnt' = FreeCnt - 1 /\ dma' = dma
         /\ bd' = [bd EXCEPT ![FreeHead] = [new |-> FALSE, addr |-> Null]]
         /\ Doing("address")' /\ Len(todo') >= 2 /\ todo'[2] = "setup"
         /\ \A k \in 2..Len(todo') : todo'[k] # "address"
<1>1. /\ todo # <<>> /\ Head(todo) = "setup" /\ FreeCnt > 0
      /\ FreeHead' = FreeHead /\ HwHead' = HwHead /\ HwCnt' = HwCnt + 1 /\ dma' = dma
      /\ FreeCnt' = FreeCnt - 1
      /\ bd' = [bd EXCEPT ![FreeHead] = [new |-> FALSE, addr |-> Null]]
      /\ todo' = <<"address">> \o todo
  BY DEF setup_rx_bds, Doing, device
<1>2. todo \in Seq(Calls) /\ ~Doing("address")
  BY <1>1 DEF Doing, IInv, TypeOK
<1>3. HwCnt \in 0..N /\ FreeCnt = N - HwCnt /\ FreeHead = At(HwCnt) /\ N \in Nat
  BY <1>2, AtInRing DEF RingInv
<1>4. HwCnt \in 0..(N - 1)
  BY <1>1, <1>3, SMT
<1>5. Len(todo) \in Nat \ {0} /\ todo[1] = "setup"
  BY <1>1, <1>2, SMT
<1>6. <<"address">> \in Seq(Calls) /\ Len(<<"address">>) = 1 /\ <<"address">>[1] = "address"
  BY Literals
<1>7. /\ todo' \in Seq(Calls) /\ Len(todo') = 1 + Len(todo)
      /\ \A i \in 1..(1 + Len(todo)) :
            todo'[i] = IF i <= 1 THEN <<"address">>[i] ELSE todo[i - 1]
  BY <1>1, <1>2, <1>6, ConcatProperties
<1>8. /\ 1 \in 1..(1 + Len(todo)) /\ 2 \in 1..(1 + Len(todo)) /\ 1 <= 1 /\ ~(2 <= 1)
      /\ 2 - 1 = 1 /\ 1 + Len(todo) >= 2
      /\ \A k \in 2..(1 + Len(todo)) :
            k \in 1..(1 + Len(todo)) /\ ~(k <= 1) /\ (k - 1 = 1 \/ k - 1 \in 2..Len(todo))
  BY <1>5, SMT
<1>9. todo'[1] = "address" /\ todo'[2] = "setup" /\ Len(todo') >= 2
  BY <1>5, <1>6, <1>7, <1>8
<1>10. \A k \in 2..Len(todo') : todo'[k] # "address"
  BY <1>5, <1>7, <1>8 DEF CallsInv
<1>11. Doing("address")'
  <2>1. todo' # <<>> /\ Head(todo') = todo'[1]
    BY <1>7, <1>9, SMT
  <2>. QED  BY <1>9, <2>1 DEF Doing
<1>. QED  BY <1>1, <1>3, <1>4, <1>9, <1>10, <1>11

LEMMA SetupKeepsRing ==
  ASSUME IInv, CallsInv, RingInv, setup_rx_bds
  PROVE  CallsInv' /\ RingInv' /\ (SplitInv => SplitInv')
<1>1. /\ HwCnt \in 0..(N - 1) /\ FreeHead = At(HwCnt) /\ FreeHead' = FreeHead
      /\ HwHead' = HwHead /\ HwCnt' = HwCnt + 1 /\ FreeCnt' = FreeCnt - 1 /\ dma' = dma
      /\ bd' = [bd EXCEPT ![FreeHead] = [new |-> FALSE, addr |-> Null]]
      /\ Doing("address")' /\ Len(todo') >= 2 /\ todo'[2] = "setup"
      /\ \A k \in 2..Len(todo') : todo'[k] # "address"
  BY SetupFacts
<1>2. N \in Nat \ {0} /\ HwHead \in Bds /\ FreeCnt = N - HwCnt
  BY AtInRing DEF RingInv
<1>3. /\ HwCnt \in Nat /\ HwCnt + 1 \in 0..N /\ HwCnt + 1 > 0
      /\ (HwCnt + 1) - 1 = HwCnt /\ (N - HwCnt) - 1 = N - (HwCnt + 1)
      /\ \A n \in 0..HwCnt : n \in 0..(HwCnt + 1)
  BY <1>1, <1>2, SMT
<1>4. RingInv'
  BY <1>1, <1>2, <1>3 DEF RingInv, At
<1>5. ASSUME NEW n \in 0..HwCnt, Split(n), NEW k \in 0..(N - 1)
      PROVE  bd'[At(k)].new <=> (k < n \/ k >= HwCnt + 1)
  <2>1. bd \in [Bds -> [new : BOOLEAN, addr : Pbufs \cup {Null}]] /\ FreeHead \in Bds
    BY DEF IInv, TypeOK
  <2>2. k \in 0..N
    BY <1>2, SMT
  <2>3. At(k) \in Bds
    BY <2>2, AtInRing
  <2>4. CASE k = HwCnt
    <3>1. ~bd'[At(k)].new
      BY <1>1, <2>1, <2>4
    <3>2. ~(k < n) /\ ~(k >= HwCnt + 1)
      BY <1>3, <2>4, SMT
    <3>. QED  BY <3>1, <3>2
  <2>5. CASE k # HwCnt
    <3>1. At(k) # FreeHead
      BY <1>1, <1>2, <2>5, NextInjective DEF At
    <3>2. bd'[At(k)] = bd[At(k)]
      BY <1>1, <2>1, <2>3, <3>1
    <3>3. k >= HwCnt + 1 <=> k >= HwCnt
      BY <1>2, <1>3, <2>5, SMT
    <3>. QED  BY <1>5, <3>2, <3>3 DEF Split
  <2>. QED  BY <2>4, <2>5
<1>6. ASSUME SplitInv PROVE SplitInv'
  <2>1. PICK n \in 0..HwCnt : Split(n)
    BY <1>6 DEF SplitInv
  <2>2. dma = At(n) /\ n \in 0..(HwCnt + 1)
    BY <1>3, <2>1 DEF Split
  <2>3. \A k \in 0..(N - 1) : bd'[At(k)].new <=> (k < n \/ k >= HwCnt + 1)
    BY <1>5, <2>1
  <2>4. Split(n)'
    BY <1>1, <2>2, <2>3 DEF Split, At
  <2>. QED  BY <1>1, <2>2, <2>4 DEF SplitInv
<1>. QED  BY <1>1, <1>4, <1>6 DEF CallsInv

\* ... and then gets its address: of the word read nothing else changes, ...
LEMMA ReadKeepsRing ==
  ASSUME CallsInv, RingInv, XEmacPs_BdSetAddressRx_Read
  PROVE  CallsInv' /\ RingInv' /\ (SplitInv => SplitInv')
<1>1. /\ HwHead' = HwHead /\ HwCnt' = HwCnt /\ FreeHead' = FreeHead /\ FreeCnt' = FreeCnt
      /\ bd' = bd /\ dma' = dma /\ todo' = todo
  BY DEF XEmacPs_BdSetAddressRx_Read, descriptors, device
<1>. QED  BY <1>1, SameKeepsRing

\* ... and unless the write erases a new bit it leaves every one as it is.
LEMMA WriteKeepsBits ==
  ASSUME IInv, WordInv, XEmacPs_BdSetAddressRx_Write, ~erased'
  PROVE  bd' = [bd EXCEPT ![FreeHead].addr = rx_pbufs_storage[FreeHead]]
<1>1. /\ bd' = [bd EXCEPT ![FreeHead] =
                   [new |-> word = "new", addr |-> rx_pbufs_storage[FreeHead]]]
      /\ word # "unread" /\ ~(bd[FreeHead].new /\ word = "empty")
  BY DEF XEmacPs_BdSetAddressRx_Write
<1>2. /\ bd \in [Bds -> [new : BOOLEAN, addr : Pbufs \cup {Null}]] /\ FreeHead \in Bds
      /\ word \in {"unread", "new", "empty"}
  BY DEF IInv, TypeOK
<1>3. bd[FreeHead].new = (word = "new")
  <2>1. CASE word = "new"
    <3>1. bd[FreeHead].new /\ bd[FreeHead].new \in BOOLEAN
      BY <1>2, <2>1 DEF WordInv
    <3>. QED  BY <2>1, <3>1
  <2>2. CASE word = "empty"
    <3>1. ~bd[FreeHead].new /\ bd[FreeHead].new \in BOOLEAN
      BY <1>1, <1>2, <2>2
    <3>. QED  BY <2>2, <3>1
  <2>. QED  BY <1>1, <1>2, <2>1, <2>2
<1>4. [bd[FreeHead] EXCEPT !.addr = rx_pbufs_storage[FreeHead]]
         = [new |-> word = "new", addr |-> rx_pbufs_storage[FreeHead]]
  BY <1>2, <1>3
<1>. QED  BY <1>1, <1>4

LEMMA WriteKeepsRing ==
  ASSUME IInv, CallsInv, RingInv, WordInv, XEmacPs_BdSetAddressRx_Write
  PROVE  CallsInv' /\ RingInv' /\ (SplitInv /\ ~erased' => SplitInv')
<1>1. /\ Doing("address") /\ todo # <<>> /\ todo' = Tail(todo)
      /\ FreeHead' = XEmacPs_BdRingNext(FreeHead, 1)
      /\ HwHead' = HwHead /\ HwCnt' = HwCnt /\ FreeCnt' = FreeCnt /\ dma' = dma
  BY DEF XEmacPs_BdSetAddressRx_Write, Doing, device
<1>2. N \in Nat \ {0} /\ HwHead \in Bds
  BY AtInRing
<1>3. HwCnt \in 0..N /\ HwCnt > 0 /\ FreeHead = At(HwCnt - 1)
  BY <1>1 DEF RingInv
<1>4. FreeHead' = At(HwCnt)
  <2>1. HwCnt - 1 \in 0..N /\ 1 \in 0..N /\ (HwCnt - 1) + 1 <= N /\ (HwCnt - 1) + 1 = HwCnt
    BY <1>2, <1>3, SMT
  <2>. QED  BY <1>1, <1>2, <1>3, <2>1, NextAdds DEF At
<1>5. Tail(todo) \in Seq(Calls) /\ NoAddress(Tail(todo))
  BY <1>1, TailNoAddress
<1>6. todo' # <<>> /\ Head(todo') = "setup"
  <2>1. todo \in Seq(Calls) /\ Len(todo) >= 2 /\ todo[2] = "setup"
    BY <1>1 DEF IInv, TypeOK, CallsInv
  <2>2. Len(todo) \in Nat
    BY <2>1, SMT
  <2>3. /\ Len(Tail(todo)) = Len(todo) - 1
        /\ \A i \in 1..Len(Tail(todo)) : Tail(todo)[i] = todo[i + 1]
    BY <1>1, <2>1, HeadTailProperties
  <2>4. 1 \in 1..Len(Tail(todo)) /\ 1 + 1 = 2
    BY <2>1, <2>2, <2>3, SMT
  <2>5. Tail(todo)[1] = "setup"
    BY <2>1, <2>3, <2>4
  <2>6. Tail(todo) # <<>> /\ Head(Tail(todo)) = Tail(todo)[1]
    <3>1. Len(Tail(todo)) # 0
      BY <2>1, <2>2, <2>3, SMT
    <3>. QED  BY <1>5, <3>1, HeadIsFirst
  <2>. QED  BY <1>1, <2>5, <2>6
<1>7. ~Doing("address")' /\ Doing("setup")' /\ \A k \in 2..Len(todo') : todo'[k] # "address"
  BY <1>1, <1>5, <1>6, NotDoingAddress DEF Doing
<1>8. ASSUME ~erased' PROVE \A k \in 0..(N - 1) : bd'[At(k)].new <=> bd[At(k)].new
  <2>1. bd \in [Bds -> [new : BOOLEAN, addr : Pbufs \cup {Null}]] /\ FreeHead \in Bds
    BY DEF IInv, TypeOK
  <2>2. \A k \in 0..(N - 1) : k \in 0..N
    BY <1>2, SMT
  <2>3. \A k \in 0..(N - 1) : At(k) \in Bds
    BY <2>2, AtInRing
  <2>4. \A i \in Bds : bd'[i].new = bd[i].new
    BY <1>8, <2>1, WriteKeepsBits
  <2>. QED  BY <2>3, <2>4
<1>9. RingInv'
  BY <1>1, <1>4, <1>7 DEF RingInv, At
<1>10. SplitInv /\ ~erased' => SplitInv'
  BY <1>1, <1>8 DEF SplitInv, Split, At
<1>. QED  BY <1>7, <1>9, <1>10 DEF CallsInv

LEMMA InitRing == Init => CallsInv /\ RingInv /\ SplitInv /\ WordInv
<1>. SUFFICES ASSUME Init PROVE CallsInv /\ RingInv /\ SplitInv /\ WordInv
  OBVIOUS
<1>1. /\ HwHead = 0 /\ HwCnt = N /\ FreeHead = 0 /\ FreeCnt = 0 /\ dma = 0 /\ todo = <<>>
      /\ bd = [i \in Bds |-> [new |-> FALSE, addr |-> rx_pbufs_storage[i]]]
  BY DEF Init
<1>2. /\ N \in Nat \ {0} /\ 0 \in Bds /\ 0 \in 0..N /\ N \in 0..N /\ 0 = N - N
      /\ 0 + 0 < N /\ ~(0 + N < N) /\ 0 + 0 = 0 /\ 0 + N - N = 0
      /\ \A k \in 0..(N - 1) : k \in 0..N /\ ~(k < 0) /\ ~(k >= N)
  BY SizesAssumption, SMT DEF Bds
<1>3. At(0) = 0 /\ At(N) = 0
  <2>1. /\ XEmacPs_BdRingNext(0, 0) = IF 0 + 0 < N THEN 0 + 0 ELSE 0 + 0 - N
        /\ XEmacPs_BdRingNext(0, N) = IF 0 + N < N THEN 0 + N ELSE 0 + N - N
    BY <1>2, NextVal
  <2>. QED  BY <1>1, <1>2, <2>1 DEF At
<1>4. Split(0)
  <2>1. \A k \in 0..(N - 1) : At(k) \in Bds
    BY <1>2, InitInv, AtInRing
  <2>2. \A k \in 0..(N - 1) : ~bd[At(k)].new
    BY <1>1, <2>1
  <2>. QED  BY <1>1, <1>2, <1>3, <2>2 DEF Split
<1>5. ~Doing("address") /\ \A k \in 2..Len(todo) : todo[k] # "address"
  <2>1. 2..Len(<<>>) = {}
    BY SMT
  <2>. QED  BY <1>1, <2>1 DEF Doing
<1>6. RingInv /\ SplitInv
  BY <1>1, <1>2, <1>3, <1>4, <1>5 DEF RingInv, SplitInv
<1>7. WordInv
  BY DEF Init, WordInv
<1>. QED  BY <1>1, <1>5, <1>6, <1>7 DEF CallsInv

\* The calls that leave the ring alone.
LEMMA OtherCallsKeepRing ==
  ASSUME IInv, CallsInv, RingInv, PoolLasts,
         \/ XEmacPs_IntrHandler \/ emacps_error_handler \/ emacps_recv_handler
         \/ emacps_recv_handler_Return \/ setup_rx_bds_Return \/ sys_sem_signal
  PROVE  CallsInv' /\ RingInv' /\ (SplitInv => SplitInv')
<1>1. UNCHANGED ring /\ bd' = bd /\ dma' = dma
  BY DEF XEmacPs_IntrHandler, emacps_error_handler, emacps_recv_handler,
         emacps_recv_handler_Return, setup_rx_bds_Return, sys_sem_signal, descriptors, device
<1>2. ~Doing("address")
  BY DEF XEmacPs_IntrHandler, emacps_error_handler, emacps_recv_handler,
         emacps_recv_handler_Return, setup_rx_bds_Return, sys_sem_signal, Doing
<1>3. HwCnt = N
  <2>1. CASE ~Doing("setup")
    BY <1>2, <2>1 DEF CallsInv
  <2>2. CASE Doing("setup")
    <3>1. setup_rx_bds_Return
      BY <2>2 DEF XEmacPs_IntrHandler, emacps_error_handler, emacps_recv_handler,
         emacps_recv_handler_Return, sys_sem_signal, Doing
    <3>2. FreeCnt = 0 \/ ~(FreeCnt > 0)
      BY <2>2, <3>1 DEF setup_rx_bds_Return, PoolLasts
    <3>3. HwCnt \in 0..N /\ FreeCnt = N - HwCnt /\ N \in Nat
      BY AtInRing DEF RingInv
    <3>. QED  BY <3>2, <3>3, SMT
  <2>. QED  BY <2>1, <2>2
<1>4. todo' \in Seq(Calls) /\ NoAddress(todo)'
  <2>1. CASE XEmacPs_IntrHandler
    <3>. DEFINE a == IF "FRAMERX" \in isr THEN <<"recv">> ELSE <<>>
                b == IF "RX_ERR" \in isr THEN <<"error">> ELSE <<>>
    <3>1. todo' = a \o b
      BY <2>1 DEF XEmacPs_IntrHandler
    <3>2. a \in Seq(Calls) /\ b \in Seq(Calls) /\ NoAddress(a) /\ NoAddress(b)
      BY Literals, ShortNoAddress
    <3>. HIDE DEF a, b
    <3>3. a \o b \in Seq(Calls) /\ NoAddress(a \o b)
      BY <3>2, ConcatNoAddress
    <3>. QED  BY <3>1, <3>3 DEF NoAddress
  <2>2. CASE emacps_error_handler
    <3>. DEFINE a == IF "RXOVR" \in rxsr THEN <<"recv", "setup">> ELSE <<>>
                b == IF "BUFFNA" \in rxsr THEN <<"recv", "setup">> ELSE <<>>
    <3>1. todo # <<>> /\ todo' = a \o b \o Tail(todo)
      BY <2>2 DEF emacps_error_handler, Doing
    <3>2. a \in Seq(Calls) /\ b \in Seq(Calls) /\ NoAddress(a) /\ NoAddress(b)
      BY Literals, ShortNoAddress
    <3>. HIDE DEF a, b
    <3>3. a \o b \in Seq(Calls) /\ NoAddress(a \o b)
      BY <3>2, ConcatNoAddress
    <3>4. (a \o b) \o Tail(todo) \in Seq(Calls) /\ NoAddress((a \o b) \o Tail(todo))
      BY <3>1, <3>3, TailNoAddress, ConcatNoAddress
    <3>. QED  BY <3>1, <3>4 DEF NoAddress
  <2>3. CASE emacps_recv_handler
    <3>1. todo # <<>> /\ todo' = <<"loop">> \o Tail(todo)
      BY <2>3 DEF emacps_recv_handler, Doing
    <3>2. <<"loop">> \o Tail(todo) \in Seq(Calls) /\ NoAddress(<<"loop">> \o Tail(todo))
      BY <3>1, Literals, ShortNoAddress, TailNoAddress, ConcatNoAddress
    <3>. QED  BY <3>1, <3>2 DEF NoAddress
  <2>4. CASE emacps_recv_handler_Return \/ setup_rx_bds_Return \/ sys_sem_signal
    <3>1. todo # <<>> /\ todo' = Tail(todo)
      BY <2>4 DEF emacps_recv_handler_Return, setup_rx_bds_Return, sys_sem_signal, Doing
    <3>2. Tail(todo) \in Seq(Calls) /\ NoAddress(Tail(todo))
      BY <3>1, TailNoAddress
    <3>. QED  BY <3>1, <3>2 DEF NoAddress
  <2>. QED  BY <2>1, <2>2, <2>3, <2>4
<1>. QED  BY <1>1, <1>2, <1>3, <1>4, CallKeepsRing

\* The new bit the handler has read stays until it writes the word back.
LEMMA WordKept == IInv /\ WordInv /\ [Next]_vars => WordInv'
<1>. SUFFICES ASSUME IInv, WordInv, [Next]_vars PROVE WordInv'
  OBVIOUS
<1>1. CASE Receive
  <2>1. /\ word' = word /\ FreeHead' = FreeHead /\ todo' = todo
        /\ bd' = [bd EXCEPT ![dma].new = TRUE]
    BY <1>1 DEF Receive, ring
  <2>2. /\ bd \in [Bds -> [new : BOOLEAN, addr : Pbufs \cup {Null}]]
        /\ FreeHead \in Bds /\ dma \in Bds
    BY DEF IInv, TypeOK
  <2>3. bd[FreeHead].new => bd'[FreeHead].new
    BY <2>1, <2>2
  <2>. QED  BY <2>1, <2>3 DEF WordInv, Doing
<1>2. CASE XEmacPs_BdSetAddressRx_Read
  <2>1. /\ word' = (IF bd[FreeHead].new THEN "new" ELSE "empty") /\ Doing("address")
        /\ FreeHead' = FreeHead /\ todo' = todo /\ bd' = bd
    BY <1>2 DEF XEmacPs_BdSetAddressRx_Read, descriptors
  <2>. QED  BY <2>1 DEF WordInv, Doing
<1>3. CASE XEmacPs_BdSetAddressRx_Write
  BY <1>3 DEF XEmacPs_BdSetAddressRx_Write, WordInv
<1>4. CASE \/ XEmacPs_IntrHandler \/ emacps_error_handler \/ emacps_recv_handler
           \/ emacps_recv_handler_Loop \/ emacps_recv_handler_Return
           \/ setup_rx_bds \/ setup_rx_bds_Return \/ sys_sem_signal
  <2>1. word' = word /\ ~Doing("address")
    BY <1>4 DEF XEmacPs_IntrHandler, emacps_error_handler, emacps_recv_handler,
       emacps_recv_handler_Loop, emacps_recv_handler_Return, setup_rx_bds,
       setup_rx_bds_Return, sys_sem_signal, Doing, ring
  <2>. QED  BY <2>1 DEF WordInv
<1>5. CASE \/ \E why \in {"RXOVR", "BUFFNA"} : Lose(why)
           \/ ThreadStep \/ (\E b \in Pbufs : pbuf_free(b)) \/ UNCHANGED vars
  <2>1. word' = word /\ FreeHead' = FreeHead /\ bd' = bd /\ todo' = todo
    BY <1>5 DEF Lose, ThreadStep, sys_sem_wait, low_level_input, xemacpsif_input_Hand,
       xemacpsif_input_Free, vTaskDelay, pbuf_free, vars, ring, descriptors
  <2>. QED  BY <2>1 DEF WordInv, Doing
<1>. QED  BY <1>1, <1>2, <1>3, <1>4, <1>5 DEF Next, HandlerStep

LEMMA WordHolds == Spec => []WordInv
  BY InitRing, InvHolds, WordKept, PTL DEF Spec

LEMMA ErasedStays == [Next]_vars /\ ~erased' => ~erased
<1>. SUFFICES ASSUME [Next]_vars, ~erased' PROVE ~erased
  OBVIOUS
<1>1. CASE XEmacPs_BdSetAddressRx_Write
  BY <1>1 DEF XEmacPs_BdSetAddressRx_Write
<1>2. CASE ~XEmacPs_BdSetAddressRx_Write
  <2>1. erased' = erased
    BY <1>2 DEF Next, Receive, Lose, XEmacPs_IntrHandler, HandlerStep, emacps_error_handler,
       emacps_recv_handler, emacps_recv_handler_Loop, emacps_recv_handler_Return,
       setup_rx_bds, XEmacPs_BdSetAddressRx_Read, setup_rx_bds_Return, sys_sem_signal,
       ThreadStep, sys_sem_wait, low_level_input, xemacpsif_input_Hand,
       xemacpsif_input_Free, vTaskDelay, pbuf_free, vars, ring
  <2>. QED  BY <2>1
<1>. QED  BY <1>1, <1>2

LEMMA RingKept ==
  IInv /\ PoolLasts /\ CallsInv /\ RingInv /\ WordInv /\ [Next]_vars
     => CallsInv' /\ RingInv' /\ (SplitInv /\ ~erased' => SplitInv')
<1>. SUFFICES ASSUME IInv, PoolLasts, CallsInv, RingInv, WordInv, [Next]_vars
              PROVE  CallsInv' /\ RingInv' /\ (SplitInv /\ ~erased' => SplitInv')
  OBVIOUS
<1>1. CASE Receive
  BY <1>1, ReceiveKeepsRing
<1>2. CASE HandlerStep \/ XEmacPs_IntrHandler
  BY <1>2, OtherCallsKeepRing, LoopKeepsRing, SetupKeepsRing, ReadKeepsRing,
     WriteKeepsRing DEF HandlerStep
<1>3. CASE \/ \E why \in {"RXOVR", "BUFFNA"} : Lose(why)
           \/ ThreadStep \/ (\E b \in Pbufs : pbuf_free(b)) \/ UNCHANGED vars
  <2>1. /\ HwHead' = HwHead /\ HwCnt' = HwCnt /\ FreeHead' = FreeHead /\ FreeCnt' = FreeCnt
        /\ bd' = bd /\ dma' = dma /\ todo' = todo
    BY <1>3 DEF Lose, ThreadStep, sys_sem_wait, low_level_input, xemacpsif_input_Hand,
       xemacpsif_input_Free, vTaskDelay, pbuf_free, vars, ring, descriptors, device
  <2>. QED  BY <2>1, SameKeepsRing
<1>. QED  BY <1>1, <1>2, <1>3 DEF Next

LEMMA RingHolds == Spec /\ []PoolLasts => [](CallsInv /\ RingInv /\ (~erased => SplitInv))
  BY InitRing, InvHolds, WordHolds, RingKept, ErasedStays, PTL DEF Spec

LEMMA RingInvConsistent == IInv /\ RingInv /\ (~erased => SplitInv) => RingConsistent
<1>. SUFFICES ASSUME IInv, RingInv, ~erased => SplitInv PROVE RingConsistent
  OBVIOUS
<1>1. N \in Nat \ {0} /\ HwHead \in Bds /\ HwCnt \in 0..N /\ FreeHead \in Bds
  BY AtInRing DEF RingInv, IInv, TypeOK
<1>2. \A k \in 0..(HwCnt - 1) : k \in 0..(N - 1) /\ ~(k >= HwCnt)
  BY <1>1, SMT
<1>3. ~erased =>
         \E n \in 0..HwCnt :
            dma = At(n) /\ \A k \in 0..(HwCnt - 1) : bd[At(k)].new <=> k < n
  BY <1>2 DEF SplitInv, Split
<1>4. XEmacPs_BdRingNext(FreeHead, IF Doing("address") THEN 1 ELSE 0) = At(HwCnt)
  <2>1. CASE Doing("address")
    <3>1. HwCnt > 0 /\ FreeHead = At(HwCnt - 1)
      BY <2>1 DEF RingInv
    <3>2. HwCnt - 1 \in 0..N /\ 1 \in 0..N /\ (HwCnt - 1) + 1 <= N /\ (HwCnt - 1) + 1 = HwCnt
      BY <1>1, <3>1, SMT
    <3>3. XEmacPs_BdRingNext(FreeHead, 1) = At(HwCnt)
      BY <1>1, <3>1, <3>2, NextAdds DEF At
    <3>. QED  BY <2>1, <3>3
  <2>2. CASE ~Doing("address")
    <3>1. FreeHead \in Nat /\ FreeHead + 0 < N /\ FreeHead + 0 = FreeHead /\ 0 \in 0..N
      BY <1>1, SMT DEF Bds
    <3>2. XEmacPs_BdRingNext(FreeHead, 0) = FreeHead
      BY <1>1, <3>1, NextVal
    <3>. QED  BY <2>2, <3>2 DEF RingInv
  <2>. QED  BY <2>1, <2>2
<1>. QED  BY <1>3, <1>4 DEF RingConsistent, RingInv, At

\* As long as setup_rx_bds finds a pbuf for every descriptor it has to refill,
\* driver and device agree on the ring, however arrivals and the handler's
\* steps interleave: the scan of BdRingFromHwRx, which does not look at HwCnt
\* again, stops where the DMA is.  The counts agree for ever, the new bits until
\* the write of XEmacPs_BdSetAddressRx erases one.
THEOREM RingStaysConsistent == Spec /\ []PoolLasts => []RingConsistent
  BY InvHolds, RingHolds, RingInvConsistent, PTL

\* A new bit is erased only when the DMA has caught up with the refill: it has
\* filled every descriptor it has, up to the one that is being refilled.
ErasesInFullRing ==
    ~erased /\ erased' => \A k \in 0..(HwCnt - 1) : bd[At(k)].new

LEMMA ErasesWhenFull ==
  ASSUME IInv, RingInv, WordInv, ~erased => SplitInv, [Next]_vars
  PROVE  ErasesInFullRing
<1>. SUFFICES ASSUME ~erased, erased', NEW k \in 0..(HwCnt - 1) PROVE bd[At(k)].new
  BY DEF ErasesInFullRing
<1>1. XEmacPs_BdSetAddressRx_Write
  BY DEF Next, Receive, Lose, XEmacPs_IntrHandler, HandlerStep, emacps_error_handler,
     emacps_recv_handler, emacps_recv_handler_Loop, emacps_recv_handler_Return,
     setup_rx_bds, XEmacPs_BdSetAddressRx_Read, setup_rx_bds_Return, sys_sem_signal,
     ThreadStep, sys_sem_wait, low_level_input, xemacpsif_input_Hand,
     xemacpsif_input_Free, vTaskDelay, pbuf_free, vars, ring
<1>2. Doing("address") /\ bd[FreeHead].new
  BY <1>1 DEF XEmacPs_BdSetAddressRx_Write
<1>3. HwCnt > 0 /\ FreeHead = At(HwCnt - 1) /\ HwCnt \in 0..N /\ N \in Nat
  BY <1>2, AtInRing DEF RingInv
<1>4. PICK n \in 0..HwCnt : Split(n)
  BY DEF SplitInv
<1>5. HwCnt - 1 \in 0..(N - 1) /\ ~(HwCnt - 1 >= HwCnt) /\ k \in 0..(N - 1)
  BY <1>3, SMT
<1>6. HwCnt - 1 < n
  BY <1>2, <1>3, <1>4, <1>5 DEF Split
<1>7. k < n
  BY <1>3, <1>6, SMT
<1>. QED  BY <1>4, <1>5, <1>7 DEF Split

\* So it takes a ring that fills up while setup_rx_bds refills it, and a frame
\* that arrives between the read and the write of XEmacPs_BdSetAddressRx.
THEOREM ErasedOnlyInFullRing == Spec /\ []PoolLasts => [][ErasesInFullRing]_vars
<1>1. IInv /\ RingInv /\ WordInv /\ (~erased => SplitInv) /\ [Next]_vars
         => [ErasesInFullRing]_vars
  BY ErasesWhenFull
<1>. QED  BY <1>1, InvHolds, RingHolds, WordHolds, PTL DEF Spec

-----------------------------------------------------------------------------
\* The pbuf of the descriptor k places after HwHead.
Buf(k) == rx_pbufs_storage[At(k)]

\* The places of a pbuf beside the pool and lwIP.
InRing == {Buf(k) : k \in 0..(HwCnt - 1)}
InQueue == {recv_q[k] : k \in 1..Len(recv_q)}
InHand == IF p = Null THEN {} ELSE {p}

\* The sets have no member in common and hold every pbuf.
Partition(A, B, C, D, E) ==
    /\ A \cap B = {} /\ A \cap C = {} /\ A \cap D = {} /\ A \cap E = {}
    /\ B \cap C = {} /\ B \cap D = {} /\ B \cap E = {}
    /\ C \cap D = {} /\ C \cap E = {} /\ D \cap E = {}
    /\ Pbufs \subseteq A \cup B \cup C \cup D \cup E

OwnerInv ==
    /\ \A k, l \in 0..(HwCnt - 1) : Buf(k) = Buf(l) => k = l
    /\ \A k, l \in 1..Len(recv_q) : recv_q[k] = recv_q[l] => k = l
    /\ Partition(InRing, InQueue, InHand, stack, pool)

LEMMA InitOwners == Init => OwnerInv
<1>. SUFFICES ASSUME Init PROVE OwnerInv
  OBVIOUS
<1>1. /\ HwHead = 0 /\ HwCnt = N /\ recv_q = <<>> /\ p = Null /\ stack = {}
      /\ pool = Pbufs \ {rx_pbufs_storage[i] : i \in Bds}
  BY DEF Init
<1>2. rx_pbufs_storage \in [Bds -> Pbufs] /\ Distinct(rx_pbufs_storage)
  BY PbufsAssumption DEF Init
<1>3. /\ IInv /\ N \in Nat \ {0} /\ HwHead \in Bds /\ (\A k \in 0..N : At(k) \in Bds)
      /\ \A k \in 0..(N - 1) : k \in 0..N
  <2>1. IInv
    BY InitInv
  <2>2. N \in Nat \ {0} /\ HwHead \in Bds /\ (\A k \in 0..N : At(k) \in Bds)
    BY <2>1, AtInRing
  <2>. QED  BY <2>1, <2>2, SMT
<1>4. \A k, l \in 0..(HwCnt - 1) : Buf(k) = Buf(l) => k = l
  <2>. SUFFICES ASSUME NEW k \in 0..(N - 1), NEW l \in 0..(N - 1), Buf(k) = Buf(l)
                PROVE  k = l
    BY <1>1
  <2>1. At(k) = At(l)
    BY <1>2, <1>3 DEF Distinct, Buf
  <2>. QED  BY <1>3, <2>1, NextInjective DEF At
<1>5. InRing = {rx_pbufs_storage[i] : i \in Bds}
  <2>1. \A i \in Bds : \E k \in 0..(N - 1) : i = At(k)
    BY <1>3, NextCovers DEF At
  <2>2. \A k \in 0..(N - 1) : At(k) \in Bds
    BY <1>3
  <2>. QED  BY <1>1, <2>1, <2>2 DEF InRing, Buf
<1>6. InQueue = {} /\ InHand = {} /\ 1..Len(recv_q) = {}
  <2>1. 1..Len(<<>>) = {}
    BY SMT
  <2>. QED  BY <1>1, <2>1 DEF InQueue, InHand
<1>7. Partition(InRing, InQueue, InHand, stack, pool)
  BY <1>1, <1>5, <1>6 DEF Partition
<1>. QED  BY <1>4, <1>6, <1>7 DEF OwnerInv

\* The queue after the handler has put the completed packets in it: those up to
\* r found room, the others went back to the pool.
Enqueued(n, r) ==
    /\ Len(recv_q') = Len(recv_q) + r
    /\ \A i \in 1..(Len(recv_q) + r) :
          recv_q'[i] = IF i <= Len(recv_q) THEN recv_q[i] ELSE Buf(i - Len(recv_q) - 1)
    /\ pool' = pool \cup {Buf(k) : k \in r..(n - 1)}

LEMMA EnqueueFacts ==
  ASSUME IInv, NEW n \in 1..N, NEW s,
         s = [k \in 1..n |-> rx_pbufs_storage[XEmacPs_BdRingNext(HwHead, k - 1)]],
         pq_enqueue(s)
  PROVE  \E r \in 0..n : Enqueued(n, r)
<1>. DEFINE room == Smaller(Len(s), PQ_QUEUE_SIZE - Len(recv_q))
<1>1. /\ recv_q' = recv_q \o SubSeq(s, 1, room)
      /\ pool' = pool \cup {s[k] : k \in (room + 1)..Len(s)}
  BY DEF pq_enqueue
<1>2. recv_q \in Seq(Pbufs) /\ Len(recv_q) <= PQ_QUEUE_SIZE
  BY DEF IInv, TypeOK
<1>3. n \in Nat /\ PQ_QUEUE_SIZE \in Nat /\ Len(recv_q) \in Nat /\ N \in Nat
  BY <1>2, SizesAssumption, SMT
<1>4. \A k \in 1..n : rx_pbufs_storage[At(k - 1)] \in Pbufs
  <2>1. \A k \in 1..n : k - 1 \in 0..N
    BY <1>3, SMT
  <2>. QED  BY <2>1, AtInRing DEF IInv, TypeOK
<1>5. s \in [1..n -> Pbufs] /\ \A k \in 1..n : s[k] = Buf(k - 1)
  BY <1>4 DEF At, Buf
<1>6. s \in Seq(Pbufs) /\ Len(s) = n
  BY <1>3, <1>5, SMT
<1>7. room \in 0..n
  BY <1>2, <1>3, <1>6, SMT DEF Smaller
<1>. HIDE DEF room
<1>8. /\ SubSeq(s, 1, room) \in Seq(Pbufs) /\ Len(SubSeq(s, 1, room)) = room
      /\ \A i \in 1..room : SubSeq(s, 1, room)[i] = s[i]
  <2>1. /\ 1 \in 1..(Len(s) + 1) /\ room \in (1 - 1)..Len(s) /\ room - 1 + 1 = room
        /\ (\A i \in 1..room : 1 + i - 1 = i)
        /\ (IF 1 <= room THEN room - 1 + 1 ELSE 0) = room
    BY <1>3, <1>6, <1>7, SMT
  <2>2. /\ SubSeq(s, 1, room) \in Seq(Pbufs)
        /\ Len(SubSeq(s, 1, room)) = IF 1 <= room THEN room - 1 + 1 ELSE 0
        /\ \A i \in 1..(room - 1 + 1) : SubSeq(s, 1, room)[i] = s[1 + i - 1]
    BY <1>6, <2>1, SubSeqProperties
  <2>. QED  BY <2>1, <2>2
<1>9. /\ Len(recv_q') = Len(recv_q) + room
      /\ \A i \in 1..(Len(recv_q) + room) :
            recv_q'[i] = IF i <= Len(recv_q) THEN recv_q[i]
                         ELSE SubSeq(s, 1, room)[i - Len(recv_q)]
  BY <1>1, <1>2, <1>8, ConcatProperties
<1>10. \A i \in 1..(Len(recv_q) + room) :
          ~(i <= Len(recv_q)) => i - Len(recv_q) \in 1..room /\ i - Len(recv_q) \in 1..n
  BY <1>3, <1>7, SMT
<1>11. \A i \in 1..(Len(recv_q) + room) :
          recv_q'[i] = IF i <= Len(recv_q) THEN recv_q[i] ELSE Buf(i - Len(recv_q) - 1)
  BY <1>5, <1>8, <1>9, <1>10
<1>12. {s[k] : k \in (room + 1)..Len(s)} = {Buf(k) : k \in room..(n - 1)}
  <2>1. \A k \in (room + 1)..n : k \in 1..n /\ k - 1 \in room..(n - 1)
    BY <1>3, <1>7, SMT
  <2>2. \A k \in room..(n - 1) : k + 1 \in (room + 1)..n /\ k + 1 \in 1..n /\ (k + 1) - 1 = k
    BY <1>3, <1>7, SMT
  <2>3. \A k \in (room + 1)..n : s[k] \in {Buf(l) : l \in room..(n - 1)}
    BY <1>5, <2>1
  <2>4. \A k \in room..(n - 1) : s[k + 1] = Buf(k)
    BY <1>5, <2>2
  <2>5. \A k \in room..(n - 1) : Buf(k) \in {s[l] : l \in (room + 1)..n}
    BY <2>2, <2>4
  <2>. QED  BY <1>6, <2>3, <2>5, Zenon
<1>. QED  BY <1>1, <1>7, <1>9, <1>11, <1>12 DEF Enqueued

LEMMA LoopKeepsOwners ==
  ASSUME IInv, CallsInv, RingInv, OwnerInv, emacps_recv_handler_Loop
  PROVE  OwnerInv'
<1>1. PICK n \in 1..N :
           /\ n = XEmacPs_BdRingFromHwRx /\ HwCnt = N /\ HwHead' = At(n) /\ HwCnt' = N - n
           /\ rx_pbufs_storage' = rx_pbufs_storage
  BY LoopFacts
<1>2. PICK r \in 0..n : Enqueued(n, r)
  BY <1>1, EnqueueFacts DEF emacps_recv_handler_Loop
<1>3. N \in Nat \ {0} /\ n \in Nat /\ n <= N /\ n \in 0..N /\ r \in Nat /\ r <= n
  BY AtInRing, SMT
<1>4. Len(recv_q) \in Nat
  BY DEF IInv, TypeOK
<1>5. p' = p /\ stack' = stack
  BY DEF emacps_recv_handler_Loop, consumer
<1>6. \A k \in 0..(N - n - 1) : Buf(k)' = Buf(n + k) /\ n + k \in 0..(HwCnt - 1)
  <2>1. \A k \in 0..(N - n - 1) : k \in 0..(N - n) /\ n + k \in 0..(N - 1)
    BY <1>3, SMT
  <2>2. \A k \in 0..(N - n - 1) : At(k)' = At(n + k)
    BY <1>1, <1>3, <2>1, AtMoves
  <2>. QED  BY <1>1, <2>1, <2>2 DEF Buf
<1>7. \A k, l \in 0..(N - n - 1) : Buf(k)' = Buf(l)' => k = l
  <2>. SUFFICES ASSUME NEW k \in 0..(N - n - 1), NEW l \in 0..(N - n - 1), Buf(k)' = Buf(l)'
                PROVE  k = l
    OBVIOUS
  <2>1. n + k = n + l
    BY <1>6 DEF OwnerInv
  <2>. QED  BY <1>3, <2>1, SMT
<1>. DEFINE L == Len(recv_q)
            A == {Buf(k) : k \in 0..(r - 1)}
            B == {Buf(k) : k \in r..(n - 1)}
            C == {Buf(k) : k \in n..(N - 1)}
<1>8. /\ \A k \in 0..(r - 1) : k \in 0..(HwCnt - 1)
      /\ \A k \in r..(n - 1) : k \in 0..(HwCnt - 1)
      /\ \A k \in n..(N - 1) : k \in 0..(HwCnt - 1)
      /\ \A k \in 0..(HwCnt - 1) : k \in 0..(r - 1) \/ k \in r..(n - 1) \/ k \in n..(N - 1)
      /\ \A k \in 0..(r - 1), l \in r..(n - 1) : k # l
      /\ \A k \in 0..(r - 1), l \in n..(N - 1) : k # l
      /\ \A k \in r..(n - 1), l \in n..(N - 1) : k # l
  BY <1>1, <1>3, SMT
<1>9. InRing = A \cup B \cup C
  BY <1>8, Zenon DEF InRing
<1>10. A \cap B = {} /\ A \cap C = {} /\ B \cap C = {}
  <2>1. \A k, l \in 0..(HwCnt - 1) : Buf(k) = Buf(l) => k = l
    BY DEF OwnerInv
  <2>2. \A k \in 0..(r - 1), l \in r..(n - 1) : Buf(k) # Buf(l)
    BY <1>8, <2>1, Zenon
  <2>3. \A k \in 0..(r - 1), l \in n..(N - 1) : Buf(k) # Buf(l)
    BY <1>8, <2>1, Zenon
  <2>4. \A k \in r..(n - 1), l \in n..(N - 1) : Buf(k) # Buf(l)
    BY <1>8, <2>1, Zenon
  <2>. QED  BY <2>2, <2>3, <2>4, Zenon
<1>11. InRing' = C
  <2>1. ASSUME NEW k \in 0..(N - n - 1) PROVE Buf(k)' \in C
    <3>1. n + k \in n..(N - 1)
      BY <1>3, SMT
    <3>. QED  BY <1>6, <3>1
  <2>2. ASSUME NEW k \in n..(N - 1) PROVE Buf(k) \in InRing'
    <3>1. k - n \in 0..(N - n - 1) /\ n + (k - n) = k
      BY <1>3, SMT
    <3>2. Buf(k) = Buf(k - n)'
      BY <1>6, <3>1
    <3>. QED  BY <1>1, <3>1, <3>2 DEF InRing
  <2>3. InRing' = {Buf(k)' : k \in 0..(N - n - 1)}
    BY <1>1 DEF InRing
  <2>. QED  BY <2>1, <2>2, <2>3, Zenon
<1>12. /\ \A i \in 1..L : i \in 1..(L + r) /\ recv_q'[i] = recv_q[i]
       /\ \A k \in 0..(r - 1) : L + k + 1 \in 1..(L + r) /\ recv_q'[L + k + 1] = Buf(k)
       /\ \A i \in 1..(L + r) : i \in 1..L \/ \E k \in 0..(r - 1) : i = L + k + 1
  <2>1. \A i \in 1..L : i \in 1..(L + r) /\ i <= L
    BY <1>3, <1>4, SMT
  <2>2. \A k \in 0..(r - 1) :
           L + k + 1 \in 1..(L + r) /\ ~(L + k + 1 <= L) /\ (L + k + 1) - L - 1 = k
    BY <1>3, <1>4, SMT
  <2>3. \A i \in 1..(L + r) : i \in 1..L \/ (i - L - 1 \in 0..(r - 1) /\ i = L + (i - L - 1) + 1)
    BY <1>3, <1>4, SMT
  <2>. QED  BY <1>2, <2>1, <2>2, <2>3 DEF Enqueued
<1>13. \A i, j \in 1..Len(recv_q)' : recv_q'[i] = recv_q'[j] => i = j
  <2>1. Len(recv_q)' = L + r
    BY <1>2 DEF Enqueued
  <2>2. \A i \in 1..L : recv_q'[i] \in InQueue
    BY <1>12 DEF InQueue
  <2>3. \A k \in 0..(r - 1) : recv_q'[L + k + 1] \in InRing /\ Buf(k) \in InRing
    BY <1>8, <1>12 DEF InRing
  <2>4. \A i \in 1..L, k \in 0..(r - 1) : recv_q'[i] # recv_q'[L + k + 1]
    BY <2>2, <2>3 DEF OwnerInv, Partition
  <2>5. \A k, l \in 0..(r - 1) : recv_q'[L + k + 1] = recv_q'[L + l + 1] => k = l
    <3>1. \A k, l \in 0..(r - 1) : Buf(k) = Buf(l) => k = l
      BY <1>8, Zenon DEF OwnerInv
    <3>2. \A k \in 0..(r - 1) : recv_q'[L + k + 1] = Buf(k)
      BY <1>12
    <3>. QED  BY <3>1, <3>2, Zenon
  <2>6. \A i, j \in 1..L : recv_q'[i] = recv_q'[j] => i = j
    BY <1>12 DEF OwnerInv
  <2>. SUFFICES ASSUME NEW i \in 1..(L + r), NEW j \in 1..(L + r), recv_q'[i] = recv_q'[j]
                PROVE  i = j
    BY <2>1
  <2>7. CASE i \in 1..L /\ j \in 1..L
    BY <2>6, <2>7
  <2>8. CASE i \in 1..L /\ \E k \in 0..(r - 1) : j = L + k + 1
    BY <2>4, <2>8
  <2>9. CASE j \in 1..L /\ \E k \in 0..(r - 1) : i = L + k + 1
    BY <2>4, <2>9
  <2>10. CASE (\E k \in 0..(r - 1) : i = L + k + 1) /\ (\E k \in 0..(r - 1) : j = L + k + 1)
    BY <2>5, <2>10
  <2>. QED  BY <1>12, <2>7, <2>8, <2>9, <2>10
<1>14. InQueue' = InQueue \cup A
  <2>1. InQueue' = {recv_q'[i] : i \in 1..(L + r)}
    BY <1>2 DEF InQueue, Enqueued
  <2>2. \A i \in 1..L : recv_q[i] \in InQueue'
    BY <1>12, <2>1
  <2>3. \A k \in 0..(r - 1) : Buf(k) \in InQueue'
    BY <1>12, <2>1
  <2>4. \A i \in 1..(L + r) : recv_q'[i] \in InQueue \cup A
    BY <1>12 DEF InQueue
  <2>. QED  BY <2>1, <2>2, <2>3, <2>4, Zenon DEF InQueue
<1>15. pool' = pool \cup B /\ InHand' = InHand
  BY <1>2, <1>5 DEF Enqueued, InHand
<1>16. Partition(InRing, InQueue, InHand, stack, pool)
  BY DEF OwnerInv
<1>. HIDE DEF A, B, C, L
<1>17. Partition(InRing', InQueue', InHand', stack', pool')
  BY <1>5, <1>9, <1>10, <1>11, <1>14, <1>15, <1>16 DEF Partition
<1>. QED  BY <1>1, <1>7, <1>13, <1>17 DEF OwnerInv, Partition

\* What a refill does to the pbufs of the ring.
LEMMA SetupBufs ==
  ASSUME IInv, CallsInv, RingInv, setup_rx_bds
  PROVE  /\ HwCnt \in 0..(N - 1) /\ HwCnt' = HwCnt + 1
         /\ pbuf_alloc \in pool /\ pool' = pool \ {pbuf_alloc}
         /\ \A k \in 0..HwCnt : k = HwCnt => Buf(k)' = pbuf_alloc
         /\ \A k \in 0..(HwCnt - 1) : At(k)' = At(k) /\ At(k) # FreeHead /\ Buf(k)' = Buf(k)
<1>1. HwCnt \in 0..(N - 1) /\ FreeHead = At(HwCnt) /\ HwHead' = HwHead /\ HwCnt' = HwCnt + 1
  BY SetupFacts
<1>2. /\ pool # {} /\ pool' = pool \ {pbuf_alloc}
      /\ rx_pbufs_storage' = [rx_pbufs_storage EXCEPT ![FreeHead] = pbuf_alloc]
  BY DEF setup_rx_bds
<1>3. N \in Nat \ {0} /\ HwHead \in Bds /\ FreeHead \in Bds /\ rx_pbufs_storage \in [Bds -> Pbufs]
  BY AtInRing DEF IInv, TypeOK
<1>4. \A k : At(k)' = At(k)
  BY <1>1 DEF At, XEmacPs_BdRingNext
<1>5. \A k \in 0..HwCnt : k = HwCnt => Buf(k)' = pbuf_alloc
  BY <1>1, <1>2, <1>3, <1>4 DEF Buf
<1>6. ASSUME NEW k \in 0..(HwCnt - 1) PROVE At(k) # FreeHead /\ Buf(k)' = Buf(k)
  <2>1. k \in 0..(N - 1) /\ k \in 0..N /\ k # HwCnt
    BY <1>1, <1>3, SMT
  <2>2. At(k) # At(HwCnt) /\ At(k) \in Bds
    BY <1>1, <1>3, <2>1, NextInjective, AtInRing DEF At
  <2>. QED  BY <1>1, <1>2, <1>3, <1>4, <2>2 DEF Buf
<1>. QED  BY <1>1, <1>2, <1>4, <1>5, <1>6, AllocFromPool

LEMMA SetupKeepsOwners ==
  ASSUME IInv, CallsInv, RingInv, OwnerInv, setup_rx_bds
  PROVE  OwnerInv'
<1>1. /\ HwCnt \in 0..(N - 1) /\ HwCnt' = HwCnt + 1
      /\ pbuf_alloc \in pool /\ pool' = pool \ {pbuf_alloc}
      /\ \A k \in 0..HwCnt : k = HwCnt => Buf(k)' = pbuf_alloc
      /\ \A k \in 0..(HwCnt - 1) : Buf(k)' = Buf(k)
  BY SetupBufs
<1>2. recv_q' = recv_q /\ p' = p /\ stack' = stack
  BY DEF setup_rx_bds, consumer
<1>3. N \in Nat /\ Partition(InRing, InQueue, InHand, stack, pool)
  BY AtInRing DEF OwnerInv
<1>4. /\ (HwCnt + 1) - 1 = HwCnt /\ HwCnt \in 0..HwCnt
      /\ \A k \in 0..(HwCnt - 1) : k \in 0..HwCnt
      /\ \A k \in 0..HwCnt : k = HwCnt \/ k \in 0..(HwCnt - 1)
  BY <1>1, <1>3, SMT
<1>5. \A k \in 0..(HwCnt - 1) : Buf(k)' \in InRing
  BY <1>1 DEF InRing
<1>6. InRing' = InRing \cup {pbuf_alloc}
  <2>1. InRing' = {Buf(k)' : k \in 0..HwCnt}
    BY <1>1, <1>4 DEF InRing
  <2>2. \A k \in 0..HwCnt : Buf(k)' \in InRing \cup {pbuf_alloc}
    BY <1>1, <1>4, <1>5
  <2>3. pbuf_alloc \in InRing'
    BY <1>1, <1>4, <2>1
  <2>4. \A k \in 0..(HwCnt - 1) : Buf(k) \in InRing'
    BY <1>1, <1>4, <2>1
  <2>. QED  BY <2>1, <2>2, <2>3, <2>4, Zenon DEF InRing
<1>7. pbuf_alloc \notin InRing
  BY <1>1, <1>3 DEF Partition
<1>8. \A k, l \in 0..(HwCnt - 1) : Buf(k)' = Buf(l)' => k = l
  BY <1>1 DEF OwnerInv
<1>9. \A k, l \in 0..HwCnt : Buf(k)' = Buf(l)' => k = l
  <2>. SUFFICES ASSUME NEW k \in 0..HwCnt, NEW l \in 0..HwCnt, Buf(k)' = Buf(l)'
                PROVE  k = l
    OBVIOUS
  <2>1. CASE k \in 0..(HwCnt - 1) /\ l \in 0..(HwCnt - 1)
    BY <1>8, <2>1
  <2>2. CASE k = HwCnt /\ l \in 0..(HwCnt - 1)
    <3>1. Buf(k)' = pbuf_alloc /\ Buf(l)' \in InRing
      BY <1>1, <1>5, <2>2
    <3>. QED  BY <1>7, <3>1
  <2>3. CASE k \in 0..(HwCnt - 1) /\ l = HwCnt
    <3>1. Buf(l)' = pbuf_alloc /\ Buf(k)' \in InRing
      BY <1>1, <1>5, <2>3
    <3>. QED  BY <1>7, <3>1
  <2>. QED  BY <1>4, <2>1, <2>2, <2>3
<1>10. InQueue' = InQueue /\ InHand' = InHand
  BY <1>2 DEF InQueue, InHand
<1>11. Partition(InRing', InQueue', InHand', stack', pool')
  BY <1>1, <1>2, <1>3, <1>6, <1>10 DEF Partition
<1>12. \A k, l \in 1..Len(recv_q') : recv_q'[k] = recv_q'[l] => k = l
  BY <1>2 DEF OwnerInv
<1>13. \A k, l \in 0..(HwCnt' - 1) : Buf(k)' = Buf(l)' => k = l
  BY <1>1, <1>4, <1>9
<1>. QED  BY <1>11, <1>12, <1>13 DEF OwnerInv, Partition

\* A step that leaves the ring and its pbufs alone.
LEMMA RingBufsSame ==
  ASSUME OwnerInv, HwHead' = HwHead, HwCnt' = HwCnt, rx_pbufs_storage' = rx_pbufs_storage
  PROVE  /\ InRing' = InRing
         /\ \A k, l \in 0..(HwCnt' - 1) : Buf(k)' = Buf(l)' => k = l
<1>1. \A k : Buf(k)' = Buf(k)
  BY DEF Buf, At, XEmacPs_BdRingNext
<1>. QED  BY <1>1 DEF InRing, OwnerInv

LEMMA RecordRing ==
  ASSUME UNCHANGED <<ring, descriptors>>
  PROVE  HwHead' = HwHead /\ HwCnt' = HwCnt /\ rx_pbufs_storage' = rx_pbufs_storage
  BY DEF ring, descriptors

LEMMA InputKeepsOwners ==
  ASSUME IInv, OwnerInv, low_level_input
  PROVE  OwnerInv'
<1>1. HwHead' = HwHead /\ HwCnt' = HwCnt /\ rx_pbufs_storage' = rx_pbufs_storage
  BY RecordRing DEF low_level_input
<1>2. /\ InRing' = InRing
      /\ \A k, l \in 0..(HwCnt' - 1) : Buf(k)' = Buf(l)' => k = l
  BY <1>1, RingBufsSame
<1>3. /\ stack' = stack /\ pool' = pool /\ p = Null
      /\ Partition(InRing, InQueue, InHand, stack, pool)
  BY DEF low_level_input, IInv, TypeOK, OwnerInv
<1>4. CASE recv_q = <<>>
  <2>1. recv_q' = recv_q /\ p' = p
    BY <1>4 DEF low_level_input
  <2>2. InQueue' = InQueue /\ InHand' = InHand
    BY <2>1 DEF InQueue, InHand
  <2>3. Partition(InRing', InQueue', InHand', stack', pool')
    BY <1>2, <1>3, <2>2 DEF Partition
  <2>. QED  BY <1>2, <2>1, <2>3 DEF OwnerInv, Partition
<1>5. CASE recv_q # <<>>
  <2>1. p' = Head(recv_q) /\ recv_q' = Tail(recv_q) /\ recv_q \in Seq(Pbufs)
    BY <1>5 DEF low_level_input, IInv, TypeOK
  <2>2. /\ Head(recv_q) \in Pbufs /\ Len(recv_q') = Len(recv_q) - 1
        /\ \A i \in 1..Len(recv_q') : recv_q'[i] = recv_q[i + 1]
    BY <1>5, <2>1, HeadTailProperties
  <2>3. Len(recv_q) \in Nat \ {0} /\ Head(recv_q) = recv_q[1]
    BY <1>5, <2>1, SMT
  <2>4. /\ 1 \in 1..Len(recv_q)
        /\ \A i \in 1..Len(recv_q') : i + 1 \in 1..Len(recv_q) /\ i + 1 # 1
        /\ \A i, j \in 1..Len(recv_q') : i + 1 = j + 1 => i = j
        /\ \A i \in 1..Len(recv_q) : i # 1 => i - 1 \in 1..Len(recv_q') /\ (i - 1) + 1 = i
    BY <2>2, <2>3, SMT
  <2>5. \A i, j \in 1..Len(recv_q) : recv_q[i] = recv_q[j] => i = j
    BY DEF OwnerInv
  <2>6. \A i, j \in 1..Len(recv_q') : recv_q'[i] = recv_q'[j] => i = j
    BY <2>2, <2>4, <2>5
  <2>7. InQueue' = InQueue \ {p'}
    <3>1. \A i \in 1..Len(recv_q') : recv_q'[i] \in InQueue \ {p'}
      BY <2>1, <2>2, <2>3, <2>4, <2>5 DEF InQueue
    <3>2. \A i \in 1..Len(recv_q) : i # 1 => recv_q[i] \in InQueue'
      <4>1. \A i \in 1..Len(recv_q) : i # 1 => recv_q[i] = recv_q'[i - 1]
        BY <2>2, <2>4
      <4>. QED  BY <2>4, <4>1 DEF InQueue
    <3>3. InQueue' = {recv_q'[i] : i \in 1..Len(recv_q')}
      BY DEF InQueue
    <3>4. \A x \in InQueue : x # p' => x \in InQueue'
      BY <2>1, <2>3, <3>2 DEF InQueue
    <3>5. \A x \in InQueue' : x \in InQueue \ {p'}
      BY <3>1, <3>3
    <3>. QED  BY <3>4, <3>5
  <2>8. p' \in InQueue /\ InHand = {} /\ InHand' = {p'}
    BY <1>3, <2>1, <2>2, <2>3, <2>4, PbufsAssumption DEF InQueue, InHand
  <2>9. Partition(InRing', InQueue', InHand', stack', pool')
    BY <1>2, <1>3, <2>7, <2>8 DEF Partition
  <2>. QED  BY <1>2, <2>6, <2>9 DEF OwnerInv, Partition
<1>. QED  BY <1>4, <1>5

LEMMA PassKeepsOwners ==
  ASSUME IInv, OwnerInv,
         \/ xemacpsif_input_Hand \/ xemacpsif_input_Free \/ \E b \in Pbufs : pbuf_free(b)
  PROVE  OwnerInv'
<1>1. UNCHANGED <<ring, descriptors>> /\ recv_q' = recv_q
  BY DEF xemacpsif_input_Hand, xemacpsif_input_Free, pbuf_free
<1>2. /\ InRing' = InRing
      /\ \A k, l \in 0..(HwCnt' - 1) : Buf(k)' = Buf(l)' => k = l
  <2>1. HwHead' = HwHead /\ HwCnt' = HwCnt /\ rx_pbufs_storage' = rx_pbufs_storage
    BY <1>1, RecordRing
  <2>. QED  BY <2>1, RingBufsSame
<1>3. InQueue' = InQueue /\ \A k, l \in 1..Len(recv_q') : recv_q'[k] = recv_q'[l] => k = l
  BY <1>1 DEF InQueue, OwnerInv
<1>4. Partition(InRing, InQueue, InHand, stack, pool)
  BY DEF OwnerInv
<1>5. Partition(InRing', InQueue', InHand', stack', pool')
  <2>1. CASE xemacpsif_input_Hand
    <3>1. p # Null /\ p' = Null /\ stack' = stack \cup {p} /\ pool' = pool
      BY <2>1 DEF xemacpsif_input_Hand, IInv, TypeOK
    <3>2. InHand = {p} /\ InHand' = {}
      BY <3>1 DEF InHand
    <3>. QED  BY <1>2, <1>3, <1>4, <3>1, <3>2 DEF Partition
  <2>2. CASE xemacpsif_input_Free
    <3>1. p # Null /\ p' = Null /\ stack' = stack /\ pool' = pool \cup {p}
      BY <2>2 DEF xemacpsif_input_Free, IInv, TypeOK
    <3>2. InHand = {p} /\ InHand' = {}
      BY <3>1 DEF InHand
    <3>. QED  BY <1>2, <1>3, <1>4, <3>1, <3>2 DEF Partition
  <2>3. CASE \E b \in Pbufs : pbuf_free(b)
    <3>1. PICK b \in stack : p' = p /\ stack' = stack \ {b} /\ pool' = pool \cup {b}
      BY <2>3 DEF pbuf_free
    <3>2. InHand' = InHand
      BY <3>1 DEF InHand
    <3>. QED  BY <1>2, <1>3, <1>4, <3>1, <3>2 DEF Partition
  <2>. QED  BY <2>1, <2>2, <2>3
<1>. QED  BY <1>2, <1>3, <1>5 DEF OwnerInv, Partition

LEMMA SameKeepsOwners ==
  ASSUME OwnerInv, HwHead' = HwHead, HwCnt' = HwCnt, rx_pbufs_storage' = rx_pbufs_storage,
         recv_q' = recv_q, p' = p, stack' = stack, pool' = pool
  PROVE  OwnerInv'
<1>1. /\ InRing' = InRing
      /\ \A k, l \in 0..(HwCnt' - 1) : Buf(k)' = Buf(l)' => k = l
  BY RingBufsSame
<1>2. InQueue' = InQueue /\ InHand' = InHand
  BY DEF InQueue, InHand
<1>. QED  BY <1>1, <1>2 DEF OwnerInv, Partition

LEMMA OwnersKept ==
  IInv /\ CallsInv /\ RingInv /\ OwnerInv /\ [Next]_vars => OwnerInv'
<1>. SUFFICES ASSUME IInv, CallsInv, RingInv, OwnerInv, [Next]_vars PROVE OwnerInv'
  OBVIOUS
<1>1. CASE emacps_recv_handler_Loop \/ setup_rx_bds \/ low_level_input
  BY <1>1, LoopKeepsOwners, SetupKeepsOwners, InputKeepsOwners
<1>2. CASE xemacpsif_input_Hand \/ xemacpsif_input_Free \/ \E b \in Pbufs : pbuf_free(b)
  BY <1>2, PassKeepsOwners
<1>3. CASE \/ Receive \/ XEmacPs_BdSetAddressRx_Read \/ XEmacPs_BdSetAddressRx_Write
           \/ \E why \in {"RXOVR", "BUFFNA"} : Lose(why)
           \/ XEmacPs_IntrHandler \/ emacps_error_handler \/ emacps_recv_handler
           \/ emacps_recv_handler_Return \/ setup_rx_bds_Return \/ sys_sem_signal
           \/ sys_sem_wait \/ vTaskDelay \/ UNCHANGED vars
  <2>1. /\ HwHead' = HwHead /\ HwCnt' = HwCnt /\ rx_pbufs_storage' = rx_pbufs_storage
        /\ recv_q' = recv_q /\ p' = p /\ stack' = stack /\ pool' = pool
    BY <1>3 DEF Receive, XEmacPs_BdSetAddressRx_Read, XEmacPs_BdSetAddressRx_Write,
       Lose, XEmacPs_IntrHandler,
       emacps_error_handler, emacps_recv_handler, emacps_recv_handler_Return,
       setup_rx_bds_Return, sys_sem_signal, sys_sem_wait, vTaskDelay, vars, ring,
       descriptors, consumer
  <2>. QED  BY <2>1, SameKeepsOwners
<1>. QED  BY <1>1, <1>2, <1>3 DEF Next, HandlerStep, ThreadStep

LEMMA OwnersHold == Spec /\ []PoolLasts => []OwnerInv
  BY InitOwners, InvHolds, RingHolds, OwnersKept, PTL DEF Spec

\* A pbuf of the partition has one place.
LEMMA OnePlace == IInv /\ RingInv /\ OwnerInv => PbufsOwnedOnce
<1>. SUFFICES ASSUME IInv, RingInv, OwnerInv, NEW b \in Pbufs
              PROVE  \E x : Places(b) = {x}
  BY FS_Singleton DEF PbufsOwnedOnce
<1>. DEFINE R == {j \in HwBds : rx_pbufs_storage[j] = b}
            Q == {j \in 1..Len(recv_q) : recv_q[j] = b}
            T == {y \in {"pool", "thread", "stack"} :
                    \/ y = "pool" /\ b \in pool
                    \/ y = "thread" /\ b = p
                    \/ y = "stack" /\ b \in stack}
<1>1. Places(b) = {<<"bd", i>> : i \in R} \cup {<<"recv_q", k>> : k \in Q} \cup {<<x>> : x \in T}
  BY DEF Places
<1>2. /\ \A k, l \in 0..(HwCnt - 1) : Buf(k) = Buf(l) => k = l
      /\ \A k, l \in 1..Len(recv_q) : recv_q[k] = recv_q[l] => k = l
      /\ Partition(InRing, InQueue, InHand, stack, pool)
  BY DEF OwnerInv
<1>3. HwBds = {At(k) : k \in 0..(HwCnt - 1)}
  BY DEF HwBds, At
<1>4. b \notin InRing => R = {}
  BY <1>3 DEF InRing, Buf
<1>5. b \notin InQueue => Q = {}
  BY DEF InQueue
<1>6. b \in InHand <=> b = p
  BY PbufsAssumption DEF InHand
<1>7. CASE b \in InRing
  <2>1. PICK k \in 0..(HwCnt - 1) : b = Buf(k)
    BY <1>7 DEF InRing
  <2>2. R = {At(k)}
    BY <1>2, <1>3, <2>1 DEF Buf
  <2>3. Q = {} /\ T = {}
    BY <1>2, <1>5, <1>6, <1>7 DEF Partition
  <2>. HIDE DEF R, Q, T
  <2>4. Places(b) = {<<"bd", At(k)>>}
    BY <1>1, <2>2, <2>3
  <2>. QED  BY <2>4
<1>8. CASE b \in InQueue
  <2>1. PICK k \in 1..Len(recv_q) : b = recv_q[k]
    BY <1>8 DEF InQueue
  <2>2. Q = {k}
    BY <1>2, <2>1
  <2>3. R = {} /\ T = {}
    BY <1>2, <1>4, <1>6, <1>8 DEF Partition
  <2>. HIDE DEF R, Q, T
  <2>4. Places(b) = {<<"recv_q", k>>}
    BY <1>1, <2>2, <2>3
  <2>. QED  BY <2>4
<1>9. CASE b \in InHand \cup stack \cup pool
  <2>1. R = {} /\ Q = {}
    BY <1>2, <1>4, <1>5, <1>9 DEF Partition
  <2>2. \E y : T = {y}
    <3>1. CASE b \in InHand
      <4>1. b = p /\ b \notin stack /\ b \notin pool
        BY <1>2, <1>6, <3>1 DEF Partition
      <4>2. T = {"thread"}
        BY <4>1
      <4>. QED  BY <4>2
    <3>2. CASE b \in stack
      <4>1. b # p /\ b \notin pool
        BY <1>2, <1>6, <3>2 DEF Partition
      <4>2. T = {"stack"}
        BY <3>2, <4>1
      <4>. QED  BY <4>2
    <3>3. CASE b \in pool
      <4>1. b # p /\ b \notin stack
        BY <1>2, <1>6, <3>3 DEF Partition
      <4>2. T = {"pool"}
        BY <3>3, <4>1
      <4>. QED  BY <4>2
    <3>. QED  BY <1>9, <3>1, <3>2, <3>3
  <2>. HIDE DEF R, Q, T
  <2>3. PICK y : T = {y}
    BY <2>2
  <2>4. Places(b) = {<<y>>}
    BY <1>1, <2>1, <2>3
  <2>. QED  BY <2>4
<1>. QED  BY <1>2, <1>7, <1>8, <1>9 DEF Partition

\* No pbuf is lost, given to the device twice, or queued or freed while someone
\* else holds it: not when the queue overflows, not when lwIP refuses a packet,
\* not in the refill.
THEOREM PbufsStayOwnedOnce == Spec /\ []PoolLasts => []PbufsOwnedOnce
  BY InvHolds, RingHolds, OwnersHold, OnePlace, PTL

-----------------------------------------------------------------------------
\* The pbufs of the completed descriptors.
Done == {Buf(k) : k \in {l \in 0..(HwCnt - 1) : bd[At(l)].new}}

\* With contents c the frame in b, if there is one, came after time h, and
\* after the frame in a.
After(c, h, b) == c[b] # 0 => h < c[b]
Earlier(c, a, b) == c[b] # 0 => c[a] < c[b]

\* No frame is from the future, and a descriptor has its own pbuf's address or
\* none: while it is refilled a frame that comes leaves nothing in the pbuf.
ContentInv ==
    /\ handed <= wire /\ \A b \in Pbufs : content[b] <= wire
    /\ \A k \in 0..(HwCnt - 1) :
          /\ bd[At(k)].addr \in {Null, Buf(k)}
          /\ bd[At(k)].addr = Null => content[Buf(k)] = 0

\* What was handed on is older than what is in the hand, that than what is
\* queued, and that than what is completed; queue and ring are in order.
OrderInv ==
    /\ \A b \in InHand \cup InQueue \cup Done : After(content, handed, b)
    /\ \A a \in InHand, b \in InQueue \cup Done : Earlier(content, a, b)
    /\ \A a \in InQueue, b \in Done : Earlier(content, a, b)
    /\ \A i, j \in 1..Len(recv_q) : i < j => Earlier(content, recv_q[i], recv_q[j])
    /\ \A k, l \in 0..(HwCnt - 1) :
          k < l /\ bd[At(l)].new => Earlier(content, Buf(k), Buf(l))

LEMMA PlacesAreOfPbufs ==
  ASSUME IInv, RingInv
  PROVE  /\ \A k \in 0..(HwCnt - 1) : At(k) \in Bds /\ Buf(k) \in InRing
         /\ InRing \subseteq Pbufs /\ InQueue \subseteq Pbufs /\ InHand \subseteq Pbufs
         /\ Done \subseteq InRing
<1>1. HwCnt \in 0..N /\ N \in Nat
  BY AtInRing DEF RingInv
<1>2. \A k \in 0..(HwCnt - 1) : k \in 0..N
  BY <1>1, SMT
<1>3. \A k \in 0..(HwCnt - 1) : At(k) \in Bds
  BY <1>2, AtInRing
<1>4. \A k \in 0..(HwCnt - 1) : Buf(k) \in Pbufs
  BY <1>3 DEF Buf, IInv, TypeOK
<1>5. recv_q \in Seq(Pbufs) /\ p \in Pbufs \cup {Null}
  BY DEF IInv, TypeOK
<1>6. \A k \in 1..Len(recv_q) : recv_q[k] \in Pbufs
  BY <1>5
<1>. QED  BY <1>3, <1>4, <1>5, <1>6 DEF InRing, InQueue, InHand, Done

LEMMA DoneIsSplit ==
  ASSUME IInv, RingInv, NEW n \in 0..HwCnt, Split(n)
  PROVE  /\ \A k \in 0..(HwCnt - 1) : bd[At(k)].new <=> k < n
         /\ Done = {Buf(k) : k \in 0..(n - 1)}
<1>1. HwCnt \in 0..N /\ N \in Nat
  BY AtInRing DEF RingInv
<1>2. \A k \in 0..(HwCnt - 1) : k \in 0..(N - 1) /\ ~(k >= HwCnt)
  BY <1>1, SMT
<1>3. \A k \in 0..(HwCnt - 1) : bd[At(k)].new <=> k < n
  BY <1>2 DEF Split
<1>4. {l \in 0..(HwCnt - 1) : bd[At(l)].new} = 0..(n - 1)
  <2>1. \A k : k \in 0..(n - 1) <=> k \in 0..(HwCnt - 1) /\ k < n
    BY <1>1, SMT
  <2>. QED  BY <1>3, <2>1
<1>. QED  BY <1>3, <1>4 DEF Done

LEMMA InitOrder == Init => ContentInv /\ OrderInv
<1>. SUFFICES ASSUME Init PROVE ContentInv /\ OrderInv
  OBVIOUS
<1>1. /\ wire = 0 /\ handed = 0 /\ content = [b \in Pbufs |-> 0] /\ recv_q = <<>>
      /\ bd = [i \in Bds |-> [new |-> FALSE, addr |-> rx_pbufs_storage[i]]] /\ p = Null
  BY DEF Init
<1>2. IInv /\ RingInv
  BY InitInv, InitRing
<1>3. /\ \A k \in 0..(HwCnt - 1) : At(k) \in Bds /\ Buf(k) \in Pbufs
  BY <1>2, PlacesAreOfPbufs
<1>4. \A k \in 0..(HwCnt - 1) : ~bd[At(k)].new /\ bd[At(k)].addr = Buf(k)
  BY <1>1, <1>3 DEF Buf
<1>5. InHand = {} /\ InQueue = {} /\ Done = {} /\ 1..Len(recv_q) = {}
  <2>1. 1..Len(<<>>) = {}
    BY SMT
  <2>. QED  BY <1>1, <1>4, <2>1 DEF InHand, InQueue, Done
<1>6. ContentInv
  <2>1. \A b \in Pbufs : content[b] = 0
    BY <1>1
  <2>2. 0 <= 0
    BY SMT
  <2>. QED  BY <1>1, <1>3, <1>4, <2>1, <2>2 DEF ContentInv
<1>7. OrderInv
  BY <1>4, <1>5 DEF OrderInv
<1>. QED  BY <1>6, <1>7

\* An arriving frame is the youngest, and changes no pbuf but that of the
\* descriptor it completes.
LEMMA ReceiveFacts ==
  ASSUME IInv, CallsInv, RingInv, SplitInv, OwnerInv, ContentInv, Receive
  PROVE  \E n \in 0..(HwCnt - 1) :
           /\ Split(n) /\ Split(n + 1)'
           /\ \A b \in Pbufs : b # Buf(n) => content'[b] = content[b]
           /\ content'[Buf(n)] \in {0, wire + 1}
           /\ bd[At(n)].addr = Null => content'[Buf(n)] = content[Buf(n)]
<1>1. PICK n \in 0..(HwCnt - 1) : Split(n) /\ Split(n + 1)'
  BY ReceiveSplits
<1>2. dma = At(n)
  BY <1>1 DEF Split
<1>3. At(n) \in Bds /\ Buf(n) \in Pbufs
  BY PlacesAreOfPbufs
<1>4. content' = [b \in Pbufs |-> IF b = bd[At(n)].addr THEN wire + 1 ELSE content[b]]
  BY <1>2 DEF Receive
<1>5. /\ bd[At(n)].addr \in {Null, Buf(n)}
      /\ bd[At(n)].addr = Null => content[Buf(n)] = 0
  BY DEF ContentInv
<1>6. \A b \in Pbufs : b # Buf(n) => content'[b] = content[b]
  BY <1>4, <1>5, PbufsAssumption
<1>7. bd[At(n)].addr = Null => content'[Buf(n)] = content[Buf(n)]
  BY <1>3, <1>4, PbufsAssumption
<1>8. content'[Buf(n)] \in {0, wire + 1}
  BY <1>3, <1>4, <1>5, <1>7
<1>. QED  BY <1>1, <1>6, <1>7, <1>8

LEMMA ReceiveKeepsOrder ==
  ASSUME IInv, CallsInv, RingInv, SplitInv, OwnerInv, ContentInv, OrderInv, Receive
  PROVE  ContentInv' /\ OrderInv'
<1>1. PICK n \in 0..(HwCnt - 1) :
        /\ Split(n) /\ Split(n + 1)'
        /\ \A b \in Pbufs : b # Buf(n) => content'[b] = content[b]
        /\ content'[Buf(n)] \in {0, wire + 1}
        /\ bd[At(n)].addr = Null => content'[Buf(n)] = content[Buf(n)]
  BY ReceiveFacts
<1>. DEFINE x == Buf(n)
<1>2. /\ wire' = wire + 1 /\ handed' = handed /\ recv_q' = recv_q /\ p' = p
      /\ HwHead' = HwHead /\ HwCnt' = HwCnt /\ rx_pbufs_storage' = rx_pbufs_storage
      /\ bd' = [bd EXCEPT ![dma].new = TRUE]
  BY DEF Receive, ring, consumer
<1>3. \A k : At(k)' = At(k) /\ Buf(k)' = Buf(k)
  BY <1>2 DEF Buf, At, XEmacPs_BdRingNext
<1>4. /\ N \in Nat /\ HwCnt \in 0..N /\ n \in 0..HwCnt /\ n + 1 \in 0..HwCnt
      /\ wire \in Nat /\ handed \in Nat /\ \A b \in Pbufs : content[b] \in Nat
  <2>1. N \in Nat /\ HwCnt \in 0..N
    BY AtInRing DEF RingInv
  <2>2. n \in 0..HwCnt /\ n + 1 \in 0..HwCnt
    BY <2>1, SMT
  <2>. QED  BY <2>1, <2>2 DEF IInv, TypeOK
<1>5. /\ \A k \in 0..(HwCnt - 1) : At(k) \in Bds /\ Buf(k) \in InRing
      /\ InRing \subseteq Pbufs /\ InQueue \subseteq Pbufs /\ InHand \subseteq Pbufs
      /\ Done \subseteq InRing /\ x \in InRing /\ x \in Pbufs
  BY PlacesAreOfPbufs
<1>6. InHand' = InHand /\ InQueue' = InQueue
  BY <1>2 DEF InHand, InQueue
<1>7. /\ \A k \in 0..(HwCnt - 1) : bd[At(k)].new <=> k < n
      /\ Done = {Buf(k) : k \in 0..(n - 1)}
  BY <1>1, <1>4, DoneIsSplit
<1>8. /\ \A k \in 0..(HwCnt - 1) : bd'[At(k)].new <=> k < n + 1
      /\ Done' = {Buf(k) : k \in 0..n}
  <2>1. \A k \in 0..(N - 1) : bd'[At(k)].new <=> (k < n + 1 \/ k >= HwCnt)
    BY <1>1, <1>2, <1>3 DEF Split
  <2>2. \A k \in 0..(HwCnt - 1) : k \in 0..(N - 1) /\ ~(k >= HwCnt)
    BY <1>4, SMT
  <2>3. \A k \in 0..(HwCnt - 1) : bd'[At(k)].new <=> k < n + 1
    BY <2>1, <2>2
  <2>4. \A k : k \in 0..n <=> k \in 0..(HwCnt - 1) /\ k < n + 1
    BY <1>4, SMT
  <2>5. {l \in 0..(HwCnt - 1) : bd'[At(l)].new} = 0..n
    BY <2>3, <2>4
  <2>6. Done' = {Buf(k) : k \in {l \in 0..(HwCnt - 1) : bd'[At(l)].new}}
    BY <1>2, <1>3 DEF Done
  <2>. QED  BY <2>3, <2>5, <2>6
<1>9. Done' = Done \cup {x}
  <2>1. \A k : k \in 0..n <=> k \in 0..(n - 1) \/ k = n
    BY <1>4, SMT
  <2>. QED  BY <1>7, <1>8, <2>1, Zenon
<1>10. x \notin InHand /\ x \notin InQueue
  BY <1>5 DEF OwnerInv, Partition
<1>11. \A k \in 0..(HwCnt - 1) : k # n => Buf(k) # x
  BY DEF OwnerInv
<1>12. x \notin Done
  <2>1. \A k \in 0..(n - 1) : k \in 0..(HwCnt - 1) /\ k # n
    BY <1>4, SMT
  <2>. QED  BY <1>7, <1>11, <2>1
<1>13. /\ handed <= wire /\ \A b \in Pbufs : content[b] <= wire
       /\ \A k \in 0..(HwCnt - 1) :
             /\ bd[At(k)].addr \in {Null, Buf(k)}
             /\ bd[At(k)].addr = Null => content[Buf(k)] = 0
  BY DEF ContentInv
<1>. HIDE DEF x
<1>14. ContentInv'
  <2>1. handed' <= wire'
    BY <1>2, <1>4, <1>13, SMT
  <2>2. ASSUME NEW b \in Pbufs PROVE content'[b] <= wire'
    <3>1. content'[b] = content[b] \/ content'[b] \in {0, wire + 1}
      BY <1>1 DEF x
    <3>2. content[b] \in Nat /\ content[b] <= wire
      BY <1>4, <1>13
    <3>. QED  BY <1>2, <1>4, <3>1, <3>2, SMT
  <2>3. \A i \in Bds : bd'[i].addr = bd[i].addr
    <3>1. bd \in [Bds -> [new : BOOLEAN, addr : Pbufs \cup {Null}]] /\ dma \in Bds
      BY DEF IInv, TypeOK
    <3>. QED  BY <1>2, <3>1
  <2>4. ASSUME NEW k \in 0..(HwCnt - 1)
        PROVE  /\ bd'[At(k)].addr \in {Null, Buf(k)}
               /\ bd'[At(k)].addr = Null => content'[Buf(k)] = 0
    <3>1. bd'[At(k)].addr = bd[At(k)].addr /\ Buf(k) \in Pbufs
      BY <1>5, <2>3
    <3>2. CASE k = n
      BY <1>1, <1>13, <3>1, <3>2
    <3>3. CASE k # n
      <4>1. content'[Buf(k)] = content[Buf(k)]
        BY <1>1, <1>11, <3>1, <3>3 DEF x
      <4>. QED  BY <1>13, <3>1, <4>1
    <3>. QED  BY <3>2, <3>3
  <2>. QED  BY <1>2, <1>3, <2>1, <2>2, <2>4 DEF ContentInv
<1>15. /\ After(content', handed, x)
       /\ \A a \in Pbufs : a # x => Earlier(content', a, x)
  <2>1. content'[x] \in {0, wire + 1}
    BY <1>1 DEF x
  <2>2. ASSUME NEW a \in Pbufs, a # x PROVE Earlier(content', a, x)
    <3>1. content'[a] \in Nat /\ content'[a] <= wire
      BY <1>1, <1>4, <1>13, <2>2 DEF x
    <3>2. content'[a] < wire + 1
      BY <1>4, <3>1, SMT
    <3>. QED  BY <2>1, <3>2 DEF Earlier
  <2>3. handed < wire + 1
    BY <1>4, <1>13, SMT
  <2>. QED  BY <2>1, <2>2, <2>3 DEF After
<1>16. /\ \A b \in Pbufs : b # x /\ After(content, handed, b) => After(content', handed, b)
       /\ \A a, b \in Pbufs : a # x /\ b # x /\ Earlier(content, a, b) => Earlier(content', a, b)
  <2>1. \A b \in Pbufs : b # x => content'[b] = content[b]
    BY <1>1 DEF x
  <2>. QED  BY <2>1 DEF After, Earlier
<1>17. /\ \A b \in InHand \cup InQueue \cup Done : b \in Pbufs /\ b # x
  BY <1>5, <1>10, <1>12
<1>18. \A b \in InHand \cup InQueue \cup Done' : After(content', handed, b)
  BY <1>9, <1>15, <1>16, <1>17 DEF OrderInv
<1>19. /\ \A a \in InHand, b \in InQueue \cup Done' : Earlier(content', a, b)
       /\ \A a \in InQueue, b \in Done' : Earlier(content', a, b)
  BY <1>9, <1>15, <1>16, <1>17 DEF OrderInv
<1>20. \A i, j \in 1..Len(recv_q) : i < j => Earlier(content', recv_q[i], recv_q[j])
  <2>1. \A i \in 1..Len(recv_q) : recv_q[i] \in InQueue
    BY DEF InQueue
  <2>. QED  BY <1>16, <1>17, <2>1 DEF OrderInv
<1>21. ASSUME NEW k \in 0..(HwCnt - 1), NEW l \in 0..(HwCnt - 1), k < l, bd'[At(l)].new
       PROVE  Earlier(content', Buf(k), Buf(l))
  <2>1. l < n + 1
    BY <1>8, <1>21
  <2>2. k # n /\ (l = n \/ l < n)
    BY <1>4, <1>21, <2>1, SMT
  <2>3. Buf(k) \in Pbufs /\ Buf(k) # x /\ Buf(l) \in Pbufs
    BY <1>5, <1>11, <2>2
  <2>4. CASE l = n
    BY <1>15, <2>3, <2>4 DEF x
  <2>5. CASE l < n
    <3>1. l # n /\ bd[At(l)].new
      BY <1>4, <1>7, <2>5, SMT
    <3>2. Buf(l) # x /\ Earlier(content, Buf(k), Buf(l))
      BY <1>11, <1>21, <3>1 DEF OrderInv
    <3>. QED  BY <1>16, <2>3, <3>2
  <2>. QED  BY <2>2, <2>4, <2>5
<1>22. OrderInv'
  BY <1>2, <1>3, <1>6, <1>18, <1>19, <1>20, <1>21 DEF OrderInv
<1>. QED  BY <1>14, <1>22

\* The completed packets go behind those in the queue.
LEMMA LoopKeepsOrder ==
  ASSUME IInv, CallsInv, RingInv, SplitInv, ContentInv, OrderInv, emacps_recv_handler_Loop
  PROVE  ContentInv' /\ OrderInv'
<1>1. PICK n \in 1..N :
           /\ Split(n) /\ n = XEmacPs_BdRingFromHwRx /\ HwCnt = N
           /\ HwHead' = At(n) /\ HwCnt' = N - n
           /\ bd' = bd /\ rx_pbufs_storage' = rx_pbufs_storage
  BY LoopFacts
<1>2. PICK r \in 0..n : Enqueued(n, r)
  BY <1>1, EnqueueFacts DEF emacps_recv_handler_Loop
<1>. DEFINE L == Len(recv_q)
<1>3. /\ N \in Nat \ {0} /\ n \in Nat /\ n <= N /\ n \in 0..N /\ n \in 0..HwCnt
      /\ r \in Nat /\ r <= n /\ L \in Nat
  <2>1. L \in Nat
    BY DEF IInv, TypeOK
  <2>. QED  BY <1>1, <2>1, AtInRing, SMT
<1>4. content' = content /\ wire' = wire /\ handed' = handed /\ p' = p
  BY DEF emacps_recv_handler_Loop, consumer, device
<1>5. \A k \in 0..(N - n - 1) :
         At(k)' = At(n + k) /\ Buf(k)' = Buf(n + k) /\ n + k \in 0..(HwCnt - 1)
  <2>1. \A k \in 0..(N - n - 1) : k \in 0..(N - n) /\ n + k \in 0..(N - 1)
    BY <1>3, SMT
  <2>2. \A k \in 0..(N - n - 1) : At(k)' = At(n + k)
    BY <1>1, <1>3, <2>1, AtMoves
  <2>. QED  BY <1>1, <2>1, <2>2 DEF Buf
<1>6. ContentInv'
  BY <1>1, <1>4, <1>5 DEF ContentInv
<1>7. /\ \A k \in 0..(HwCnt - 1) : bd[At(k)].new <=> k < n
      /\ Done = {Buf(k) : k \in 0..(n - 1)}
  BY <1>1, <1>3, DoneIsSplit
<1>8. \A k \in 0..(HwCnt' - 1) : ~bd'[At(k)'].new
  <2>1. \A k \in 0..(N - n - 1) : ~(n + k < n)
    BY <1>3, SMT
  <2>. QED  BY <1>1, <1>5, <1>7, <2>1
<1>9. Done' = {} /\ InHand' = InHand
  BY <1>4, <1>8 DEF Done, InHand
<1>10. \A k \in 0..(r - 1) : /\ k \in 0..(HwCnt - 1) /\ k \in 0..(n - 1)
                             /\ Buf(k) \in Done /\ bd[At(k)].new
  <2>1. \A k \in 0..(r - 1) : k \in 0..(N - 1) /\ k \in 0..(n - 1) /\ k < n
    BY <1>3, SMT
  <2>. QED  BY <1>1, <1>7, <2>1
<1>11. Len(recv_q') = L + r
  BY <1>2 DEF Enqueued
<1>12. ASSUME NEW i \in 1..(L + r)
       PROVE  \/ i \in 1..L /\ recv_q'[i] = recv_q[i]
              \/ ~(i \in 1..L) /\ i - L - 1 \in 0..(r - 1) /\ recv_q'[i] = Buf(i - L - 1)
  <2>1. \/ i \in 1..L /\ i <= L
        \/ ~(i \in 1..L) /\ i - L - 1 \in 0..(r - 1) /\ ~(i <= L)
    BY <1>3, SMT
  <2>. QED  BY <1>2, <2>1 DEF Enqueued
<1>13. InQueue' \subseteq InQueue \cup Done
  <2>1. \A i \in 1..(L + r) : recv_q'[i] \in InQueue \cup Done
    BY <1>10, <1>12 DEF InQueue
  <2>2. InQueue' = {recv_q'[i] : i \in 1..(L + r)}
    BY <1>11 DEF InQueue
  <2>. QED  BY <2>1, <2>2
<1>14. ASSUME NEW i \in 1..(L + r), NEW j \in 1..(L + r), i < j
       PROVE  Earlier(content, recv_q'[i], recv_q'[j])
  <2>1. CASE j \in 1..L
    <3>1. i \in 1..L
      BY <1>3, <1>14, <2>1, SMT
    <3>. QED  BY <1>12, <1>14, <2>1, <3>1 DEF OrderInv
  <2>2. CASE ~(j \in 1..L)
    <3>1. j - L - 1 \in 0..(r - 1) /\ recv_q'[j] = Buf(j - L - 1)
      BY <1>12, <2>2
    <3>2. /\ j - L - 1 \in 0..(HwCnt - 1) /\ Buf(j - L - 1) \in Done
          /\ bd[At(j - L - 1)].new
      BY <1>10, <3>1
    <3>3. CASE i \in 1..L
      <4>1. recv_q'[i] = recv_q[i] /\ recv_q[i] \in InQueue
        BY <1>12, <3>3 DEF InQueue
      <4>. QED  BY <3>1, <3>2, <4>1 DEF OrderInv
    <3>4. CASE ~(i \in 1..L)
      <4>1. i - L - 1 \in 0..(r - 1) /\ recv_q'[i] = Buf(i - L - 1)
        BY <1>12, <3>4
      <4>2. i - L - 1 \in 0..(HwCnt - 1)
        BY <1>10, <4>1
      <4>3. i - L - 1 < j - L - 1
        BY <1>3, <1>14, SMT
      <4>. QED  BY <3>1, <3>2, <4>1, <4>2, <4>3 DEF OrderInv
    <3>. QED  BY <3>3, <3>4
  <2>. QED  BY <2>1, <2>2
<1>15. /\ \A b \in InHand \cup InQueue' : After(content, handed, b)
       /\ \A a \in InHand, b \in InQueue' : Earlier(content, a, b)
  BY <1>13 DEF OrderInv
<1>. HIDE DEF L
<1>16. OrderInv'
  BY <1>4, <1>8, <1>9, <1>11, <1>14, <1>15 DEF OrderInv
<1>. QED  BY <1>6, <1>16

\* The refilled descriptor is empty, and its pbuf came out of the pool.
LEMMA SetupKeepsOrder ==
  ASSUME IInv, CallsInv, RingInv, OwnerInv, ContentInv, OrderInv, setup_rx_bds
  PROVE  ContentInv' /\ OrderInv'
<1>. DEFINE a == pbuf_alloc
<1>1. /\ HwCnt \in 0..(N - 1) /\ HwCnt' = HwCnt + 1 /\ a \in pool
      /\ \A k \in 0..HwCnt : k = HwCnt => Buf(k)' = a
      /\ \A k \in 0..(HwCnt - 1) : At(k)' = At(k) /\ At(k) # FreeHead /\ Buf(k)' = Buf(k)
  BY SetupBufs
<1>2. /\ FreeHead = At(HwCnt) /\ HwHead' = HwHead
      /\ bd' = [bd EXCEPT ![FreeHead] = [new |-> FALSE, addr |-> Null]]
  BY SetupFacts
<1>3. /\ content' = [content EXCEPT ![a] = 0] /\ wire' = wire /\ handed' = handed
      /\ recv_q' = recv_q /\ p' = p
  BY DEF setup_rx_bds, device, consumer
<1>4. /\ N \in Nat /\ wire \in Nat /\ FreeHead \in Bds /\ content \in [Pbufs -> Nat]
      /\ bd \in [Bds -> [new : BOOLEAN, addr : Pbufs \cup {Null}]] /\ a \in Pbufs
  BY <1>1, AtInRing DEF IInv, TypeOK
<1>5. /\ \A k \in 0..(HwCnt - 1) : At(k) \in Bds /\ Buf(k) \in InRing
      /\ InRing \subseteq Pbufs /\ InQueue \subseteq Pbufs /\ InHand \subseteq Pbufs
      /\ Done \subseteq InRing
  BY PlacesAreOfPbufs
<1>6. a \notin InRing /\ a \notin InQueue /\ a \notin InHand
  BY <1>1 DEF OwnerInv, Partition
<1>. HIDE DEF a
<1>7. /\ content'[a] = 0
      /\ \A b \in Pbufs : b # a => content'[b] = content[b]
  BY <1>3, <1>4
<1>8. /\ (HwCnt + 1) - 1 = HwCnt /\ HwCnt \in 0..HwCnt /\ 0 <= wire
      /\ \A k \in 0..HwCnt : k = HwCnt \/ k \in 0..(HwCnt - 1)
      /\ \A k \in 0..(HwCnt - 1) : k \in 0..HwCnt
  BY <1>1, <1>4, SMT
<1>9. \A k \in 0..(HwCnt - 1) : bd'[At(k)'] = bd[At(k)]
  BY <1>1, <1>2, <1>4, <1>5
<1>10. \A k \in 0..HwCnt : k = HwCnt => ~bd'[At(k)'].new /\ bd'[At(k)'].addr = Null
  <2>1. \A k \in 0..HwCnt : k = HwCnt => At(k)' = FreeHead
    BY <1>2 DEF At
  <2>. QED  BY <1>2, <1>4, <2>1
<1>11. ContentInv'
  <2>1. \A b \in Pbufs : content'[b] <= wire
    BY <1>7, <1>8 DEF ContentInv
  <2>2. ASSUME NEW k \in 0..HwCnt
        PROVE  /\ bd'[At(k)'].addr \in {Null, Buf(k)'}
               /\ bd'[At(k)'].addr = Null => content'[Buf(k)'] = 0
    <3>1. CASE k = HwCnt
      BY <1>1, <1>7, <1>10, <3>1
    <3>2. CASE k \in 0..(HwCnt - 1)
      <4>1. content'[Buf(k)] = content[Buf(k)]
        BY <1>5, <1>6, <1>7, <3>2
      <4>. QED  BY <1>1, <1>9, <3>2, <4>1 DEF ContentInv
    <3>. QED  BY <1>8, <3>1, <3>2
  <2>. QED  BY <1>1, <1>3, <1>8, <2>1, <2>2 DEF ContentInv
<1>12. InHand' = InHand /\ InQueue' = InQueue
  BY <1>3 DEF InHand, InQueue
<1>13. Done' = Done
  <2>1. {l \in 0..HwCnt : bd'[At(l)'].new} = {l \in 0..(HwCnt - 1) : bd[At(l)].new}
    BY <1>8, <1>9, <1>10
  <2>2. Done' = {Buf(k)' : k \in {l \in 0..HwCnt : bd'[At(l)'].new}}
    BY <1>1, <1>8 DEF Done
  <2>3. \A k \in {l \in 0..(HwCnt - 1) : bd[At(l)].new} : Buf(k)' = Buf(k)
    BY <1>1
  <2>. QED  BY <2>1, <2>2, <2>3 DEF Done
<1>14. \A b \in InHand \cup InQueue \cup InRing : content'[b] = content[b]
  BY <1>5, <1>6, <1>7
<1>15. \A b \in InHand \cup InQueue \cup Done : After(content', handed, b)
  BY <1>5, <1>14 DEF OrderInv, After
<1>16. /\ \A c \in InHand, b \in InQueue \cup Done : Earlier(content', c, b)
       /\ \A c \in InQueue, b \in Done : Earlier(content', c, b)
  BY <1>5, <1>14 DEF OrderInv, Earlier
<1>17. \A i, j \in 1..Len(recv_q) : i < j => Earlier(content', recv_q[i], recv_q[j])
  <2>1. \A i \in 1..Len(recv_q) : recv_q[i] \in InQueue
    BY DEF InQueue
  <2>. QED  BY <1>14, <2>1 DEF OrderInv, Earlier
<1>18. ASSUME NEW k \in 0..HwCnt, NEW l \in 0..HwCnt, k < l, bd'[At(l)'].new
       PROVE  Earlier(content', Buf(k)', Buf(l)')
  <2>1. l # HwCnt
    BY <1>10, <1>18
  <2>2. k \in 0..(HwCnt - 1) /\ l \in 0..(HwCnt - 1)
    BY <1>1, <1>4, <1>18, <2>1, SMT
  <2>3. Earlier(content, Buf(k), Buf(l))
    BY <1>9, <1>18, <2>2 DEF OrderInv
  <2>4. Earlier(content', Buf(k), Buf(l))
    BY <1>5, <1>14, <2>2, <2>3 DEF Earlier
  <2>. QED  BY <1>1, <2>2, <2>4
<1>19. OrderInv'
  BY <1>1, <1>3, <1>8, <1>12, <1>13, <1>15, <1>16, <1>17, <1>18 DEF OrderInv
<1>. QED  BY <1>11, <1>19

\* A step that leaves the completed descriptors and the pbufs' frames alone.
LEMMA SameDescriptors ==
  ASSUME IInv, RingInv, HwHead' = HwHead, HwCnt' = HwCnt,
         rx_pbufs_storage' = rx_pbufs_storage,
         \A i \in Bds : bd'[i].new = bd[i].new
  PROVE  /\ \A k : At(k)' = At(k) /\ Buf(k)' = Buf(k)
         /\ \A k \in 0..(HwCnt - 1) : bd'[At(k)].new = bd[At(k)].new
         /\ Done' = Done
<1>1. \A k : At(k)' = At(k) /\ Buf(k)' = Buf(k)
  BY DEF Buf, At, XEmacPs_BdRingNext
<1>2. \A k \in 0..(HwCnt - 1) : bd'[At(k)].new = bd[At(k)].new
  BY PlacesAreOfPbufs
<1>3. {l \in 0..(HwCnt - 1) : bd'[At(l)].new} = {l \in 0..(HwCnt - 1) : bd[At(l)].new}
  BY <1>2
<1>4. Done' = {Buf(k) : k \in {l \in 0..(HwCnt - 1) : bd'[At(l)].new}}
  BY <1>1 DEF Done
<1>. QED  BY <1>1, <1>2, <1>3, <1>4 DEF Done

LEMMA SameKeepsOrder ==
  ASSUME IInv, RingInv, ContentInv, OrderInv,
         HwHead' = HwHead, HwCnt' = HwCnt, rx_pbufs_storage' = rx_pbufs_storage, bd' = bd,
         content' = content, handed' = handed, recv_q' = recv_q, p' = p,
         wire' = wire \/ wire' = wire + 1
  PROVE  ContentInv' /\ OrderInv'
<1>1. /\ \A k : At(k)' = At(k) /\ Buf(k)' = Buf(k)
      /\ Done' = Done
  BY SameDescriptors
<1>2. InHand' = InHand /\ InQueue' = InQueue
  BY DEF InHand, InQueue
<1>3. OrderInv'
  BY <1>1, <1>2 DEF OrderInv
<1>4. wire \in Nat /\ handed \in Nat /\ \A b \in Pbufs : content[b] \in Nat
  BY DEF IInv, TypeOK
<1>5. handed <= wire' /\ \A b \in Pbufs : content[b] <= wire'
  <2>1. \A t \in Nat : t <= wire => t <= wire'
    BY <1>4, SMT
  <2>. QED  BY <1>4, <2>1 DEF ContentInv
<1>6. ContentInv'
  BY <1>1, <1>5 DEF ContentInv
<1>. QED  BY <1>3, <1>6

LEMMA WriteKeepsOrder ==
  ASSUME IInv, RingInv, WordInv, ContentInv, OrderInv, XEmacPs_BdSetAddressRx_Write, ~erased'
  PROVE  ContentInv' /\ OrderInv'
<1>1. /\ bd' = [bd EXCEPT ![FreeHead].addr = rx_pbufs_storage[FreeHead]]
      /\ HwHead' = HwHead /\ HwCnt' = HwCnt /\ rx_pbufs_storage' = rx_pbufs_storage
      /\ content' = content /\ handed' = handed /\ recv_q' = recv_q /\ p' = p /\ wire' = wire
  BY WriteKeepsBits DEF XEmacPs_BdSetAddressRx_Write, device, consumer
<1>2. bd \in [Bds -> [new : BOOLEAN, addr : Pbufs \cup {Null}]] /\ FreeHead \in Bds
  BY DEF IInv, TypeOK
<1>3. \A i \in Bds : bd'[i].new = bd[i].new
  BY <1>1, <1>2
<1>4. \A i \in Bds : bd'[i].addr = bd[i].addr \/ bd'[i].addr = rx_pbufs_storage[i]
  BY <1>1, <1>2
<1>5. /\ \A k : At(k)' = At(k) /\ Buf(k)' = Buf(k)
      /\ \A k \in 0..(HwCnt - 1) : bd'[At(k)].new = bd[At(k)].new
      /\ Done' = Done
  BY <1>1, <1>3, SameDescriptors
<1>6. InHand' = InHand /\ InQueue' = InQueue
  BY <1>1 DEF InHand, InQueue
<1>7. OrderInv'
  BY <1>1, <1>5, <1>6 DEF OrderInv
<1>8. ASSUME NEW k \in 0..(HwCnt - 1)
      PROVE  /\ bd'[At(k)].addr \in {Null, Buf(k)}
             /\ bd'[At(k)].addr = Null => content[Buf(k)] = 0
  <2>1. At(k) \in Bds /\ Buf(k) \in Pbufs
    BY PlacesAreOfPbufs
  <2>2. bd'[At(k)].addr = bd[At(k)].addr \/ bd'[At(k)].addr = Buf(k)
    BY <1>4, <2>1 DEF Buf
  <2>. QED  BY <2>1, <2>2, PbufsAssumption DEF ContentInv
<1>9. ContentInv'
  BY <1>1, <1>5, <1>8 DEF ContentInv
<1>. QED  BY <1>7, <1>9

\* The oldest packet of the queue goes into the thread's empty hand.
LEMMA InputKeepsOrder ==
  ASSUME IInv, RingInv, ContentInv, OrderInv, low_level_input
  PROVE  ContentInv' /\ OrderInv'
<1>1. /\ HwHead' = HwHead /\ HwCnt' = HwCnt /\ rx_pbufs_storage' = rx_pbufs_storage /\ bd' = bd
      /\ content' = content /\ handed' = handed /\ wire' = wire
  BY DEF low_level_input, ring, descriptors, device
<1>2. CASE recv_q = <<>>
  <2>1. recv_q' = recv_q /\ p' = p
    BY <1>2 DEF low_level_input
  <2>. QED  BY <1>1, <2>1, SameKeepsOrder
<1>3. CASE recv_q # <<>>
  <2>1. p' = Head(recv_q) /\ recv_q' = Tail(recv_q) /\ recv_q \in Seq(Pbufs)
    BY <1>3 DEF low_level_input, IInv, TypeOK
  <2>2. /\ Head(recv_q) \in Pbufs /\ Len(recv_q') = Len(recv_q) - 1
        /\ \A i \in 1..Len(recv_q') : recv_q'[i] = recv_q[i + 1]
    BY <1>3, <2>1, HeadTailProperties
  <2>3. Len(recv_q) \in Nat \ {0} /\ Head(recv_q) = recv_q[1]
    BY <1>3, <2>1, SMT
  <2>4. /\ 1 \in 1..Len(recv_q)
        /\ \A i \in 1..Len(recv_q') : i + 1 \in 1..Len(recv_q) /\ 1 < i + 1
        /\ \A i, j \in 1..Len(recv_q') : i < j => i + 1 < j + 1
    BY <2>2, <2>3, SMT
  <2>5. /\ \A k : At(k)' = At(k) /\ Buf(k)' = Buf(k)
        /\ Done' = Done
    BY <1>1, SameDescriptors
  <2>6. p' = recv_q[1] /\ p' \in InQueue /\ InHand' = {p'}
    BY <2>1, <2>2, <2>3, <2>4, PbufsAssumption DEF InQueue, InHand
  <2>7. \A i \in 1..Len(recv_q') : /\ recv_q'[i] \in InQueue
                                   /\ Earlier(content, p', recv_q'[i])
    BY <2>2, <2>4, <2>6 DEF InQueue, OrderInv
  <2>8. \A i, j \in 1..Len(recv_q') : i < j => Earlier(content, recv_q'[i], recv_q'[j])
    BY <2>2, <2>4 DEF OrderInv
  <2>9. /\ InQueue' \subseteq InQueue
        /\ \A b \in InQueue' : Earlier(content, p', b)
    BY <2>7 DEF InQueue
  <2>10. /\ \A b \in InHand' \cup InQueue' \cup Done : After(content, handed, b)
         /\ \A a \in InHand', b \in InQueue' \cup Done : Earlier(content, a, b)
         /\ \A a \in InQueue', b \in Done : Earlier(content, a, b)
    BY <2>6, <2>9 DEF OrderInv
  <2>11. OrderInv'
    BY <1>1, <2>5, <2>8, <2>10 DEF OrderInv
  <2>12. ContentInv'
    BY <1>1, <2>5 DEF ContentInv
  <2>. QED  BY <2>11, <2>12
<1>. QED  BY <1>2, <1>3

\* The packet in the hand is handed on, or dropped.
LEMMA HandKeepsOrder ==
  ASSUME IInv, RingInv, ContentInv, OrderInv, xemacpsif_input_Hand \/ xemacpsif_input_Free
  PROVE  ContentInv' /\ OrderInv'
<1>1. /\ HwHead' = HwHead /\ HwCnt' = HwCnt /\ rx_pbufs_storage' = rx_pbufs_storage /\ bd' = bd
      /\ content' = content /\ wire' = wire /\ recv_q' = recv_q /\ p' = Null /\ p # Null
  BY DEF xemacpsif_input_Hand, xemacpsif_input_Free, ring, descriptors, device, IInv, TypeOK
<1>2. handed' = handed \/ (content[p] # 0 /\ handed' = content[p])
  BY DEF xemacpsif_input_Hand, xemacpsif_input_Free
<1>3. p \in Pbufs
  BY <1>1 DEF IInv, TypeOK
<1>4. /\ \A k : At(k)' = At(k) /\ Buf(k)' = Buf(k)
      /\ Done' = Done
  BY <1>1, SameDescriptors
<1>5. InHand = {p} /\ InHand' = {} /\ InQueue' = InQueue
  BY <1>1 DEF InHand, InQueue
<1>6. handed' <= wire
  BY <1>2, <1>3 DEF ContentInv
<1>7. ContentInv'
  BY <1>1, <1>4, <1>6 DEF ContentInv
<1>8. \A b \in InQueue \cup Done : After(content, handed', b)
  <2>1. \A b \in InQueue \cup Done : After(content, handed, b) /\ Earlier(content, p, b)
    BY <1>5 DEF OrderInv
  <2>. QED  BY <1>2, <2>1 DEF After, Earlier
<1>9. OrderInv'
  BY <1>1, <1>4, <1>5, <1>8 DEF OrderInv
<1>. QED  BY <1>7, <1>9

LEMMA OrderKept ==
  IInv /\ CallsInv /\ RingInv /\ WordInv /\ SplitInv /\ OwnerInv /\ ContentInv /\ OrderInv
     /\ [Next]_vars /\ ~erased'
        => ContentInv' /\ OrderInv'
<1>. SUFFICES ASSUME IInv, CallsInv, RingInv, WordInv, SplitInv, OwnerInv, ContentInv,
                     OrderInv, [Next]_vars, ~erased'
              PROVE  ContentInv' /\ OrderInv'
  OBVIOUS
<1>1. CASE \/ Receive \/ emacps_recv_handler_Loop \/ setup_rx_bds
           \/ XEmacPs_BdSetAddressRx_Write \/ low_level_input
           \/ xemacpsif_input_Hand \/ xemacpsif_input_Free
  BY <1>1, ReceiveKeepsOrder, LoopKeepsOrder, SetupKeepsOrder, WriteKeepsOrder,
     InputKeepsOrder, HandKeepsOrder
<1>2. CASE \/ \E why \in {"RXOVR", "BUFFNA"} : Lose(why)
           \/ XEmacPs_IntrHandler \/ emacps_error_handler \/ emacps_recv_handler
           \/ emacps_recv_handler_Return \/ setup_rx_bds_Return \/ sys_sem_signal
           \/ sys_sem_wait \/ vTaskDelay \/ (\E b \in Pbufs : pbuf_free(b))
           \/ XEmacPs_BdSetAddressRx_Read \/ UNCHANGED vars
  <2>1. /\ HwHead' = HwHead /\ HwCnt' = HwCnt /\ rx_pbufs_storage' = rx_pbufs_storage
        /\ bd' = bd /\ content' = content /\ handed' = handed /\ recv_q' = recv_q /\ p' = p
        /\ wire' = wire \/ wire' = wire + 1
    BY <1>2 DEF Lose, XEmacPs_IntrHandler, emacps_error_handler, emacps_recv_handler,
       emacps_recv_handler_Return, setup_rx_bds_Return, sys_sem_signal, sys_sem_wait,
       vTaskDelay, pbuf_free, XEmacPs_BdSetAddressRx_Read, vars, ring, descriptors, device,
       consumer
  <2>. QED  BY <2>1, SameKeepsOrder
<1>. QED  BY <1>1, <1>2 DEF Next, HandlerStep, ThreadStep

LEMMA OrderHolds == Spec /\ []PoolLasts => [](~erased => ContentInv /\ OrderInv)
  BY InitOrder, InvHolds, RingHolds, WordHolds, OwnersHold, OrderKept, ErasedStays, PTL
     DEF Spec

\* The packets on their way are the hand, the queue and the completed part of
\* the ring.
LEMMA OrderInvInOrder ==
  IInv /\ RingInv /\ (~erased => SplitInv /\ OrderInv) => FramesInOrder
<1>. SUFFICES ASSUME IInv, RingInv, SplitInv, OrderInv, ~erased PROVE FramesInOrder
  BY DEF FramesInOrder
<1>1. PICK n \in 0..HwCnt : Split(n)
  BY DEF SplitInv
<1>. DEFINE H == IF p = Null THEN <<>> ELSE <<p>>
            S == [k \in 1..n |-> rx_pbufs_storage[XEmacPs_BdRingNext(HwHead, k - 1)]]
            h == Len(H)
            L == Len(recv_q)
            F == InFlight
<1>2. F = (H \o recv_q) \o S
  BY <1>1, ScanSeesSplit DEF InFlight
<1>3. /\ \A k \in 0..(HwCnt - 1) : At(k) \in Bds /\ Buf(k) \in InRing
      /\ InRing \subseteq Pbufs
  BY PlacesAreOfPbufs
<1>4. /\ \A k \in 0..(HwCnt - 1) : bd[At(k)].new <=> k < n
      /\ Done = {Buf(k) : k \in 0..(n - 1)}
  BY <1>1, DoneIsSplit
<1>5. N \in Nat /\ HwCnt \in 0..N /\ n \in Nat /\ n <= HwCnt
  <2>1. N \in Nat /\ HwCnt \in 0..N
    BY AtInRing DEF RingInv
  <2>. QED  BY <2>1, SMT
<1>6. /\ \A k \in 1..n : k - 1 \in 0..(HwCnt - 1)
      /\ \A k \in 0..(n - 1) : k \in 0..(HwCnt - 1) /\ k < n
  BY <1>5, SMT
<1>7. S \in [1..n -> Pbufs] /\ \A k \in 1..n : S[k] = Buf(k - 1)
  BY <1>3, <1>6 DEF Buf, At
<1>. HIDE DEF S
<1>8. S \in Seq(Pbufs) /\ Len(S) = n
  BY <1>5, <1>7, SMT
<1>9. recv_q \in Seq(Pbufs) /\ L \in Nat
  BY DEF IInv, TypeOK
<1>10. /\ H \in Seq(Pbufs) /\ h \in 0..1 /\ (h = 1 => InHand = {p} /\ H[1] = p)
  <2>1. CASE p = Null
    BY <2>1
  <2>2. CASE p # Null
    <3>1. p \in Pbufs
      BY <2>2 DEF IInv, TypeOK
    <3>. QED  BY <2>2, <3>1 DEF InHand
  <2>. QED  BY <2>1, <2>2
<1>. HIDE DEF H, F, L, h
<1>11. /\ H \o recv_q \in Seq(Pbufs) /\ Len(H \o recv_q) = h + L
       /\ \A i \in 1..(h + L) : (H \o recv_q)[i] = IF i <= h THEN H[i] ELSE recv_q[i - h]
  BY <1>9, <1>10, ConcatProperties DEF h, L
<1>12. /\ Len(F) = h + L + n
       /\ \A i \in 1..(h + L + n) :
             F[i] = IF i <= h + L THEN (H \o recv_q)[i] ELSE S[i - (h + L)]
  <2>. DEFINE G == H \o recv_q
  <2>1. G \in Seq(Pbufs) /\ Len(G) = h + L
    BY <1>11
  <2>. HIDE DEF G
  <2>2. /\ Len(G \o S) = Len(G) + Len(S)
        /\ \A i \in 1..(Len(G) + Len(S)) :
              (G \o S)[i] = IF i <= Len(G) THEN G[i] ELSE S[i - Len(G)]
    BY <1>8, <2>1, ConcatProperties
  <2>3. /\ Len(G \o S) = h + L + n
        /\ \A i \in 1..(h + L + n) :
              (G \o S)[i] = IF i <= h + L THEN G[i] ELSE S[i - (h + L)]
    BY <1>8, <2>1, <2>2
  <2>. QED  BY <1>2, <2>3 DEF G
<1>13. ASSUME NEW i \in 1..(h + L + n)
       PROVE  \/ i = 1 /\ h = 1 /\ F[i] = p /\ InHand = {p}
              \/ i - h \in 1..L /\ F[i] = recv_q[i - h]
              \/ i - h - L - 1 \in 0..(n - 1) /\ F[i] = Buf(i - h - L - 1)
  <2>1. CASE i <= h
    <3>1. i = 1 /\ h = 1 /\ i \in 1..(h + L) /\ i <= h + L
      BY <1>5, <1>9, <1>10, <2>1, SMT
    <3>. QED  BY <1>10, <1>11, <1>12, <2>1, <3>1
  <2>2. CASE ~(i <= h) /\ i <= h + L
    <3>1. i - h \in 1..L /\ i \in 1..(h + L)
      BY <1>5, <1>9, <1>10, <2>2, SMT
    <3>. QED  BY <1>11, <1>12, <2>2, <3>1
  <2>3. CASE ~(i <= h + L)
    <3>1. /\ i - (h + L) \in 1..n /\ i - (h + L) - 1 = i - h - L - 1
          /\ i - h - L - 1 \in 0..(n - 1)
      BY <1>5, <1>9, <1>10, <2>3, SMT
    <3>. QED  BY <1>7, <1>12, <2>3, <3>1
  <2>. QED  BY <2>1, <2>2, <2>3
<1>14. /\ \A k \in 1..L : recv_q[k] \in InQueue
       /\ \A k \in 0..(n - 1) : Buf(k) \in Done
  BY <1>4 DEF InQueue, L
<1>15. ASSUME NEW i \in 1..(h + L + n) PROVE After(content, handed, F[i])
  BY <1>13, <1>14 DEF OrderInv
<1>16. ASSUME NEW j \in 1..(h + L + n), NEW i \in 1..(h + L + n), j < i
       PROVE  Earlier(content, F[j], F[i])
  <2>1. CASE i = 1
    BY <1>16, <2>1, SMT
  <2>2. CASE i - h \in 1..L /\ F[i] = recv_q[i - h]
    <3>1. CASE j = 1 /\ h = 1 /\ F[j] = p /\ InHand = {p}
      BY <1>14, <2>2, <3>1 DEF OrderInv
    <3>2. CASE j - h \in 1..L /\ F[j] = recv_q[j - h]
      <4>1. j - h < i - h
        BY <1>5, <1>9, <1>10, <1>16, SMT
      <4>. QED  BY <2>2, <3>2, <4>1 DEF OrderInv, L
    <3>3. CASE j - h - L - 1 \in 0..(n - 1)
      BY <1>5, <1>9, <1>10, <1>16, <2>2, <3>3, SMT
    <3>. QED  BY <1>13, <3>1, <3>2, <3>3
  <2>3. CASE i - h - L - 1 \in 0..(n - 1) /\ F[i] = Buf(i - h - L - 1)
    <3>1. CASE j = 1 /\ h = 1 /\ F[j] = p /\ InHand = {p}
      BY <1>14, <2>3, <3>1 DEF OrderInv
    <3>2. CASE j - h \in 1..L /\ F[j] = recv_q[j - h]
      BY <1>14, <2>3, <3>2 DEF OrderInv
    <3>3. CASE j - h - L - 1 \in 0..(n - 1) /\ F[j] = Buf(j - h - L - 1)
      <4>1. j - h - L - 1 < i - h - L - 1
        BY <1>5, <1>9, <1>10, <1>16, SMT
      <4>2. /\ i - h - L - 1 \in 0..(HwCnt - 1) /\ j - h - L - 1 \in 0..(HwCnt - 1)
            /\ bd[At(i - h - L - 1)].new
        BY <1>4, <1>6, <2>3, <3>3
      <4>. QED  BY <2>3, <3>3, <4>1, <4>2 DEF OrderInv
    <3>. QED  BY <1>13, <3>1, <3>2, <3>3
  <2>. QED  BY <1>13, <2>1, <2>2, <2>3
<1>17. \A i \in 1..(h + L + n) : \A j \in 1..(i - 1) : j \in 1..(h + L + n) /\ j < i
  BY <1>5, <1>9, <1>10, SMT
<1>18. ASSUME NEW i \in 1..Len(F), content[F[i]] # 0
       PROVE  /\ content[F[i]] > handed
              /\ \A j \in 1..(i - 1) : content[F[j]] < content[F[i]]
  <2>1. i \in 1..(h + L + n)
    BY <1>12
  <2>2. handed < content[F[i]]
    BY <1>15, <1>18, <2>1 DEF After
  <2>3. \A j \in 1..(i - 1) : content[F[j]] < content[F[i]]
    BY <1>16, <1>17, <1>18, <2>1 DEF Earlier
  <2>. QED  BY <2>2, <2>3
<1>. QED  BY <1>18 DEF FramesInOrder, F

\* Frames reach lwIP in the order of the wire and at most once, whatever the
\* ring, the queue and lwIP drop, also when a frame arrives between the two
\* writes of a refill - until a frame that arrives between the read and the
\* write of XEmacPs_BdSetAddressRx loses its new bit.
THEOREM FramesStayInOrder == Spec /\ []PoolLasts => []FramesInOrder
  BY InvHolds, RingHolds, OrderHolds, OrderInvInOrder, PTL

-----------------------------------------------------------------------------
(***************************************************************************)
(* With a pbuf for every place that can hold one - the ring, the queue,    *)
(* the mailbox and the thread's hand - pbuf_alloc does succeed: the refill *)
(* runs with a descriptor missing from the ring.                           *)
(***************************************************************************)
Enough ==
    /\ IsFiniteSet(Pbufs)
    /\ Cardinality(Pbufs) >= N + PQ_QUEUE_SIZE + Mbox + 1

StackInv == IsFiniteSet(stack) /\ Cardinality(stack) <= Mbox

LEMMA ListedBound ==
  ASSUME NEW n \in Nat, NEW f, f \in [1..n -> Pbufs]
  PROVE  /\ IsFiniteSet({f[k] : k \in 1..n})
         /\ Cardinality({f[k] : k \in 1..n}) <= n
<1>. DEFINE T == {f[k] : k \in 1..n}
<1>1. f \in Surjection(1..n, T)
  BY DEF Surjection
<1>2. IsFiniteSet(1..n) /\ Cardinality(1..n) = n
  <2>1. 1 \in Int /\ n \in Int /\ (1 > n => n = 0) /\ n - 1 + 1 = n
    BY SMT
  <2>. QED  BY <2>1, FS_Interval
<1>. HIDE DEF T
<1>3. IsFiniteSet(T) /\ Cardinality(T) <= n
  BY <1>1, <1>2, FS_Surjection DEF ExistsSurjection
<1>. QED  BY <1>3 DEF T

LEMMA UnionBound ==
  ASSUME NEW S, NEW T, NEW s \in Nat, NEW t \in Nat,
         IsFiniteSet(S), IsFiniteSet(T), Cardinality(S) <= s, Cardinality(T) <= t
  PROVE  IsFiniteSet(S \cup T) /\ Cardinality(S \cup T) <= s + t
<1>1. /\ IsFiniteSet(S \cup T)
      /\ Cardinality(S \cup T) = Cardinality(S) + Cardinality(T) - Cardinality(S \cap T)
  BY FS_Union
<1>2. IsFiniteSet(S \cap T)
  BY FS_Subset
<1>3. Cardinality(S) \in Nat /\ Cardinality(T) \in Nat /\ Cardinality(S \cap T) \in Nat
  BY <1>2, FS_CardinalityType
<1>4. Cardinality(S \cup T) <= s + t
  BY <1>1, <1>3, SMT
<1>. QED  BY <1>1, <1>4

LEMMA StackInitially == Init => StackInv
<1>1. Mbox \in Nat /\ \A m \in Nat : 0 <= m
  BY SizesAssumption, SMT
<1>. QED  BY <1>1, FS_EmptySet DEF Init, StackInv

\* lwIP takes no packet when its mailbox is full.
LEMMA StackKept == StackInv /\ [Next]_vars => StackInv'
<1>. SUFFICES ASSUME StackInv, [Next]_vars PROVE StackInv'
  OBVIOUS
<1>1. IsFiniteSet(stack) /\ Cardinality(stack) <= Mbox
  BY DEF StackInv
<1>2. Cardinality(stack) \in Nat /\ Mbox \in Nat
  BY <1>1, FS_CardinalityType, SizesAssumption
<1>3. CASE xemacpsif_input_Hand
  <2>1. Cardinality(stack) < Mbox /\ stack' = stack \cup {p}
    BY <1>3 DEF xemacpsif_input_Hand
  <2>2. /\ IsFiniteSet(stack')
        /\ Cardinality(stack') \in {Cardinality(stack), Cardinality(stack) + 1}
    BY <1>1, <2>1, FS_AddElement
  <2>3. Cardinality(stack') <= Mbox
    BY <1>2, <2>1, <2>2, SMT
  <2>. QED  BY <2>2, <2>3 DEF StackInv
<1>4. CASE \E b \in Pbufs : pbuf_free(b)
  <2>1. PICK b : stack' = stack \ {b}
    BY <1>4 DEF pbuf_free
  <2>2. /\ IsFiniteSet(stack')
        /\ Cardinality(stack') \in {Cardinality(stack), Cardinality(stack) - 1}
    BY <1>1, <2>1, FS_RemoveElement
  <2>3. Cardinality(stack') <= Mbox
    BY <1>1, <1>2, <2>2, SMT
  <2>. QED  BY <2>2, <2>3 DEF StackInv
<1>5. CASE ~xemacpsif_input_Hand /\ ~(\E b \in Pbufs : pbuf_free(b))
  <2>1. stack' = stack
    BY <1>5 DEF Next, Receive, Lose, XEmacPs_IntrHandler, HandlerStep, emacps_error_handler,
       emacps_recv_handler, emacps_recv_handler_Loop, emacps_recv_handler_Return,
       setup_rx_bds, XEmacPs_BdSetAddressRx_Read, XEmacPs_BdSetAddressRx_Write,
       setup_rx_bds_Return, sys_sem_signal,
       ThreadStep, sys_sem_wait, low_level_input, xemacpsif_input_Free, vTaskDelay, vars,
       consumer
  <2>. QED  BY <1>1, <2>1 DEF StackInv
<1>. QED  BY <1>3, <1>4, <1>5

LEMMA EnoughLasts ==
  ASSUME Enough, IInv, RingInv, OwnerInv, StackInv
  PROVE  PoolLasts
<1>. SUFFICES ASSUME FreeCnt > 0, pool = {} PROVE FALSE
  BY DEF PoolLasts
<1>1. /\ N \in Nat /\ PQ_QUEUE_SIZE \in Nat /\ Mbox \in Nat
      /\ HwCnt \in 0..N /\ FreeCnt = N - HwCnt
  BY SizesAssumption DEF RingInv
<1>2. /\ HwCnt \in Nat /\ HwCnt + PQ_QUEUE_SIZE \in Nat /\ HwCnt + PQ_QUEUE_SIZE + 1 \in Nat
      /\ HwCnt + PQ_QUEUE_SIZE + 1 + Mbox < N + PQ_QUEUE_SIZE + Mbox + 1
  BY <1>1, SMT
<1>3. IsFiniteSet(InRing) /\ Cardinality(InRing) <= HwCnt
  <2>. DEFINE f == [k \in 1..HwCnt |-> Buf(k - 1)]
  <2>1. /\ \A k \in 1..HwCnt : k - 1 \in 0..(HwCnt - 1)
        /\ \A k \in 0..(HwCnt - 1) : k + 1 \in 1..HwCnt /\ (k + 1) - 1 = k
    BY <1>2, SMT
  <2>2. \A k \in 0..(HwCnt - 1) : Buf(k) \in Pbufs
    BY PlacesAreOfPbufs
  <2>3. f \in [1..HwCnt -> Pbufs] /\ \A k \in 1..HwCnt : f[k] = Buf(k - 1)
    BY <2>1, <2>2
  <2>. HIDE DEF f
  <2>4. {f[k] : k \in 1..HwCnt} = InRing
    <3>1. \A k \in 1..HwCnt : f[k] \in InRing
      BY <2>1, <2>3 DEF InRing
    <3>2. \A k \in 0..(HwCnt - 1) : f[k + 1] = Buf(k)
      BY <2>1, <2>3
    <3>3. \A k \in 0..(HwCnt - 1) : Buf(k) \in {f[l] : l \in 1..HwCnt}
      BY <2>1, <3>2
    <3>. QED  BY <3>1, <3>3, Zenon DEF InRing
  <2>. QED  BY <1>2, <2>3, <2>4, ListedBound
<1>4. IsFiniteSet(InQueue) /\ Cardinality(InQueue) <= PQ_QUEUE_SIZE
  <2>1. recv_q \in Seq(Pbufs) /\ Len(recv_q) <= PQ_QUEUE_SIZE
    BY DEF IInv, TypeOK
  <2>2. Len(recv_q) \in Nat /\ recv_q \in [1..Len(recv_q) -> Pbufs]
    BY <2>1
  <2>3. IsFiniteSet(InQueue) /\ Cardinality(InQueue) <= Len(recv_q)
    BY <2>2, ListedBound DEF InQueue
  <2>4. Cardinality(InQueue) \in Nat
    BY <2>3, FS_CardinalityType
  <2>5. Cardinality(InQueue) <= PQ_QUEUE_SIZE
    BY <1>1, <2>1, <2>2, <2>3, <2>4, SMT
  <2>. QED  BY <2>3, <2>5
<1>5. IsFiniteSet(InHand) /\ Cardinality(InHand) <= 1
  <2>1. 0 <= 1 /\ 1 <= 1
    BY SMT
  <2>. QED  BY <2>1, FS_EmptySet, FS_Singleton DEF InHand
<1>6. /\ IsFiniteSet(InRing \cup InQueue)
      /\ Cardinality(InRing \cup InQueue) <= HwCnt + PQ_QUEUE_SIZE
  BY <1>1, <1>2, <1>3, <1>4, UnionBound
<1>7. /\ IsFiniteSet((InRing \cup InQueue) \cup InHand)
      /\ Cardinality((InRing \cup InQueue) \cup InHand) <= HwCnt + PQ_QUEUE_SIZE + 1
  BY <1>2, <1>5, <1>6, UnionBound
<1>. DEFINE U == ((InRing \cup InQueue) \cup InHand) \cup stack
<1>8. IsFiniteSet(U) /\ Cardinality(U) <= HwCnt + PQ_QUEUE_SIZE + 1 + Mbox
  BY <1>1, <1>2, <1>7, UnionBound DEF StackInv
<1>9. Pbufs \subseteq U
  BY DEF OwnerInv, Partition
<1>. HIDE DEF U
<1>10. Cardinality(Pbufs) <= Cardinality(U) /\ IsFiniteSet(Pbufs)
  BY <1>8, <1>9, FS_Subset
<1>11. Cardinality(Pbufs) \in Nat /\ Cardinality(U) \in Nat
  BY <1>8, <1>10, FS_CardinalityType
<1>12. Cardinality(Pbufs) >= N + PQ_QUEUE_SIZE + Mbox + 1
  BY DEF Enough
<1>. QED  BY <1>1, <1>2, <1>8, <1>10, <1>11, <1>12, SMT

\* A pool of that size never runs out in a refill ...
THEOREM PoolSuffices == ASSUME Enough PROVE Spec => []PoolLasts
<1>. DEFINE J == CallsInv /\ RingInv /\ WordInv /\ OwnerInv /\ StackInv
<1>1. Init => J
  BY InitRing, InitOwners, StackInitially
<1>2. IInv /\ J => PoolLasts
  BY EnoughLasts
<1>3. IInv /\ J /\ [Next]_vars => J'
  <2>. SUFFICES ASSUME IInv, J, [Next]_vars PROVE J'
    OBVIOUS
  <2>1. CallsInv' /\ RingInv' /\ WordInv'
    BY <1>2, RingKept, WordKept
  <2>2. OwnerInv'
    BY OwnersKept
  <2>3. StackInv'
    BY StackKept
  <2>. QED  BY <2>1, <2>2, <2>3
<1>. HIDE DEF J
<1>. QED  BY <1>1, <1>2, <1>3, InvHolds, PTL DEF Spec

\* ... so that with it the counts of the ring and the owners hold in every
\* behaviour, the rest of the ring and the order until a new bit is erased.
THEOREM EnoughPbufs ==
  ASSUME Enough
  PROVE  Spec => [](RingConsistent /\ PbufsOwnedOnce /\ FramesInOrder)
<1>1. Spec => []PoolLasts
  BY PoolSuffices
<1>. QED  BY <1>1, RingStaysConsistent, PbufsStayOwnedOnce, FramesStayInOrder, PTL
=============================================================================
