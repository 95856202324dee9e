---------------------------- MODULE SensorProofs -----------------------------
(***************************************************************************)
(* Proofs about Sensor, for any number of connections and samples: what a  *)
(* client is sent is a sample, of a bounded age, and never an earlier one  *)
(* than before.                                                            *)
(***************************************************************************)
EXTENDS Sensor, TLAPS

Bytes == 0 .. MaxSample \cup {Junk}
Words == [low : Bytes, high : {0, Junk}]

TypeInv ==
    /\ lsb \in 0 .. MaxSample
    /\ memory \in Words /\ last_read \in Words
    /\ cache \in [valid : BOOLEAN, dirty : BOOLEAN, word : Words]
    /\ echo \in {"start", "listen", "flush", "read", "accept", "delay", "returned"}
    /\ conn \in [Conns -> {"closed", "read", "write", "format", "send", "close"}]
    /\ answer \in [Conns -> Words]
    /\ settled \in Bytes
    /\ due \in [Conns -> Bytes]

\* A word that S can have published when its last sample is lsb, and that is
\* not older than what clients were told last.
Published(w) == w.high = 0 /\ last_read.low <= w.low /\ w.low <= lsb

\* The line of NS differs from memory in one way only: it holds the zeros of
\* the start, before the first flush.
Dirty == cache.valid /\ cache.dirty
DirtyInv ==
    /\ ~cache.valid => ~cache.dirty
    /\ Dirty => /\ echo \in {"listen", "flush", "returned"}
                /\ cache.word = Zero /\ last_read = Zero /\ settled = 0

\* From the start of the echo thread on, the line holds a published word, and
\* so does memory, a newer one, unless the line will overwrite it.
WordInv ==
    /\ echo = "start" => last_read = Zero /\ settled = 0
    /\ echo # "start" =>
         /\ cache.valid => Published(cache.word)
         /\ ~Dirty => /\ Published(memory)
                      /\ cache.valid => cache.word.low <= memory.low

\* Every word that is told to clients is clean, and none is older than memory
\* was when the accept before theirs returned.
ToldInv ==
    /\ last_read.high = 0 /\ last_read.low <= lsb
    /\ \A c \in Conns : answer[c].high = 0 /\ answer[c].low <= lsb

AgeInv ==
    /\ settled <= lsb
    /\ echo # "start" /\ ~Dirty => settled <= memory.low
    /\ echo = "read" /\ cache.valid => settled <= cache.word.low
    /\ echo = "accept" => settled <= last_read.low
    /\ \A c \in Conns : due[c] <= last_read.low
    /\ \A c \in Conns : conn[c] = "send" => due[c] <= answer[c].low

IInv == TypeInv /\ DirtyInv /\ WordInv /\ ToldInv /\ AgeInv

-----------------------------------------------------------------------------
LEMMA BytesAreNumbers == Bytes \subseteq Nat /\ 0 \in Bytes /\ 0 .. MaxSample \subseteq Bytes
  BY SensorAssumption, SMT DEF Bytes

LEMMA Reflexive == \A x \in Nat : x <= x
  BY SMT

\* The words and lines that the steps build.
LEMMA ZeroWord == Zero \in Words /\ Zero.low = 0 /\ Zero.high = 0
  BY BytesAreNumbers DEF Zero, Word, Words

LEMMA LineType ==
  ASSUME NEW w \in Words, NEW d \in BOOLEAN
  PROVE  /\ Line(w, d) \in [valid : BOOLEAN, dirty : BOOLEAN, word : Words]
         /\ Line(w, d).valid /\ Line(w, d).dirty = d /\ Line(w, d).word = w
  BY DEF Line

LEMMA AbsentType ==
  /\ Absent \in [valid : BOOLEAN, dirty : BOOLEAN, word : Words]
  /\ ~Absent.valid /\ ~Absent.dirty
  BY ZeroWord DEF Absent

LEMMA InitInv == Init => IInv
<1>. SUFFICES ASSUME Init PROVE IInv
  OBVIOUS
<1>1. Word(Junk, Junk) \in Words /\ 0 \in 0 .. MaxSample /\ 0 <= 0
  BY SensorAssumption, SMT DEF Word, Words, Bytes
<1>2. TypeInv
  BY <1>1, ZeroWord, BytesAreNumbers, LineType, AbsentType DEF Init, TypeInv
<1>3. ~cache.dirty
  BY <1>1, LineType, AbsentType DEF Init
<1>4. DirtyInv
  BY <1>3 DEF DirtyInv, Dirty
<1>5. WordInv
  BY DEF Init, WordInv
<1>6. ToldInv
  BY <1>1, ZeroWord DEF Init, ToldInv
<1>7. AgeInv
  BY <1>1, ZeroWord DEF Init, AgeInv
<1>. QED  BY <1>2, <1>4, <1>5, <1>6, <1>7 DEF IInv

-----------------------------------------------------------------------------
\* A round of S: memory gets a sample that is not older than the one in it.
LEMMA LoopKeeps == ASSUME IInv, main_Loop PROVE IInv'
<1>. USE DEF IInv
<1>1. PICK b \in {lsb, lsb + 1} :
        /\ b <= MaxSample /\ lsb' = b /\ memory' = [memory EXCEPT !.low = b]
        /\ UNCHANGED <<cache, last_read, echo, conn, stale, answer, settled, due>>
  BY DEF main_Loop
<1>2. b \in 0 .. MaxSample /\ lsb <= b /\ lsb \in Nat /\ b \in Nat
  BY <1>1, SensorAssumption, SMT DEF TypeInv
<1>3. memory' \in Words /\ memory'.low = b /\ memory'.high = memory.high
  BY <1>1, <1>2, BytesAreNumbers DEF TypeInv, Words
<1>4. /\ cache.word.low \in Nat /\ memory.low \in Nat /\ last_read.low \in Nat
      /\ settled \in Nat /\ \A c \in Conns : answer[c].low \in Nat
  BY BytesAreNumbers DEF TypeInv, Words
<1>5. TypeInv'
  BY <1>1, <1>2, <1>3 DEF TypeInv
<1>6. DirtyInv'
  BY <1>1 DEF DirtyInv, Dirty
<1>7. ToldInv'
  BY <1>1, <1>2, <1>4, SMT DEF ToldInv
<1>8. WordInv'
  BY <1>1, <1>2, <1>3, <1>4, SMT DEF WordInv, ToldInv, Published, Dirty
<1>9. AgeInv'
  BY <1>1, <1>2, <1>3, <1>4, SMT DEF AgeInv, Dirty
<1>. QED  BY <1>5, <1>6, <1>7, <1>8, <1>9

\* The line leaves the cache, by chance or by a flush.
LEMMA GiveUpKeeps ==
  ASSUME IInv, memory' = WriteBack, cache' = Absent, echo' \in {echo, "read"},
         echo' # echo => echo = "flush",
         UNCHANGED <<lsb, last_read, conn, stale, answer, settled, due>>
  PROVE  IInv'
<1>. USE DEF IInv
<1>1. memory' = IF Dirty THEN cache.word ELSE memory
  BY DEF WriteBack, Dirty
<1>2. ~Dirty' /\ ~cache'.valid /\ ~cache'.dirty
  BY AbsentType DEF Dirty
<1>3. TypeInv'
  BY <1>1, AbsentType DEF TypeInv
<1>4. DirtyInv'
  BY <1>2 DEF DirtyInv, Dirty
<1>5. ToldInv'
  BY DEF ToldInv
<1>6. WordInv'
  BY <1>1, <1>2 DEF WordInv, Published, Dirty
<1>7. AgeInv'
  <2>1. echo' # "start" => settled <= memory'.low
    BY <1>1, ZeroWord, 0 <= 0 DEF AgeInv, DirtyInv
  <2>. QED  BY <1>2, <2>1 DEF AgeInv, Dirty
<1>. QED  BY <1>3, <1>4, <1>5, <1>6, <1>7

LEMMA PrefetchKeeps == ASSUME IInv, Prefetch PROVE IInv'
<1>. USE DEF IInv
<1>1. /\ ~cache.valid /\ cache' = Line(memory, FALSE)
      /\ UNCHANGED <<lsb, memory, last_read, echo, conn, stale, answer, settled, due>>
  BY DEF Prefetch
<1>2. cache'.valid /\ ~cache'.dirty /\ cache'.word = memory /\ ~Dirty /\ ~Dirty'
  BY <1>1, LineType DEF TypeInv, Dirty
<1>3. TypeInv'
  BY <1>1, LineType DEF TypeInv
<1>4. DirtyInv'
  BY <1>2 DEF DirtyInv, Dirty
<1>5. ToldInv'
  BY <1>1 DEF ToldInv
<1>6. memory.low <= memory.low
  BY BytesAreNumbers, Reflexive DEF TypeInv, Words
<1>7. WordInv'
  BY <1>1, <1>2, <1>6 DEF WordInv, Published, Dirty
<1>8. AgeInv'
  BY <1>1, <1>2 DEF AgeInv, Dirty
<1>. QED  BY <1>3, <1>4, <1>5, <1>7, <1>8

-----------------------------------------------------------------------------
LEMMA StartKeeps == ASSUME IInv, echo_Start PROVE IInv'
<1>. USE DEF IInv
<1>1. /\ echo = "start" /\ cache' = Line(Zero, TRUE) /\ last_read' = Zero /\ echo' = "listen"
      /\ UNCHANGED <<lsb, memory, conn, stale, answer, settled, due>>
  BY DEF echo_Start
<1>2. /\ cache'.valid /\ cache'.dirty /\ cache'.word = Zero /\ Dirty'
      /\ last_read = Zero /\ settled = 0
  BY <1>1, ZeroWord, LineType DEF WordInv, Dirty
<1>3. TypeInv'
  BY <1>1, ZeroWord, LineType DEF TypeInv
<1>4. DirtyInv'
  BY <1>1, <1>2 DEF DirtyInv, Dirty
<1>5. ToldInv'
  BY <1>1, <1>2 DEF ToldInv
<1>6. WordInv'
  BY <1>1, <1>2, ZeroWord, 0 <= 0 DEF WordInv, Published, ToldInv, Dirty
<1>7. AgeInv'
  BY <1>1, <1>2 DEF AgeInv, Dirty
<1>. QED  BY <1>3, <1>4, <1>5, <1>6, <1>7

\* A step of the echo thread that moves on without touching a word.
LEMMA MoveKeeps ==
  ASSUME IInv, echo \in {"listen", "delay"}, echo' \in {"flush", "returned"},
         UNCHANGED <<lsb, memory, cache, last_read, conn, stale, answer, settled, due>>
  PROVE  IInv'
<1>. USE DEF IInv
<1>1. TypeInv'
  BY DEF TypeInv
<1>2. DirtyInv'
  BY DEF DirtyInv, Dirty
<1>3. ToldInv' /\ WordInv' /\ AgeInv'
  BY DEF ToldInv, WordInv, Published, AgeInv, Dirty
<1>. QED  BY <1>1, <1>2, <1>3

LEMMA ReadKeeps == ASSUME IInv, echo_Read PROVE IInv' /\ last_read.low <= last_read'.low
<1>. USE DEF IInv
<1>. DEFINE w == IF cache.valid THEN cache.word ELSE memory
<1>1. /\ echo = "read" /\ last_read' = w /\ cache' = Line(w, cache.valid /\ cache.dirty)
      /\ echo' = "accept" /\ UNCHANGED <<lsb, memory, conn, stale, answer, settled, due>>
  BY DEF echo_Read
<1>2. ~Dirty /\ w \in Words /\ w.low \in Nat
  BY <1>1, BytesAreNumbers DEF DirtyInv, TypeInv, Words
<1>3. cache'.valid /\ ~cache'.dirty /\ cache'.word = w /\ ~Dirty'
  BY <1>1, <1>2, LineType DEF Dirty
<1>4. /\ Published(w) /\ Published(memory)
      /\ w.low <= memory.low /\ settled <= w.low /\ w.low <= w.low
  BY <1>1, <1>2, SMT DEF WordInv, AgeInv, TypeInv, Dirty
<1>5. w.high = 0 /\ w.low <= lsb /\ last_read.low <= w.low
  BY <1>4 DEF Published
<1>. HIDE DEF w
<1>6. TypeInv'
  BY <1>1, <1>2, LineType DEF TypeInv, Dirty
<1>7. DirtyInv'
  BY <1>3 DEF DirtyInv, Dirty
<1>8. ToldInv'
  BY <1>1, <1>5 DEF ToldInv
<1>9. WordInv'
  BY <1>1, <1>3, <1>4 DEF WordInv, Published
<1>10. AgeInv'
  <2>1. \A c \in Conns : due[c] <= w.low
    <3>1. \A c \in Conns : due[c] \in Nat /\ due[c] <= last_read.low
      BY BytesAreNumbers DEF TypeInv, AgeInv
    <3>2. last_read.low \in Nat
      BY BytesAreNumbers DEF TypeInv, Words
    <3>3. \A x, y, z \in Nat : x <= y /\ y <= z => x <= z
      BY SMT
    <3>. QED  BY <1>2, <1>5, <3>1, <3>2, <3>3
  <2>2. /\ echo' # "start" /\ echo' # "read" /\ settled' <= memory'.low
        /\ settled' <= lsb' /\ settled' <= last_read'.low
    BY <1>1, <1>2, <1>4 DEF AgeInv
  <2>3. \A c \in Conns : conn'[c] = "send" => due'[c] <= answer'[c].low
    BY <1>1 DEF AgeInv
  <2>. QED  BY <1>1, <2>1, <2>2, <2>3 DEF AgeInv
<1>. QED  BY <1>1, <1>5, <1>6, <1>7, <1>8, <1>9, <1>10

LEMMA AcceptKeeps == ASSUME IInv, lwip_accept PROVE IInv'
<1>. USE DEF IInv
<1>1. /\ echo = "accept" /\ echo' = "delay" /\ settled' = memory.low
      /\ UNCHANGED <<lsb, memory, cache, last_read, answer>>
  BY DEF lwip_accept
<1>2. ~Dirty /\ ~Dirty' /\ Published(memory)
  BY <1>1 DEF DirtyInv, WordInv, Dirty
<1>3. memory.low \in Bytes /\ memory.low <= lsb /\ memory.low <= memory.low
  BY <1>2, BytesAreNumbers, Reflexive DEF Published, TypeInv, Words
<1>4. /\ conn' \in [Conns -> {"closed", "read", "write", "format", "send", "close"}]
      /\ due' \in [Conns -> Bytes]
      /\ \A c \in Conns : due'[c] <= last_read.low
      /\ \A c \in Conns : conn'[c] = "send" => conn[c] = "send" /\ due'[c] = due[c]
  <2>1. CASE UNCHANGED <<conn, stale, due>>
    BY <2>1 DEF TypeInv, AgeInv
  <2>2. CASE \E c \in Conns, r \in Requests :
            /\ conn[c] = "closed"
            /\ conn' = [conn EXCEPT ![c] = "read"]
            /\ stale' = [stale EXCEPT ![c] = r]
            /\ due' = [due EXCEPT ![c] = settled]
    <3>1. PICK c \in Conns : /\ conn' = [conn EXCEPT ![c] = "read"]
                             /\ due' = [due EXCEPT ![c] = settled]
      BY <2>2
    <3>2. settled <= last_read.low /\ settled \in Bytes
      BY <1>1 DEF AgeInv, TypeInv
    <3>. QED  BY <3>1, <3>2 DEF TypeInv, AgeInv
  <2>. QED  BY <2>1, <2>2 DEF lwip_accept
<1>5. TypeInv'
  BY <1>1, <1>3, <1>4 DEF TypeInv
<1>6. DirtyInv'
  BY <1>1, <1>2 DEF DirtyInv, Dirty
<1>7. ToldInv'
  BY <1>1 DEF ToldInv
<1>8. WordInv'
  BY <1>1 DEF WordInv, Published, Dirty
<1>9. AgeInv'
  BY <1>1, <1>3, <1>4 DEF AgeInv
<1>. QED  BY <1>5, <1>6, <1>7, <1>8, <1>9

-----------------------------------------------------------------------------
\* A step of a connection leaves the words alone, and what it puts into
\* data_send is last_read.
LEMMA ConnectionKeeps ==
  ASSUME IInv, UNCHANGED <<lsb, memory, cache, last_read, echo, settled>>,
         conn' \in [Conns -> {"closed", "read", "write", "format", "send", "close"}],
         answer' \in [Conns -> Words], due' \in [Conns -> Bytes],
         \A c \in Conns : answer'[c] \in {answer[c], last_read, Zero},
         \A c \in Conns : due'[c] \in {due[c], 0},
         \A c \in Conns : conn'[c] = "send" =>
            due'[c] = due[c] /\ ((conn[c] = "send" /\ answer'[c] = answer[c]) \/ answer'[c] = last_read)
  PROVE  IInv'
<1>. USE DEF IInv
<1>1. TypeInv'
  BY DEF TypeInv
<1>2. DirtyInv'
  BY DEF DirtyInv, Dirty
<1>3. WordInv'
  BY DEF WordInv, Published, Dirty
<1>4. 0 <= lsb /\ 0 <= last_read.low
  <2>1. lsb \in Nat /\ last_read.low \in Nat
    BY BytesAreNumbers DEF TypeInv, Words
  <2>. QED  BY <2>1, SMT
<1>5. ToldInv'
  BY <1>4, ZeroWord DEF ToldInv
<1>6. AgeInv'
  BY <1>4 DEF AgeInv, Dirty
<1>. QED  BY <1>1, <1>2, <1>3, <1>5, <1>6

LEMMA GotoKeeps ==
  ASSUME IInv, NEW c \in Conns, NEW q \in {"read", "write", "format", "close"},
         conn' = [conn EXCEPT ![c] = q],
         UNCHANGED <<lsb, memory, cache, last_read, echo, answer, settled, due>>
  PROVE  IInv'
<1>1. /\ conn' \in [Conns -> {"closed", "read", "write", "format", "send", "close"}]
      /\ answer' \in [Conns -> Words] /\ due' \in [Conns -> Bytes]
  BY DEF IInv, TypeInv
<1>2. \A d \in Conns : conn'[d] = "send" => conn[d] = "send"
  BY DEF IInv, TypeInv
<1>. QED  BY <1>1, <1>2, ConnectionKeeps

LEMMA StepOfConnectionKeeps ==
  ASSUME IInv, NEW c \in Conns,
         \/ read_Request(c) \/ read_Nothing(c) \/ read_Error(c) \/ write_Request(c)
         \/ sprintf(c) \/ send(c) \/ close(c)
  PROVE  IInv'
<1>1. CASE read_Request(c)
  <2>1. PICK r \in Requests, behind \in {stale[c], "other"} :
          conn' = [conn EXCEPT ![c] = IF Found({r, behind}) # "none" THEN Found({r, behind})
                                      ELSE IF r = "quit" THEN "close" ELSE "write"]
    BY <1>1 DEF read_Request
  <2>2. Found({r, behind}) \in {"none", "format", "close"}
    BY DEF Found
  <2>3. UNCHANGED <<lsb, memory, cache, last_read, echo, answer, settled, due>>
    BY <1>1 DEF read_Request
  <2>. QED  BY <2>1, <2>2, <2>3, GotoKeeps
<1>2. CASE read_Nothing(c) \/ read_Error(c) \/ write_Request(c) \/ send(c)
  <2>1. \E q \in {"read", "write", "format", "close"} : Goto(c, q)
    BY <1>2 DEF read_Nothing, read_Error, write_Request, send
  <2>. QED  BY <2>1, GotoKeeps DEF Goto
<1>3. CASE sprintf(c)
  <2>1. /\ answer' = [answer EXCEPT ![c] = last_read] /\ conn' = [conn EXCEPT ![c] = "send"]
        /\ UNCHANGED <<lsb, memory, cache, last_read, echo, stale, settled, due>>
    BY <1>3 DEF sprintf
  <2>2. /\ conn' \in [Conns -> {"closed", "read", "write", "format", "send", "close"}]
        /\ answer' \in [Conns -> Words] /\ due' \in [Conns -> Bytes]
    BY <2>1 DEF IInv, TypeInv
  <2>3. /\ \A d \in Conns : answer'[d] = IF d = c THEN last_read ELSE answer[d]
        /\ \A d \in Conns : conn'[d] = IF d = c THEN "send" ELSE conn[d]
    BY <2>1 DEF IInv, TypeInv
  <2>. QED  BY <2>1, <2>2, <2>3, ConnectionKeeps
<1>4. CASE close(c)
  <2>1. /\ conn' = [conn EXCEPT ![c] = "closed"] /\ answer' = [answer EXCEPT ![c] = Zero]
        /\ due' = [due EXCEPT ![c] = 0]
        /\ UNCHANGED <<lsb, memory, cache, last_read, echo, settled>>
    BY <1>4 DEF close
  <2>2. /\ conn' \in [Conns -> {"closed", "read", "write", "format", "send", "close"}]
        /\ answer' \in [Conns -> Words] /\ due' \in [Conns -> Bytes]
    BY <2>1, ZeroWord, BytesAreNumbers DEF IInv, TypeInv
  <2>3. /\ \A d \in Conns : answer'[d] = IF d = c THEN Zero ELSE answer[d]
        /\ \A d \in Conns : conn'[d] = IF d = c THEN "closed" ELSE conn[d]
        /\ \A d \in Conns : due'[d] = IF d = c THEN 0 ELSE due[d]
    BY <2>1 DEF IInv, TypeInv
  <2>. QED  BY <2>1, <2>2, <2>3, ConnectionKeeps
<1>. QED  BY <1>1, <1>2, <1>3, <1>4

-----------------------------------------------------------------------------
LEMMA StutterKeeps == ASSUME IInv, UNCHANGED vars PROVE IInv'
<1>1. UNCHANGED <<lsb, memory, cache, last_read, echo, conn, stale, answer, settled, due>>
  BY DEF vars
<1>2. TypeInv' /\ DirtyInv' /\ WordInv'
  BY <1>1 DEF IInv, TypeInv, DirtyInv, WordInv, Published, Dirty
<1>3. ToldInv' /\ AgeInv'
  BY <1>1 DEF IInv, ToldInv, AgeInv, Dirty
<1>. QED  BY <1>2, <1>3 DEF IInv

LEMMA NextKeeps == IInv /\ [Next]_vars => IInv'
<1>. SUFFICES ASSUME IInv, [Next]_vars PROVE IInv'
  OBVIOUS
<1>1. CASE main_Loop
  BY <1>1, LoopKeeps
<1>2. CASE Evict
  BY <1>2, GiveUpKeeps DEF Evict
<1>3. CASE Prefetch
  BY <1>3, PrefetchKeeps
<1>4. CASE echo_Start
  BY <1>4, StartKeeps
<1>5. CASE echo_Listen \/ vTaskDelay
  <2>1. /\ echo \in {"listen", "delay"} /\ echo' \in {"flush", "returned"}
        /\ UNCHANGED <<lsb, memory, cache, last_read, conn, stale, answer, settled, due>>
    BY <1>5 DEF echo_Listen, vTaskDelay
  <2>. QED  BY <2>1, MoveKeeps
<1>6. CASE Xil_DCacheFlush
  BY <1>6, GiveUpKeeps DEF Xil_DCacheFlush
<1>7. CASE echo_Read
  BY <1>7, ReadKeeps
<1>8. CASE lwip_accept
  BY <1>8, AcceptKeeps
<1>9. CASE \E c \in Conns :
            \/ read_Request(c) \/ read_Nothing(c) \/ read_Error(c) \/ write_Request(c)
            \/ sprintf(c) \/ send(c) \/ close(c)
  BY <1>9, StepOfConnectionKeeps
<1>10. CASE UNCHANGED vars
  BY <1>10, StutterKeeps
<1>. QED  BY <1>1, <1>2, <1>3, <1>4, <1>5, <1>6, <1>7, <1>8, <1>9, <1>10 DEF Next

LEMMA InvHolds == Spec => []IInv
  BY InitInv, NextKeeps, PTL DEF Spec

\* No client is sent a byte nobody has written: the zeros that NS has put into
\* its cache reach memory before the word is read, in whatever order S writes
\* its byte, the line is evicted and the thread flushes it.
THEOREM AnswersAreClean == Spec => []NoJunkAnswered
<1>1. IInv => NoJunkAnswered
  <2>. SUFFICES ASSUME IInv, NEW c \in Conns
                PROVE  answer[c] \in [low : 0 .. MaxSample, high : {0}]
    BY DEF NoJunkAnswered
  <2>1. answer[c] \in Words /\ answer[c].high = 0 /\ answer[c].low <= lsb /\ lsb \in 0 .. MaxSample
    BY DEF IInv, TypeInv, ToldInv
  <2>2. answer[c].low \in Nat
    BY <2>1, BytesAreNumbers DEF Words
  <2>3. answer[c].low \in 0 .. MaxSample
    BY <2>1, <2>2, SensorAssumption, SMT
  <2>. QED  BY <2>1, <2>3 DEF Words
<1>. QED  BY <1>1, InvHolds, PTL

\* An answer is never older than what memory held when the accept before the
\* client's own had returned, although the word is read before accept blocks.
THEOREM AnswersAreNotTooOld == Spec => []AnswerNotOlderThanLastAccept
<1>1. IInv => AnswerNotOlderThanLastAccept
  <2>1. IInv => \A c \in Conns : due[c] \in Nat /\ answer[c].low \in Nat
    BY BytesAreNumbers DEF IInv, TypeInv, Words
  <2>. QED  BY <2>1, SMT DEF IInv, AgeInv, AnswerNotOlderThanLastAccept
<1>. QED  BY <1>1, InvHolds, PTL

\* What clients are told never goes back to an earlier sample: the only line
\* that is written back holds the zeros of the start, and leaves the cache
\* before the first word is read.
THEOREM NothingGoesBackwards == Spec => NeverBackwards
<1>1. IInv /\ [Next]_vars => [last_read'.low >= last_read.low]_vars
  <2>. SUFFICES ASSUME IInv, Next PROVE last_read'.low >= last_read.low
    OBVIOUS
  <2>1. IInv' /\ last_read.low \in Nat /\ last_read'.low \in Nat
    BY NextKeeps, BytesAreNumbers DEF IInv, TypeInv, Words
  <2>2. last_read' = last_read \/ echo_Read \/ echo_Start
    BY DEF Next, main_Loop, Evict, Prefetch, echo_Listen, Xil_DCacheFlush, lwip_accept,
           vTaskDelay, read_Request, read_Nothing, read_Error, write_Request, sprintf, send,
           close, Goto
  <2>3. echo_Start => last_read' = last_read
    BY DEF echo_Start, IInv, WordInv
  <2>4. echo_Read => last_read.low <= last_read'.low
    BY ReadKeeps
  <2>. QED  BY <2>1, <2>2, <2>3, <2>4, SMT
<1>. QED  BY <1>1, InvHolds, PTL DEF Spec, NeverBackwards
=============================================================================
