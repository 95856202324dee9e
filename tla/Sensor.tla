------------------------------- MODULE Sensor --------------------------------
(***************************************************************************)
(* The way of a sample from the secure guest to a web page: the loop of    *)
(* src/s_guest/BareApp/blink.c writes the byte it read from SPI 1 into a   *)
(* word at a fixed address; echo_application_thread of ns_guest/src/echo.c *)
(* reads that word and process_echo_request sends it to a client.          *)
(*                                                                         *)
(* S runs without a data cache and writes memory; NS reads and writes      *)
(* through its write-back caches, in which the word has a line of its own. *)
(* A round of S takes place between any two steps of NS, never during one. *)
(*                                                                         *)
(* A sample is its number, so that a later one is larger.  A word is its   *)
(* low byte, which S writes, and the three others, of which only matters   *)
(* whether they are 0.                                                     *)
(***************************************************************************)
EXTENDS Naturals

CONSTANTS
    Conns,          \* connections that can be open at a time
    MaxSample,      \* the last sample
    Junk            \* a byte nobody has written

ASSUME SensorAssumption ==
    /\ MaxSample \in Nat \ {0}
    /\ Junk \in Nat /\ Junk > MaxSample

VARIABLES
    lsb,        \* of main in blink.c: the last byte read from SPI 1
    memory,     \* the word sensor_data, in memory
    cache,      \* the line of sensor_data in the caches of NS
    last_read,  \* of echo.c
    echo,       \* where echo_application_thread is
    conn,       \* where the thread of each connection is
    stale,      \* what its recv_buf holds behind the bytes it received
    answer,     \* the word it has put into data_send
    settled,    \* memory after accept returned the last time
    due         \* per connection: settled when its accept returned

vars == <<lsb, memory, cache, last_read, echo, conn, stale, answer, settled, due>>

Word(l, h) == [low |-> l, high |-> h]
Zero == Word(0, 0)

\* The line is absent, or holds the word, changed or not since it was loaded.
Absent == [valid |-> FALSE, dirty |-> FALSE, word |-> Zero]
Line(w, d) == [valid |-> TRUE, dirty |-> d, word |-> w]

\* What clients send: GET, POST, a POST with "SensorData=new", quit, other text.
Requests == {"GET", "POST", "SensorData", "quit", "other"}
-----------------------------------------------------------------------------
(* S: a round of the loop in blink.c, from the return of YIELD to the next. *)

\* SPI1_ReadData leaves lsb alone when there is no byte; memcpy copies one byte
\* in any case.
\* Bug: the word is written for a new byte only.
LoopOnNewByte ==
    /\ lsb < MaxSample
    /\ lsb' = lsb + 1
    /\ memory' = [memory EXCEPT !.low = lsb + 1]
    /\ UNCHANGED <<cache, last_read, echo, conn, stale, answer, settled, due>>
main_Loop ==
    \E b \in {lsb, lsb + 1} :
        /\ b <= MaxSample
        /\ lsb' = b
        /\ memory' = [memory EXCEPT !.low = b]
        /\ UNCHANGED <<cache, last_read, echo, conn, stale, answer, settled, due>>
-----------------------------------------------------------------------------
(* The caches of NS (device) *)

WriteBack == IF cache.valid /\ cache.dirty THEN cache.word ELSE memory

\* The line is replaced; or it is loaded, which the prefetcher may do.
Evict ==
    /\ cache.valid
    /\ memory' = WriteBack
    /\ cache' = Absent
    /\ UNCHANGED <<lsb, last_read, echo, conn, stale, answer, settled, due>>
Prefetch ==
    /\ ~cache.valid
    /\ cache' = Line(memory, FALSE)
    /\ UNCHANGED <<lsb, memory, last_read, echo, conn, stale, answer, settled, due>>
-----------------------------------------------------------------------------
(* echo_application_thread *)

\* last_read = sensor_data = 0
echo_Start ==
    /\ echo = "start"
    /\ cache' = Line(Zero, TRUE)
    /\ last_read' = Zero
    /\ echo' = "listen"
    /\ UNCHANGED <<lsb, memory, conn, stale, answer, settled, due>>

\* lwip_socket, lwip_bind and lwip_listen; the thread returns when one of the
\* first two fails.
echo_Listen ==
    /\ echo = "listen"
    /\ echo' \in {"flush", "returned"}
    /\ UNCHANGED <<lsb, memory, cache, last_read, conn, stale, answer, settled, due>>

\* Xil_DCacheFlush, Xil_L1DCacheFlush and Xil_L2CacheFlush: the line is written
\* back and given up.
\* Bugs: it is only written back; it is only given up.
FlushKeepsLine ==
    /\ echo = "flush"
    /\ memory' = WriteBack
    /\ cache' = [cache EXCEPT !.dirty = FALSE]
    /\ echo' = "read"
    /\ UNCHANGED <<lsb, last_read, conn, stale, answer, settled, due>>
FlushDropsLine ==
    /\ echo = "flush"
    /\ cache' = Absent
    /\ echo' = "read"
    /\ UNCHANGED <<lsb, memory, last_read, conn, stale, answer, settled, due>>
Xil_DCacheFlush ==
    /\ echo = "flush"
    /\ memory' = WriteBack
    /\ cache' = Absent
    /\ echo' = "read"
    /\ UNCHANGED <<lsb, last_read, conn, stale, answer, settled, due>>

\* last_read = sensor_data
echo_Read ==
    LET w == IF cache.valid THEN cache.word ELSE memory
    IN  /\ echo = "read"
        /\ last_read' = w
        /\ cache' = Line(w, cache.valid /\ cache.dirty)
        /\ echo' = "accept"
        /\ UNCHANGED <<lsb, memory, conn, stale, answer, settled, due>>

\* lwip_accept returns: with a connection, for which a thread is created (its
\* recv_buf is uninitialised), or without one, or no thread can be created.
lwip_accept ==
    /\ echo = "accept"
    /\ echo' = "delay"
    /\ settled' = memory.low
    /\ \/ UNCHANGED <<conn, stale, due>>
       \/ \E c \in Conns, r \in Requests :
            /\ conn[c] = "closed"
            /\ conn' = [conn EXCEPT ![c] = "read"]
            /\ stale' = [stale EXCEPT ![c] = r]
            /\ due' = [due EXCEPT ![c] = settled]
    /\ UNCHANGED <<lsb, memory, cache, last_read, answer>>

\* Bug: the word is zeroed in the loop.
DelayToStart ==
    /\ echo = "delay"
    /\ echo' = "start"
    /\ UNCHANGED <<lsb, memory, cache, last_read, conn, stale, answer, settled, due>>
vTaskDelay ==
    /\ echo = "delay"
    /\ echo' = "flush"
    /\ UNCHANGED <<lsb, memory, cache, last_read, conn, stale, answer, settled, due>>
-----------------------------------------------------------------------------
(* process_echo_request *)

\* The searches of recv_buf: a page is sent for GET, the word for a POST with
\* SensorData=new, and both end the connection, as any other POST does.
Found(content) ==
    IF "GET" \in content THEN "close"
    ELSE IF "SensorData" \in content THEN "format"
    ELSE IF "POST" \in content THEN "close"
    ELSE "none"

Goto(c, p) ==
    /\ conn' = [conn EXCEPT ![c] = p]
    /\ UNCHANGED <<lsb, memory, cache, last_read, echo, stale, answer, settled, due>>

\* read gives a request.  No zero ends it in recv_buf, so what was behind it is
\* searched too, unless the request is long enough to cover that.
read_Request(c) ==
    /\ conn[c] = "read"
    /\ \E r \in Requests, behind \in {stale[c], "other"} :
        LET f == Found({r, behind})
        IN  /\ conn' = [conn EXCEPT ![c] = IF f # "none" THEN f
                                ELSE IF r = "quit" THEN "close" ELSE "write"]
            /\ stale' = [stale EXCEPT ![c] = behind]
    /\ UNCHANGED <<lsb, memory, cache, last_read, echo, answer, settled, due>>

\* read gives nothing (the client has closed), and the buffer is searched all
\* the same; or it fails.
read_Nothing(c) ==
    /\ conn[c] = "read"
    /\ Goto(c, IF Found({stale[c]}) = "format" THEN "format" ELSE "close")
read_Error(c) ==
    /\ conn[c] = "read"
    /\ Goto(c, "close")

\* The request is sent back, or that fails.
write_Request(c) ==
    /\ conn[c] = "write"
    /\ \E p \in {"read", "close"} : Goto(c, p)

\* last_read is put into data_send: a float, which is exact below 2^24, hence
\* for every word without bytes nobody has written.
sprintf(c) ==
    /\ conn[c] = "format"
    /\ answer' = [answer EXCEPT ![c] = last_read]
    /\ conn' = [conn EXCEPT ![c] = "send"]
    /\ UNCHANGED <<lsb, memory, cache, last_read, echo, stale, settled, due>>

send(c) ==
    /\ conn[c] = "send"
    /\ Goto(c, "close")

\* close and vTaskDelete; what the thread kept is gone.
close(c) ==
    /\ conn[c] = "close"
    /\ conn' = [conn EXCEPT ![c] = "closed"]
    /\ stale' = [stale EXCEPT ![c] = "other"]
    /\ answer' = [answer EXCEPT ![c] = Zero]
    /\ due' = [due EXCEPT ![c] = 0]
    /\ UNCHANGED <<lsb, memory, cache, last_read, echo, settled>>
-----------------------------------------------------------------------------
\* Memory holds what was there before; nothing clears the word of S.
Init ==
    /\ lsb = 0
    /\ memory = Word(Junk, Junk)
    /\ cache \in {Absent, Line(Word(Junk, Junk), FALSE)}
    /\ last_read = Zero
    /\ echo = "start"
    /\ conn = [c \in Conns |-> "closed"]
    /\ stale = [c \in Conns |-> "other"]
    /\ answer = [c \in Conns |-> Zero]
    /\ settled = 0
    /\ due = [c \in Conns |-> 0]

Connection(c) ==
    \/ read_Request(c) \/ read_Nothing(c) \/ read_Error(c) \/ write_Request(c)
    \/ sprintf(c) \/ send(c) \/ close(c)

echo_application_thread ==
    \/ echo_Start \/ echo_Listen \/ Xil_DCacheFlush \/ echo_Read
    \/ lwip_accept \/ vTaskDelay

Next ==
    \/ main_Loop
    \/ Evict \/ Prefetch
    \/ echo_Start \/ echo_Listen \/ Xil_DCacheFlush \/ echo_Read
    \/ lwip_accept \/ vTaskDelay
    \/ \E c \in Conns :
        \/ read_Request(c) \/ read_Nothing(c) \/ read_Error(c) \/ write_Request(c)
        \/ sprintf(c) \/ send(c) \/ close(c)

Spec == Init /\ [][Next]_vars

\* The tick gives S a round again and again; the echo thread runs while it is
\* not blocked, and is not blocked for ever: the page asks every second.  The
\* threads of connections owe nothing.
FairSpec == Spec /\ WF_vars(main_Loop) /\ WF_vars(echo_application_thread)
-----------------------------------------------------------------------------
\* No client is sent a byte that was in memory before the program: what S
\* writes is one byte of four, and the zeros of the others are in the cache of
\* NS until it is flushed (echo.c, sensor_data = 0 and Xil_DCacheFlush).
NoJunkAnswered == \A c \in Conns : answer[c] \in [low : 0 .. MaxSample, high : {0}]

\* How old an answer can be: the word is read before accept blocks, so a client
\* may get a sample that was replaced long ago, but never one that was replaced
\* before the connection before it was accepted (echo.c, last_read).
AnswerNotOlderThanLastAccept ==
    \A c \in Conns : conn[c] = "send" => answer[c].low >= due[c]

\* What clients are told of never goes back to an earlier sample, although the
\* cache of NS may write its old word over what S has published.
NeverBackwards == [][last_read'.low >= last_read.low]_vars

\* A sample that S has read, or a later one, is what clients are told from some
\* time on, unless the echo thread had to give up: also when the line of NS has
\* destroyed it in memory, as S writes its byte in every round.
SamplesServed ==
    \A k \in 1 .. MaxSample :
        lsb = k ~> (last_read.low \in k .. MaxSample \/ echo = "returned")
=============================================================================
