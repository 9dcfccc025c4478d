---------------------------- MODULE FrameEncoder ----------------------------
(***************************************************************************)
(* libavcodec/frame_thread_encoder.c: frames are encoded by a thread each, *)
(* and the packets returned in the order of the frames, through the calls  *)
(* avcodec_send_frame and avcodec_receive_packet of encode.c.              *)
(*                                                                         *)
(* What is done under task_fifo_mutex or finished_task_mutex is one step;  *)
(* so is the encoding of a frame, which is the codec's and ends when its   *)
(* result is published.  A frame, and its packet, is its number.           *)
(***************************************************************************)
EXTENDS Integers, Sequences, FiniteSets

CONSTANTS Threads,      \* avctx->thread_count
          BufferSize,   \* BUFFER_SIZE, twice the largest thread_count
          MaxFrames,    \* bound on the frames of the user
          Outcomes,     \* of a codec: "packet", "nothing", "error"
          None

ASSUME FrameEncoderAssumption ==
    /\ Threads \in Nat /\ Threads > 1           \* else there are no threads
    /\ BufferSize \in Nat /\ 2 * Threads <= BufferSize
    /\ MaxFrames \in Nat
    /\ Outcomes \subseteq {"packet", "nothing", "error"}
    /\ None \notin Nat
    /\ None \notin [frame : Nat, index : Nat] /\ None \notin [frame : Nat, outcome : Outcomes]

Workers == 0 .. Threads - 1
Indices == 0 .. BufferSize - 1
Frames  == 1 .. MaxFrames

VARIABLES threadCount,    \* the workers there are
          taskFifo,       \* task_fifo: frames with the index for the result
          finished,       \* finished_tasks: None, or the frame and its outcome
          taskIndex, finishedIndex,
          exit,
          wpc, task,      \* per worker: where it is, and its task
          upc,            \* where the user is
          call,           \* in which call: whether it has a frame, and receives
          delay,          \* AV_CODEC_CAP_DELAY
          draining,
          bufferPkt,      \* buffer_pkt, if it is valid
          \* history
          sent,           \* the frames that were accepted: 1 .. sent
          refs,           \* those that are referenced
          outcome,        \* what the codec made of each that was returned
          got,            \* the packets that the user has received
          eof             \* he was told that there are no more

results == <<finished, finishedIndex, outcome>>
workers == <<wpc, task>>
api     == <<bufferPkt, got, eof>>
vars    == <<threadCount, taskFifo, results, taskIndex, exit, workers, upc, call,
             delay, draining, api, sent, refs>>

NoCall == [frame |-> FALSE, receives |-> FALSE]

Init ==
    /\ threadCount = 0 /\ taskFifo = <<>> /\ finished = [i \in Indices |-> None]
    /\ taskIndex = 0 /\ finishedIndex = 0 /\ exit = FALSE
    /\ wpc = [w \in Workers |-> "none"] /\ task = [w \in Workers |-> None]
    /\ upc = "init" /\ call = NoCall /\ delay \in BOOLEAN /\ draining = FALSE
    /\ bufferPkt = None /\ sent = 0 /\ refs = {} /\ outcome = <<>> /\ got = <<>>
    /\ eof = FALSE

Running == 0 .. threadCount - 1
Asleep  == {w \in Workers : wpc[w] = "asleep"}

Queued == {taskFifo[i].frame : i \in DOMAIN taskFifo}
Taken  == {task[w].frame : w \in {v \in Workers : task[v] # None}}

-----------------------------------------------------------------------------
(* worker                                                                  *)

\* It looks at exit first.
Ends(w) ==
    /\ wpc[w] = "loop" /\ exit
    /\ wpc' = [wpc EXCEPT ![w] = "ended"]
    /\ UNCHANGED <<taskFifo, task>>

Sleeps(w) ==
    /\ wpc[w] = "loop" /\ ~exit /\ taskFifo = <<>>
    /\ wpc' = [wpc EXCEPT ![w] = "asleep"]
    /\ UNCHANGED <<taskFifo, task>>

TakesTask(w) ==
    /\ wpc[w] = "loop" /\ ~exit /\ taskFifo # <<>>
    /\ task' = [task EXCEPT ![w] = Head(taskFifo)] /\ taskFifo' = Tail(taskFifo)
    /\ wpc' = [wpc EXCEPT ![w] = "encode"]

\* Mutant: results are stored in the order in which they are made.
StoresNext(t, o) ==
    LET free == CHOOSE i \in Indices : finished[i] = None
                          /\ \A j \in Indices : finished[j] = None => i <= j
    IN  finished' = [finished EXCEPT ![free] = [frame |-> t.frame, outcome |-> o]]

Stores(t, o) == finished' = [finished EXCEPT ![t.index] = [frame |-> t.frame, outcome |-> o]]

\* Mutant: the user is not told.
SignalsNobody == UNCHANGED upc

\* pthread_cond_signal of finished_task_cond, on which only the user waits
SignalsUser == upc' = IF upc = "asleep" THEN "awake" ELSE upc

\* The frame is unreferenced and the result published.
Encodes(w, o) ==
    /\ wpc[w] = "encode"
    /\ refs' = refs \ {task[w].frame}
    /\ Stores(task[w], o) /\ SignalsUser
    /\ task' = [task EXCEPT ![w] = None] /\ wpc' = [wpc EXCEPT ![w] = "loop"]

Worker(w) ==
    /\ \/ Ends(w) /\ UNCHANGED <<finished, refs, upc>>
       \/ Sleeps(w) /\ UNCHANGED <<finished, refs, upc>>
       \/ TakesTask(w) /\ UNCHANGED <<finished, refs, upc>>
       \/ \E o \in Outcomes : Encodes(w, o) /\ UNCHANGED taskFifo
    /\ UNCHANGED <<threadCount, finishedIndex, outcome, taskIndex, exit, call, delay,
                   draining, api, sent>>

-----------------------------------------------------------------------------
(* ff_frame_thread_encoder_init and _free                                  *)

CreateWorker ==
    /\ upc = "init" /\ threadCount < Threads
    /\ wpc' = [wpc EXCEPT ![threadCount] = "loop"] /\ threadCount' = threadCount + 1
    /\ upc' = IF threadCount' = Threads THEN "idle" ELSE "init"
    /\ UNCHANGED <<taskFifo, results, taskIndex, exit, task, call, delay, draining, api,
                   sent, refs>>

\* exit is set and task_fifo_cond broadcast.
StartsFree ==
    /\ exit' = TRUE /\ upc' = "join"
    /\ wpc' = [w \in Workers |-> IF w \in Asleep THEN "loop" ELSE wpc[w]]

\* Init fails, or the encoder is closed by avcodec_close between two calls.
Free ==
    /\ upc \in {"init", "idle"} /\ StartsFree
    /\ UNCHANGED <<threadCount, taskFifo, results, taskIndex, task, call, delay, draining,
                   api, sent, refs>>

\* All threads are joined; then the frames that nobody has taken are freed,
\* and the packets that nobody has received.
Joined ==
    /\ upc = "join" /\ \A w \in Running : wpc[w] = "ended"
    /\ refs' = refs \ Queued
    /\ taskFifo' = <<>> /\ finished' = [i \in Indices |-> None] /\ upc' = "freed"
    /\ UNCHANGED <<threadCount, finishedIndex, outcome, taskIndex, exit, workers, call,
                   delay, draining, api, sent>>

-----------------------------------------------------------------------------
(* ff_thread_video_encode_frame, in do_encode                              *)

\* pthread_cond_signal of task_fifo_cond: any of those who wait.
SignalsWorker ==
    IF Asleep = {} THEN UNCHANGED wpc
    ELSE \E w \in Asleep : wpc' = [wpc EXCEPT ![w] = "loop"]

\* avcodec_send_frame with a frame; avcodec_receive_packet comes first if
\* there is a packet.
SendFrame ==
    /\ upc = "idle" /\ ~draining /\ bufferPkt = None /\ sent < MaxFrames
    /\ sent' = sent + 1 /\ refs' = refs \union {sent'}
    /\ taskFifo' = Append(taskFifo, [frame |-> sent', index |-> taskIndex])
    /\ taskIndex' = (taskIndex + 1) % BufferSize
    /\ SignalsWorker
    /\ upc' = "collect" /\ call' = [frame |-> TRUE, receives |-> FALSE]
    /\ UNCHANGED <<threadCount, results, exit, task, delay, draining, api>>

\* avcodec_send_frame without one: with AV_CODEC_CAP_DELAY it collects, unless
\* there is a packet.
SendEof ==
    /\ upc = "idle" /\ ~draining
    /\ draining' = TRUE
    /\ IF delay /\ bufferPkt = None
       THEN upc' = "collect" /\ call' = NoCall
       ELSE UNCHANGED <<upc, call>>
    /\ UNCHANGED <<threadCount, taskFifo, results, taskIndex, exit, workers, delay, api,
                   sent, refs>>

\* avcodec_receive_packet: what is there, or, once draining, the next.
ReceiveBuffered ==
    /\ upc = "idle" /\ bufferPkt # None
    /\ got' = Append(got, bufferPkt) /\ bufferPkt' = None /\ UNCHANGED <<upc, call, eof>>

ReceiveDrains ==
    /\ upc = "idle" /\ bufferPkt = None /\ draining
    /\ upc' = "collect" /\ call' = [frame |-> FALSE, receives |-> TRUE]
    /\ UNCHANGED api

ReceivePacket ==
    /\ ReceiveBuffered \/ ReceiveDrains
    /\ UNCHANGED <<threadCount, taskFifo, results, taskIndex, exit, workers, delay,
                   draining, sent, refs>>

Pending == (taskIndex - finishedIndex) % BufferSize

\* Mutant: a call with a frame never waits.
NothingYetForFrames ==
    \/ taskIndex = finishedIndex
    \/ call.frame /\ finished[finishedIndex] = None

\* Mutant: a call without a frame does not wait either.
NothingYetForAny ==
    \/ taskIndex = finishedIndex
    \/ finished[finishedIndex] = None /\ Pending <= threadCount

\* The call is not to wait for the result of the oldest frame.
NothingYet ==
    \/ taskIndex = finishedIndex
    \/ call.frame /\ finished[finishedIndex] = None /\ Pending <= threadCount

\* do_encode, and what its caller makes of the result: the packet is kept, or
\* received at once; nothing is AVERROR_EOF for avcodec_receive_packet.
Returns(r) ==
    /\ upc' = "idle" /\ call' = NoCall
    /\ IF r # None /\ r.outcome = "packet"
       THEN /\ IF call.receives THEN got' = Append(got, r.frame) /\ UNCHANGED bufferPkt
                                ELSE bufferPkt' = r.frame /\ UNCHANGED got
            /\ UNCHANGED eof
       ELSE /\ eof' = (eof \/ (call.receives /\ (r = None \/ r.outcome = "nothing")))
            /\ UNCHANGED <<got, bufferPkt>>

ReturnsNothing ==
    /\ upc = "collect" /\ NothingYet
    /\ Returns(None) /\ UNCHANGED results

Waits ==
    /\ upc \in {"collect", "awake"} /\ ~(upc = "collect" /\ NothingYet)
    /\ finished[finishedIndex] = None
    /\ upc' = "asleep"
    /\ UNCHANGED <<results, call, api>>

TakesResult ==
    /\ upc \in {"collect", "awake"} /\ ~(upc = "collect" /\ NothingYet)
    /\ finished[finishedIndex] # None
    /\ finished' = [finished EXCEPT ![finishedIndex] = None]
    /\ finishedIndex' = (finishedIndex + 1) % BufferSize
    /\ outcome' = Append(outcome, finished[finishedIndex])
    /\ Returns(finished[finishedIndex])

Collect ==
    /\ ReturnsNothing \/ Waits \/ TakesResult
    /\ UNCHANGED <<threadCount, taskFifo, taskIndex, exit, workers, delay, draining, sent,
                   refs>>

-----------------------------------------------------------------------------

SpuriousWakeup ==
    /\ \/ upc = "asleep" /\ upc' = "awake" /\ UNCHANGED wpc
       \/ \E w \in Asleep : wpc' = [wpc EXCEPT ![w] = "loop"] /\ UNCHANGED upc
    /\ UNCHANGED <<threadCount, taskFifo, results, taskIndex, exit, task, call, delay,
                   draining, api, sent, refs>>

Freed == upc = "freed" /\ UNCHANGED vars

InCall == Collect \/ Joined

Next == \/ CreateWorker \/ SendFrame \/ SendEof \/ ReceivePacket \/ Free
        \/ InCall \/ SpuriousWakeup \/ Freed
        \/ \E w \in Workers : Worker(w)

\* Threads run, and the user while he is in a call.
Spec == Init /\ [][Next]_vars /\ WF_vars(InCall) /\ \A w \in Workers : WF_vars(Worker(w))

-----------------------------------------------------------------------------
(* Properties                                                              *)

Results == [frame : Frames, outcome : Outcomes]
Tasks   == [frame : Frames, index : Indices]

(* No more frames are on their way, between two calls, than there are      *)
(* threads, so that the ring and the fifo never have more than they can    *)
(* hold; and a frame is referenced as long as a task has it, which is      *)
(* nowhere once the encoder is closed, or could not be opened.             *)
TypeOK ==
    /\ threadCount \in 0 .. Threads
    /\ taskFifo \in Seq(Tasks) /\ Len(taskFifo) <= threadCount + 1
    /\ finished \in [Indices -> Results \union {None}]
    /\ taskIndex \in Indices /\ finishedIndex \in Indices /\ exit \in BOOLEAN
    /\ wpc \in [Workers -> {"none", "loop", "asleep", "encode", "ended"}]
    /\ task \in [Workers -> Tasks \union {None}]
    /\ upc \in {"init", "idle", "collect", "asleep", "awake", "join", "freed"}
    /\ call \in [frame : BOOLEAN, receives : BOOLEAN]
    /\ delay \in BOOLEAN /\ draining \in BOOLEAN /\ eof \in BOOLEAN
    /\ bufferPkt \in Frames \union {None} /\ got \in Seq(Frames)
    /\ outcome \in Seq(Results) /\ Len(outcome) <= sent
    /\ sent \in 0 .. MaxFrames /\ refs \subseteq 1 .. sent
    /\ refs = Queued \union Taken
    /\ Pending = sent - Len(outcome)
    /\ Pending <= threadCount + (IF upc = "idle" THEN 0 ELSE 1)

\* The packets that were returned, the one in buffer_pkt included.
Packets == got \o (IF bufferPkt = None THEN <<>> ELSE <<bufferPkt>>)

(* The results are returned in the order of the frames, whichever thread   *)
(* is first, and the packets among them are received once each and in that *)
(* order: the user has them all, but for the one that buffer_pkt keeps.    *)
ReturnedInOrder ==
    /\ \A i \in DOMAIN outcome : outcome[i].frame = i
    /\ \A i, j \in DOMAIN Packets : i < j => Packets[i] < Packets[j]
    /\ \A k \in DOMAIN outcome :
          outcome[k].outcome = "packet" <=> \E i \in DOMAIN Packets : Packets[i] = k
    /\ \A i \in DOMAIN Packets : Packets[i] \in DOMAIN outcome

(* avcodec_receive_packet returns AVERROR_EOF when the result of each frame *)
(* was returned (avcodec.h: there will be no more output packets), unless  *)
(* the codec has made nothing of a frame.                                  *)
EofIsEnd ==
    eof => \/ Len(outcome) = sent
           \/ \E i \in DOMAIN outcome : outcome[i].outcome = "nothing"

(* Every call returns: no result is waited for that will not come, and     *)
(* each thread that sleeps is woken to end.                                *)
EveryCallReturns == (upc \in {"collect", "asleep", "awake", "join"}) ~> (upc \in {"idle", "freed"})
=============================================================================
