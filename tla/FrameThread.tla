----------------------------- MODULE FrameThread -----------------------------
(***************************************************************************)
(* libavcodec/pthread_frame.c: frame threading.  The user's thread submits *)
(* each packet to the next of the codec threads, each with a context of    *)
(* its own, and returns the frames in order.  The next packet is submitted *)
(* only when the thread before it has finished its setup, because its      *)
(* context is copied from that thread.                                     *)
(*                                                                         *)
(* A worker holds its p->mutex except in its wait for input.  What is done *)
(* under progress_mutex, and async_mutex, is one step; a thread asleep on  *)
(* a condition variable is in the set of its waiters.                      *)
(*                                                                         *)
(* The codec is external: it may call get_format, calls get_buffer for a   *)
(* frame, may finish its setup itself, waits for the progress of its       *)
(* reference frame, reports its own, and outputs the frame of Delay        *)
(* packets ago, or fails.                                                  *)
(***************************************************************************)
EXTENDS Integers, Sequences, FiniteSets

CONSTANTS NThreads,     \* avctx->thread_count, more than 1
          MaxPackets,   \* bound on the packets the user sends
          Codecs        \* the codecs considered, each a record of
                        \*   update  it has update_thread_context
                        \*   buf     the user's get_buffer2 is called in the
                        \*   fmt     user's thread only; so is his get_format
                        \*   hw      its hwaccel: "none", "safe" or "serial"
                        \*   delay   frames it holds back (AV_CODEC_CAP_DELAY)
                        \*   ffv1    it is AV_CODEC_ID_FFV1

ASSUME FrameThreadAssumption ==
    /\ NThreads \in Nat /\ NThreads > 1
    /\ MaxPackets \in Nat
    /\ Codecs \subseteq [update : BOOLEAN, buf : BOOLEAN, fmt : BOOLEAN,
                       hw : {"none", "safe", "serial"}, delay : Nat, ffv1 : BOOLEAN]
    /\ \A c \in Codecs : (c.hw # "none" \/ c.delay > 0) => c.update

VARIABLES
    codec,          \* the codec, and the user's callbacks, of this decoder
    \* FrameThreadContext
    prev,           \* prev_thread
    nextDecoding,   \* next_decoding
    nextFinished,   \* next_finished
    delaying,       \* delaying
    bufferMutex,    \* the owner of buffer_mutex
    hwMutex,        \* the owner of hwaccel_mutex
    asyncLock,      \* async_lock
    asyncWait,      \* the threads asleep on async_cond
    \* PerThreadContext of each thread
    state,          \* state
    die,            \* die
    avpkt,          \* avpkt: the number of the packet, 0 for the empty one
    out,            \* got_frame, frame and result
    ctx,            \* avctx with the codec's private data
    released,       \* num_released_buffers > 0
    hwSer,          \* hwaccel_serializing
    asyncSer,       \* async_serializing
    progWait,       \* the threads asleep on progress_cond
    outWait,        \* the user is asleep on output_cond
    pc,             \* where the worker is
    then,           \* where ff_thread_finish_setup returns to
    \* frames
    owner,          \* ThreadFrame.owner of the frame of each packet
    progress,       \* the packets whose frame is completely decoded
    \* the user's thread
    upc,            \* where it is
    upkt,           \* the packet of the call
    fin,            \* finished of ff_thread_decode_frame, i of the loops
    ret,            \* what the call is going to return
    draining,       \* draining and draining_done: "no", "yes", "done"
    \* history
    sent,           \* the number of the last packet a thread has accepted
    base,           \* and at the last flush
    delivered       \* what the user was given since the last flush

fctx   == <<prev, nextDecoding, nextFinished, delaying>>
async  == <<asyncLock, asyncWait>>
locks  == <<bufferMutex, hwMutex, async>>
serial == <<hwSer, asyncSer>>
waits  == <<progWait, outWait>>
ptctx  == <<state, die, avpkt, out, ctx, released, serial, waits>>
worker == <<pc, then>>
frames == <<owner, progress>>
user   == <<upc, upkt, fin, ret, draining>>
hist   == <<sent, base, delivered>>
vars   == <<codec, fctx, locks, ptctx, worker, frames, user, hist>>

Threads == 0 .. NThreads - 1
User    == NThreads             \* also "no thread" where a thread is meant
Packets == 1 .. MaxPackets

Nothing  == [kind |-> "none",  pkt |-> 0]
Frame(n) == [kind |-> "frame", pkt |-> n]
Error(n) == [kind |-> "error", pkt |-> n]    \* n: the packet lost, or 0

\* last: the newest packet it knows of; frame: the newest reference frame;
\* ref: the one this packet refers to; held: frames to output
NewContext == [last |-> 0, frame |-> 0, ref |-> 0, held |-> <<>>, hw |-> FALSE]

Init ==
    /\ codec \in Codecs
    /\ prev = User /\ nextDecoding = 0 /\ nextFinished = 0 /\ delaying = TRUE
    /\ bufferMutex = User /\ hwMutex = User /\ asyncLock = TRUE /\ asyncWait = {}
    /\ state    = [t \in Threads |-> "input_ready"]
    /\ die      = [t \in Threads |-> FALSE]
    /\ avpkt    = [t \in Threads |-> 0]
    /\ out      = [t \in Threads |-> Nothing]
    /\ ctx      = [t \in Threads |-> NewContext]
    /\ released = [t \in Threads |-> FALSE]
    /\ hwSer    = [t \in Threads |-> FALSE]
    /\ asyncSer = [t \in Threads |-> FALSE]
    /\ progWait = [t \in Threads |-> {}]
    /\ outWait  = [t \in Threads |-> FALSE]
    /\ pc       = [t \in Threads |-> "woken"]
    /\ then     = [t \in Threads |-> "parse"]
    /\ owner    = [n \in Packets |-> User]
    /\ progress = {}
    /\ upc = "idle" /\ upkt = 0 /\ fin = 0 /\ ret = Nothing /\ draining = "no"
    /\ sent = 0 /\ base = 0 /\ delivered = <<>>

-----------------------------------------------------------------------------
(* Locks and contexts *)

\* async_unlock, and async_lock by w, which moves on only when it has the lock
AsyncUnlock == asyncLock' = FALSE /\ asyncWait' = {}
AsyncSleeps(w) ==
    /\ asyncLock /\ w \notin asyncWait
    /\ asyncWait' = asyncWait \union {w} /\ UNCHANGED asyncLock
AsyncLock(w) == ~asyncLock /\ asyncLock' = TRUE /\ UNCHANGED asyncWait

\* A worker holds its p->mutex except in its wait for input, where the user
\* holds it from the lock of submit_packet to the signal.
UserHolds(t) == upc \in {"release", "prev"} /\ nextDecoding = t
MutexFree(t) == pc[t] \in {"wait", "woken"} /\ ~UserHolds(t)
\* pthread_cond_signal(&p->input_cond)
Signalled(t) == [pc EXCEPT ![t] = IF @ = "wait" THEN "woken" ELSE @]

SafeBuffer == ~codec.buf                \* THREAD_SAFE_CALLBACKS
\* Mutant: the user's get_format is forgotten.
ServedForBuffers == codec.buf
\* The user has callbacks that must run in his thread.
Served == codec.buf \/ codec.fmt

\* pthread_cond_wait on p->progress_cond by w, which looks again when woken
SleepsOn(t, w) == progWait' = [progWait EXCEPT ![t] = @ \union {w}]
Awake(w) == \A t \in Threads : w \notin progWait[t]

\* update_context_from_thread(dst, src, 0)
UpdateContext(dst, src) ==
    IF src # User /\ dst # src /\ codec.update
    THEN [ctx EXCEPT ![dst] = ctx[src]] ELSE ctx

\* What the codec outputs with a context, and the context after it
Outputs(c, drain) ==
    IF Len(c.held) > (IF drain THEN 0 ELSE codec.delay)
    THEN Frame(Head(c.held)) ELSE Nothing
AfterOutput(c, drain) ==
    [c EXCEPT !.held = IF Outputs(c, drain) = Nothing THEN @ ELSE Tail(@)]

-----------------------------------------------------------------------------
(* The worker: frame_worker_thread, with the codec it calls *)

\* Mutant: the locks of the hwaccel are not taken.
FinishUnserialized(t, c, return) ==
    /\ pc'   = [pc EXCEPT ![t] = "fs_state"]
    /\ then' = [then EXCEPT ![t] = return]

\* The call of ff_thread_finish_setup: two locks if there is a hwaccel
Finish(t, c, return) ==
    /\ pc'   = [pc EXCEPT ![t] = IF c.hw THEN "fs_hw" ELSE "fs_state"]
    /\ then' = [then EXCEPT ![t] = return]

FinishHw(t) ==
    /\ pc[t] = "fs_hw"
    /\ IF hwSer[t] THEN UNCHANGED <<hwMutex, hwSer>>
       ELSE hwMutex = User /\ hwMutex' = t /\ hwSer' = [hwSer EXCEPT ![t] = TRUE]
    /\ pc' = [pc EXCEPT ![t] = IF codec.hw = "serial" THEN "fs_async" ELSE "fs_state"]
    /\ UNCHANGED <<codec, fctx, bufferMutex, async, state, die, avpkt, out, ctx,
                   released, asyncSer, waits, then, frames, user, hist>>

FinishAsync(t) ==
    /\ pc[t] = "fs_async"
    /\ asyncSer' = [asyncSer EXCEPT ![t] = TRUE]
    /\ \/ AsyncSleeps(t) /\ UNCHANGED pc
       \/ AsyncLock(t) /\ pc' = [pc EXCEPT ![t] = "fs_state"]
    /\ UNCHANGED <<codec, fctx, bufferMutex, hwMutex, state, die, avpkt, out, ctx,
                   released, hwSer, waits, then, frames, user, hist>>

FinishState(t) ==
    /\ pc[t] = "fs_state"
    /\ state'    = [state EXCEPT ![t] = "setup_finished"]
    /\ progWait' = [progWait EXCEPT ![t] = {}]
    /\ pc'       = [pc EXCEPT ![t] = then[t]]
    /\ UNCHANGED <<codec, fctx, locks, die, avpkt, out, ctx, released, serial,
                   outWait, then, frames, user, hist>>

\* The loop that waits for input; p->mutex is locked, or locked again.  The
\* setup is finished at once for a codec that has none to hand on.
CheckInput(t) ==
    /\ pc[t] = "loop" \/ (pc[t] = "woken" /\ ~UserHolds(t))
    /\ \/ die[t] /\ pc' = [pc EXCEPT ![t] = "dead"] /\ UNCHANGED then
       \/ /\ ~die[t] /\ state[t] = "input_ready"
          /\ pc' = [pc EXCEPT ![t] = "wait"] /\ UNCHANGED then
       \/ /\ ~die[t] /\ state[t] # "input_ready"
          /\ IF ~codec.update /\ SafeBuffer
             THEN Finish(t, ctx[t], "serialize")
             ELSE pc' = [pc EXCEPT ![t] = "serialize"] /\ UNCHANGED then
    /\ UNCHANGED <<codec, fctx, locks, ptctx, frames, user, hist>>

\* hwaccel_mutex, if the context says that there is a hwaccel
Serialize(t) ==
    /\ pc[t] = "serialize"
    /\ IF ctx[t].hw
       THEN hwMutex = User /\ hwMutex' = t /\ hwSer' = [hwSer EXCEPT ![t] = TRUE]
       ELSE UNCHANGED <<hwMutex, hwSer>>
    /\ out' = [out EXCEPT ![t] = Nothing]
    /\ pc'  = [pc EXCEPT ![t] = "parse"]
    /\ UNCHANGED <<codec, fctx, bufferMutex, async, state, die, avpkt, ctx, released,
                   asyncSer, waits, then, frames, user, hist>>

\* The codec finds an error in the packet, or drains at an empty one.
ParseReturns(t) ==
    /\ pc[t] = "parse"
    /\ IF avpkt[t] = 0
       THEN /\ out' = [out EXCEPT ![t] = Outputs(ctx[t], TRUE)]
            /\ ctx' = [ctx EXCEPT ![t] = AfterOutput(@, TRUE)]
       ELSE /\ out' = [out EXCEPT ![t] = Error(avpkt[t])]
            /\ ctx' = [ctx EXCEPT ![t].last = avpkt[t]]
    /\ pc' = [pc EXCEPT ![t] = "unlock"]
    /\ UNCHANGED <<codec, fctx, locks, state, die, avpkt, released, serial, waits,
                   then, frames, user, hist>>

\* The formats the user may choose: is it one of the hwaccel?
Formats == {FALSE, codec.hw # "none"}

\* Or it asks for a format first: ff_thread_get_format
GetFormat(t) ==
    /\ pc[t] = "parse" /\ avpkt[t] # 0 /\ state[t] = "setting_up"
    /\ IF codec.fmt
       THEN /\ state'    = [state EXCEPT ![t] = "get_format"]
            /\ progWait' = [progWait EXCEPT ![t] = {t}]
            /\ pc'       = [pc EXCEPT ![t] = "format"]
            /\ UNCHANGED ctx
       ELSE /\ codec.hw # "none"
            /\ \E hw \in Formats : ctx' = [ctx EXCEPT ![t].hw = hw]
            /\ pc' = [pc EXCEPT ![t] = "buffer"]
            /\ UNCHANGED <<state, progWait>>
    /\ UNCHANGED <<codec, fctx, locks, die, avpkt, out, released, serial, outWait,
                   then, frames, user, hist>>

FormatAnswered(t) ==
    /\ pc[t] = "format" /\ Awake(t)
    /\ IF state[t] = "setting_up"
       THEN /\ \E hw \in Formats : ctx' = [ctx EXCEPT ![t].hw = hw]
            /\ pc' = [pc EXCEPT ![t] = "buffer"]
            /\ UNCHANGED progWait
       ELSE SleepsOn(t, t) /\ UNCHANGED <<ctx, pc>>
    /\ UNCHANGED <<codec, fctx, locks, state, die, avpkt, out, released, serial,
                   outWait, then, frames, user, hist>>

\* The context when the codec has parsed the packet
Setup(t, c) ==
    [c EXCEPT !.last = avpkt[t], !.frame = avpkt[t], !.held = Append(@, avpkt[t])]

\* thread_get_buffer_internal, under buffer_mutex.  With the user's callback
\* it keeps the mutex until the user has answered.
GetBuffer(t) ==
    /\ pc[t] \in {"parse", "buffer"} /\ avpkt[t] # 0
    /\ bufferMutex = User
    /\ owner' = [owner EXCEPT ![avpkt[t]] = t]
    /\ IF SafeBuffer
       THEN /\ pc' = [pc EXCEPT ![t] = "setup"]
            /\ UNCHANGED <<bufferMutex, state, progWait>>
       ELSE /\ bufferMutex' = t
            /\ state'    = [state EXCEPT ![t] = "get_buffer"]
            /\ progWait' = [progWait EXCEPT ![t] = {t}]
            /\ pc'       = [pc EXCEPT ![t] = "answer"]
    /\ UNCHANGED <<codec, fctx, hwMutex, async, die, avpkt, out, ctx, released, serial,
                   outWait, then, progress, user, hist>>

\* The answer: a codec without update_thread_context has finished its setup.
BufferAnswered(t) ==
    /\ pc[t] = "answer" /\ Awake(t)
    /\ IF state[t] # "setting_up"
       THEN SleepsOn(t, t) /\ UNCHANGED worker
       ELSE /\ UNCHANGED progWait
            /\ IF codec.update
               THEN pc' = [pc EXCEPT ![t] = "got"] /\ UNCHANGED then
               ELSE Finish(t, ctx[t], "got")
    /\ UNCHANGED <<codec, fctx, locks, state, die, avpkt, out, ctx, released, serial,
                   outWait, frames, user, hist>>

\* If the user had no buffer, the codec gives the packet up.
GotBuffer(t) ==
    /\ pc[t] = "got"
    /\ bufferMutex' = User
    /\ IF out[t] = Nothing
       THEN pc' = [pc EXCEPT ![t] = "setup"] /\ UNCHANGED <<out, ctx>>
       ELSE /\ out' = [out EXCEPT ![t] = Error(avpkt[t])]
            /\ ctx' = [ctx EXCEPT ![t].last = avpkt[t]]
            /\ pc'  = [pc EXCEPT ![t] = "unlock"]
    /\ UNCHANGED <<codec, fctx, hwMutex, async, state, die, avpkt, released, serial,
                   waits, then, frames, user, hist>>

\* The codec sets its context up for the packet, which refers to the newest
\* frame or is intra only, and decides what it outputs.  It calls
\* ff_thread_finish_setup, which it must if there is a hwaccel, or does not.
SetUp(t) ==
    /\ pc[t] = "setup"
    /\ \E ref \in {0, ctx[t].frame} :
         LET c == [Setup(t, ctx[t]) EXCEPT !.ref = IF codec.update THEN ref ELSE 0]
         IN  /\ out' = [out EXCEPT ![t] = Outputs(c, FALSE)]
             /\ ctx' = [ctx EXCEPT ![t] = AfterOutput(c, FALSE)]
    /\ \/ codec.update /\ Finish(t, ctx[t], "slices")
       \/ ~ctx[t].hw /\ pc' = [pc EXCEPT ![t] = "slices"] /\ UNCHANGED then
    /\ UNCHANGED <<codec, fctx, locks, state, die, avpkt, released, serial, waits,
                   frames, user, hist>>

\* It may drop a frame: ff_thread_release_buffer, which leaves it to the user
\* to release the buffer, if get_buffer2 is the user's.
ReleaseBuffer(t) ==
    /\ pc[t] = "slices" /\ Awake(t) /\ ~SafeBuffer /\ ~released[t]
    /\ bufferMutex = User
    /\ released' = [released EXCEPT ![t] = TRUE]
    /\ UNCHANGED <<codec, fctx, locks, state, die, avpkt, out, ctx, serial, waits,
                   worker, frames, user, hist>>

\* ff_thread_await_progress for the reference, in its owner's progress_cond,
AwaitProgress(t) ==
    /\ pc[t] = "slices" /\ Awake(t)
    /\ ctx[t].ref \notin progress \union {0}
    /\ SleepsOn(owner[ctx[t].ref], t)
    /\ UNCHANGED <<codec, fctx, locks, state, die, avpkt, out, ctx, released, serial,
                   outWait, worker, frames, user, hist>>

\* then ff_thread_report_progress to the end of the frame
ReportProgress(t) ==
    /\ pc[t] = "slices" /\ Awake(t)
    /\ ctx[t].ref \in progress \union {0}
    /\ progress' = progress \union {avpkt[t]}
    /\ progWait' = [progWait EXCEPT ![owner[avpkt[t]]] = {}]
    /\ pc' = [pc EXCEPT ![t] = "unlock"]
    /\ UNCHANGED <<codec, fctx, locks, state, die, avpkt, out, ctx, released, serial,
                   outWait, then, owner, user, hist>>

\* The codec has returned: the setup is finished if it has not done so,
FinishForCodec(t) ==
    /\ pc[t] = "unlock" /\ state[t] = "setting_up"
    /\ Finish(t, ctx[t], "unlock")
    /\ UNCHANGED <<codec, fctx, locks, ptctx, frames, user, hist>>

\* the locks of the hwaccel are released,
Unlock(t) ==
    /\ pc[t] = "unlock" /\ state[t] # "setting_up"
    /\ hwMutex'  = IF hwSer[t] THEN User ELSE hwMutex
    /\ hwSer'    = [hwSer EXCEPT ![t] = FALSE]
    /\ asyncSer' = [asyncSer EXCEPT ![t] = FALSE]
    /\ IF asyncSer[t] THEN AsyncUnlock ELSE UNCHANGED async
    /\ pc' = [pc EXCEPT ![t] = "ready"]
    /\ UNCHANGED <<codec, fctx, bufferMutex, state, die, avpkt, out, ctx, released,
                   waits, then, frames, user, hist>>

\* Mutant: nobody is told.
OutputUnsignalled(t) == outWait
\* pthread_cond_signal(&p->output_cond)
OutputSignalled(t) == [outWait EXCEPT ![t] = FALSE]

\* and the output is there.
Ready(t) ==
    /\ pc[t] = "ready"
    /\ state'    = [state EXCEPT ![t] = "input_ready"]
    /\ progWait' = [progWait EXCEPT ![t] = {}]
    /\ outWait'  = OutputSignalled(t)
    /\ pc'       = [pc EXCEPT ![t] = "loop"]
    /\ UNCHANGED <<codec, fctx, locks, die, avpkt, out, ctx, released, serial, then,
                   frames, user, hist>>

Worker(t) ==
    \/ CheckInput(t) \/ Serialize(t)
    \/ ParseReturns(t) \/ GetFormat(t) \/ FormatAnswered(t)
    \/ GetBuffer(t) \/ BufferAnswered(t) \/ GotBuffer(t) \/ SetUp(t)
    \/ ReleaseBuffer(t) \/ AwaitProgress(t) \/ ReportProgress(t)
    \/ FinishHw(t) \/ FinishAsync(t) \/ FinishState(t)
    \/ FinishForCodec(t) \/ Unlock(t) \/ Ready(t)

-----------------------------------------------------------------------------
(* The user's thread: ff_thread_decode_frame.  decode.c calls it with the   *)
(* packets, then with empty ones until it says that nothing is left, and    *)
(* after that only flushes or closes the decoder.                           *)

\* Mutant: FFV1 is no exception.
DelaysAlike(nd) == delaying /\ nd <= NThreads - 1
\* A packet has been submitted, or need not be: is there output to wait for?
Delays(nd) == delaying /\ nd <= NThreads - 1 - (IF codec.ffv1 THEN 1 ELSE 0)
Submitted(nd, n) ==
    /\ nextDecoding' = nd
    /\ delaying' = Delays(nd)
    /\ upc' = IF Delays(nd) /\ n # 0 THEN "finish" ELSE "output"

Decode(n) ==
    /\ upc = "idle" /\ draining # "done"
    /\ n # 0 => draining = "no"
    /\ AsyncUnlock
    /\ upkt' = n /\ fin' = nextFinished /\ ret' = Nothing
    /\ draining' = IF n = 0 THEN "yes" ELSE draining
    /\ IF n = 0 /\ codec.delay = 0
       THEN Submitted(nextDecoding, n)
       ELSE upc' = "lock" /\ UNCHANGED <<nextDecoding, delaying>>
    /\ UNCHANGED <<codec, prev, nextFinished, bufferMutex, hwMutex, ptctx, worker,
                   frames, hist>>

\* submit_packet: an error on the way gives the packet back
Fails ==
    /\ ret' = Error(0) /\ upc' = "finish"

Lock ==
    /\ upc = "lock" /\ MutexFree(nextDecoding)
    /\ upc' = "release"
    /\ UNCHANGED <<codec, fctx, locks, ptctx, worker, frames, upkt, fin, ret, draining,
                   hist>>

\* release_delayed_buffers, if the context can be updated from the user's
ReleaseDelayedBuffers ==
    /\ upc = "release"
    /\ \/ Fails /\ UNCHANGED released
       \/ /\ released[nextDecoding] => bufferMutex = User
          /\ released' = [released EXCEPT ![nextDecoding] = FALSE]
          /\ upc' = "prev" /\ UNCHANGED ret
    /\ UNCHANGED <<codec, fctx, locks, state, die, avpkt, out, ctx, serial, waits,
                   worker, frames, upkt, fin, draining, hist>>

\* Mutant: the thread before is not waited for.
PrevIgnored == FALSE
PrevSetsUp == prev # User /\ state[prev] = "setting_up"
AwaitPrev ==
    /\ upc = "prev" /\ PrevSetsUp /\ Awake(User)
    /\ SleepsOn(prev, User)
    /\ UNCHANGED <<codec, fctx, locks, state, die, avpkt, out, ctx, released, serial,
                   outWait, worker, frames, user, hist>>

\* The context is updated and the packet is handed to the worker, or not.
Submit ==
    /\ upc = "prev" /\ ~PrevSetsUp /\ Awake(User)
    /\ ctx' = UpdateContext(nextDecoding, prev)
    /\ \/ /\ Fails
          /\ UNCHANGED <<fctx, avpkt, state, pc, sent>>
       \/ /\ avpkt' = [avpkt EXCEPT ![nextDecoding] = upkt]
          /\ state' = [state EXCEPT ![nextDecoding] = "setting_up"]
          /\ pc'    = Signalled(nextDecoding)
          /\ sent'  = IF upkt = 0 THEN sent ELSE upkt
          /\ IF Served
             THEN upc' = "serve" /\ UNCHANGED <<prev, nextDecoding, delaying>>
             ELSE prev' = nextDecoding /\ Submitted(nextDecoding + 1, upkt)
          /\ UNCHANGED <<nextFinished, ret>>
    /\ UNCHANGED <<codec, locks, die, out, released, serial, waits, then, frames,
                   upkt, fin, draining, base, delivered>>

\* The user's callbacks are called here, until the worker needs no more.
Serve ==
    /\ upc = "serve" /\ Awake(User)
    /\ LET p == nextDecoding IN
       \/ /\ state[p] = "setting_up"
          /\ SleepsOn(p, User)
          /\ UNCHANGED <<state, out, prev, nextDecoding, delaying, upc>>
       \/ /\ state[p] \in {"get_buffer", "get_format"}
          /\ out' \in IF state[p] = "get_buffer"
                      THEN {[out EXCEPT ![p] = r] : r \in {Nothing, Error(0)}}
                      ELSE {out}
          /\ state' = [state EXCEPT ![p] = "setting_up"]
          \* pthread_cond_signal wakes one of them
          /\ IF progWait[p] = {} THEN UNCHANGED progWait
             ELSE \E w \in progWait[p] : progWait' = [progWait EXCEPT ![p] = @ \ {w}]
          /\ UNCHANGED <<prev, nextDecoding, delaying, upc>>
       \/ /\ state[p] \in {"setup_finished", "input_ready"}
          /\ prev' = p /\ Submitted(p + 1, upkt)
          /\ UNCHANGED <<state, out, progWait>>
    /\ UNCHANGED <<codec, nextFinished, locks, die, avpkt, ctx, released, serial, outWait,
                   worker, frames, upkt, fin, ret, draining, hist>>

\* Mutant: the setup of the thread is enough.
SetUpIsEnough(i) == state[i] \in {"input_ready", "setup_finished"}
HasOutput(i) == state[i] = "input_ready"

\* Wait on output_cond of thread fin
AwaitOutput ==
    /\ upc = "output" \/ (upc \in {"flush", "close"} /\ fin < NThreads)
    /\ ~HasOutput(fin) /\ ~outWait[fin]
    /\ outWait' = [outWait EXCEPT ![fin] = TRUE]
    /\ UNCHANGED <<codec, fctx, locks, state, die, avpkt, out, ctx, released, serial,
                   progWait, worker, frames, user, hist>>

\* Mutants: a thread that has no output ends the search; the output of a
\* thread stays there; the last thread is not followed by the first.
SearchingOnce(o, f) == FALSE
NotReset(i) == out
NotWrapped(n) == n
\* The output of the oldest thread; when draining, of the first to have some.
Wrapped(n) == n % NThreads
Reset(i) == [out EXCEPT ![i] = Nothing]
Searching(o, f) == upkt = 0 /\ o = Nothing /\ f # nextFinished
TakeOutput ==
    /\ upc = "output" /\ HasOutput(fin) /\ ~outWait[fin]
    /\ LET f == (fin + 1) % NThreads IN
       /\ ret' = out[fin] /\ fin' = f
       /\ IF Searching(out[fin], f)
          THEN UNCHANGED <<nextDecoding, nextFinished, upc>>
          ELSE /\ nextDecoding' = Wrapped(nextDecoding)
               /\ nextFinished' = f
               /\ upc' = "finish"
    /\ out' = Reset(fin)
    /\ UNCHANGED <<codec, prev, delaying, locks, state, die, avpkt, ctx, released, serial,
                   waits, worker, frames, upkt, draining, hist>>

\* async_lock, and return
Return ==
    /\ upc = "finish" /\ User \notin asyncWait
    /\ \/ AsyncSleeps(User) /\ UNCHANGED <<upc, upkt, fin, ret, draining, delivered>>
       \/ /\ AsyncLock(User)
          /\ delivered' = IF ret.pkt = 0 THEN delivered ELSE Append(delivered, ret)
          /\ draining'  = IF draining = "yes" /\ ret = Nothing THEN "done" ELSE draining
          /\ upc' = "idle" /\ upkt' = 0 /\ fin' = 0 /\ ret' = Nothing
    /\ UNCHANGED <<codec, fctx, bufferMutex, hwMutex, ptctx, worker, frames, sent, base>>

-----------------------------------------------------------------------------
(* ff_thread_flush and ff_frame_thread_free; each parks the workers first   *)

\* call is "flush" or "close"
Park(call) ==
    /\ upc = "idle"
    /\ AsyncUnlock
    /\ upc' = call
    /\ UNCHANGED <<codec, fctx, bufferMutex, hwMutex, ptctx, worker, frames, upkt, fin,
                   ret, draining, hist>>

ParkThread ==
    /\ upc \in {"flush", "close"} /\ fin < NThreads
    /\ HasOutput(fin) /\ ~outWait[fin]
    /\ out' = [out EXCEPT ![fin] = IF @.kind = "frame" THEN Nothing ELSE @]
    /\ fin' = fin + 1
    /\ UNCHANGED <<codec, fctx, locks, state, die, avpkt, ctx, released, serial, waits,
                   worker, frames, upc, upkt, ret, draining, hist>>

\* Everything starts again with thread 0, which knows what the last one knew.
Parked(call) == upc = call /\ fin = NThreads /\ User \notin asyncWait
Flushed(c) == [NewContext EXCEPT !.last = c.last, !.hw = c.hw]
Flush ==
    /\ Parked("flush")
    /\ \/ AsyncSleeps(User) /\ UNCHANGED <<fctx, out, ctx, released, upc, fin, draining,
                                           base, delivered>>
       \/ /\ AsyncLock(User)
          /\ LET c == UpdateContext(0, prev)
             IN  ctx' = [t \in Threads |-> Flushed(c[t])]
          /\ prev' = User /\ nextDecoding' = 0 /\ nextFinished' = 0 /\ delaying' = TRUE
          /\ out' = [t \in Threads |-> Nothing]
          /\ released' = [t \in Threads |-> FALSE]
          /\ upc' = "idle" /\ fin' = 0 /\ draining' = "no"
          /\ base' = sent /\ delivered' = <<>>
    /\ UNCHANGED <<codec, bufferMutex, hwMutex, state, die, avpkt, serial, waits, worker,
                   frames, upkt, ret, sent>>

Close ==
    /\ Parked("close")
    /\ \/ AsyncSleeps(User) /\ UNCHANGED <<ctx, upc, fin>>
       \/ /\ AsyncLock(User)
          /\ ctx' = UpdateContext(0, prev)
          /\ upc' = "kill" /\ fin' = 0
    /\ UNCHANGED <<codec, fctx, bufferMutex, hwMutex, state, die, avpkt, out, released,
                   serial, waits, worker, frames, upkt, ret, draining, hist>>

Kill ==
    /\ upc = "kill" /\ MutexFree(fin)
    /\ die' = [die EXCEPT ![fin] = TRUE]
    /\ pc'  = Signalled(fin)
    /\ upc' = "join"
    /\ UNCHANGED <<codec, fctx, locks, state, avpkt, out, ctx, released, serial, waits,
                   then, frames, upkt, fin, ret, draining, hist>>

Join ==
    /\ upc = "join" /\ pc[fin] = "dead"
    /\ released' = [released EXCEPT ![fin] = FALSE]
    /\ upc' = IF fin + 1 = NThreads THEN "closed" ELSE "kill"
    /\ fin' = (fin + 1) % NThreads
    /\ UNCHANGED <<codec, fctx, locks, state, die, avpkt, out, ctx, serial, waits, worker,
                   frames, upkt, ret, draining, hist>>

\* What the user does when he likes, and what goes on within his calls
Calls ==
    \/ sent < MaxPackets /\ Decode(sent + 1)
    \/ Decode(0)
    \/ Park("flush") \/ Park("close")
InCall ==
    \/ Lock \/ ReleaseDelayedBuffers \/ AwaitPrev \/ Submit \/ Serve
    \/ AwaitOutput \/ TakeOutput \/ Return
    \/ ParkThread \/ Flush \/ Close \/ Kill \/ Join

\* POSIX lets pthread_cond_wait return without a signal.
SpuriousWakeup ==
    /\ \/ /\ \E w \in asyncWait : asyncWait' = asyncWait \ {w}
          /\ UNCHANGED <<progWait, outWait, pc>>
       \/ /\ \E t \in Threads : \E w \in progWait[t] :
                progWait' = [progWait EXCEPT ![t] = @ \ {w}]
          /\ UNCHANGED <<asyncWait, outWait, pc>>
       \/ /\ \E t \in Threads : outWait[t] /\ outWait' = [outWait EXCEPT ![t] = FALSE]
          /\ UNCHANGED <<asyncWait, progWait, pc>>
       \/ /\ \E t \in Threads : pc[t] = "wait" /\ pc' = Signalled(t)
          /\ UNCHANGED <<asyncWait, progWait, outWait>>
    /\ UNCHANGED <<codec, fctx, bufferMutex, hwMutex, asyncLock, state, die, avpkt, out,
                   ctx, released, serial, then, frames, user, hist>>

\* The decoder is closed: nothing more happens.
Closed == upc = "closed" /\ UNCHANGED vars

Next == Calls \/ InCall \/ (\E t \in Threads : Worker(t)) \/ SpuriousWakeup \/ Closed

\* Every thread that can run does, and a call that the user has made goes on.
Fairness == WF_vars(InCall) /\ \A t \in Threads : WF_vars(Worker(t))
Spec == Init /\ [][Next]_vars /\ Fairness

-----------------------------------------------------------------------------
(* Properties *)

States == {"input_ready", "setting_up", "get_buffer", "get_format", "setup_finished"}
WorkerPcs == {"woken", "loop", "wait", "serialize", "parse", "format", "buffer",
              "answer", "got", "setup", "slices", "fs_hw", "fs_async", "fs_state",
              "unlock", "ready", "dead"}
Calling == {"lock", "release", "prev", "serve", "output", "finish"}
Results == {Nothing, Error(0)} \union {Frame(n) : n \in Packets} \union {Error(n) : n \in Packets}

\* The fields have their types; a thread of the array is indexed, where
\* submit_packet and the output loop index it.
TypeOK ==
    /\ codec \in Codecs
    /\ prev \in Threads \union {User}
    /\ nextDecoding \in 0 .. NThreads /\ nextFinished \in Threads
    /\ upc \in {"idle", "lock", "release", "prev", "serve"} => nextDecoding \in Threads
    /\ upc \in {"output", "kill", "join"} => fin \in Threads
    /\ delaying \in BOOLEAN /\ asyncLock \in BOOLEAN
    /\ {bufferMutex, hwMutex} \subseteq Threads \union {User}
    /\ asyncWait \subseteq Threads \union {User}
    /\ state \in [Threads -> States] /\ die \in [Threads -> BOOLEAN]
    /\ avpkt \in [Threads -> 0 .. MaxPackets] /\ out \in [Threads -> Results]
    /\ released \in [Threads -> BOOLEAN] /\ outWait \in [Threads -> BOOLEAN]
    /\ hwSer \in [Threads -> BOOLEAN] /\ asyncSer \in [Threads -> BOOLEAN]
    /\ progWait \in [Threads -> SUBSET (Threads \union {User})]
    /\ pc \in [Threads -> WorkerPcs]
    /\ then \in [Threads -> {"serialize", "parse", "got", "slices", "unlock"}]
    /\ upc \in Calling \union {"idle", "flush", "close", "kill", "join", "closed"}
    /\ upkt \in 0 .. MaxPackets /\ fin \in 0 .. NThreads
    /\ ret \in Results /\ draining \in {"no", "yes", "done"}
    /\ sent \in 0 .. MaxPackets /\ base \in 0 .. sent

Indices(kind) == {i \in DOMAIN delivered : delivered[i].kind = kind}
Given == {delivered[i].pkt : i \in DOMAIN delivered}

\* Though the threads decode at once, the user is given frames in the order of
\* the packets, and so the errors; no packet twice, and after a flush none of
\* those before it, however often he drains and however far the scan of
\* ff_thread_decode_frame for output runs around the threads.
InOrder ==
    /\ \A kind \in {"frame", "error"} : \A i, j \in Indices(kind) :
          i < j => delivered[i].pkt < delivered[j].pkt
    /\ Cardinality(Given) = Len(delivered)
    /\ \A n \in Given : base < n /\ n <= sent

\* When the user is told that nothing is left, which ends the stream for him,
\* he has had a frame or an error for every packet: "we don't want to
\* accidentally signal EOF" while a thread has output.
EofComplete == draining = "done" => Given = base + 1 .. sent

\* No more packets are without a result, when a call returns, than
\* avctx->delay = thread_count - 1 and the codec's own delay promise; with
\* FFV1 it is one fewer.
BoundedDelay ==
    upc = "idle" =>
        sent - base - Len(delivered) <=
            NThreads - 1 + codec.delay - (IF codec.ffv1 THEN 1 ELSE 0)

\* A codec with update_thread_context decodes each packet with a context that
\* knows of the packet before it, be it sent to another thread, rejected the
\* first time, an error, or before a flush.
ContextIsCurrent ==
    \A t \in Threads :
        codec.update /\ pc[t] = "parse" =>
            ctx[t].last = IF avpkt[t] = 0 THEN sent ELSE avpkt[t] - 1

\* Workers that decode with the hwaccel of their context
InHwaccel == {t \in Threads : pc[t] = "slices" /\ ctx[t].hw}

\* The threads of a hwaccel run one at a time, also when a thread finds out
\* only in its setup that there is one; and one that is not safe to run
\* asynchronously never runs while the user is out of the decoder.
HwaccelIsSerial ==
    /\ Cardinality(InHwaccel) <= 1
    /\ codec.hw = "serial" /\ upc \in {"idle", "closed"} => InHwaccel = {}

\* The user's callbacks are not called by two threads at once, and none calls
\* back when the user is not there to answer: a worker asks only while the
\* user serves it.
CallbacksAreServed ==
    \A t \in Threads : state[t] \in {"get_buffer", "get_format"} =>
        upc = "serve" /\ nextDecoding = t

\* A frame that has been output is complete: no thread still decodes into the
\* picture that the user was given.
FramesAreComplete ==
    codec.update => \A i \in Indices("frame") : delivered[i].pkt \in progress

\* Every call of the user returns, whatever the threads wait for: input, the
\* setup of another thread, an answer, a buffer, the progress of a reference
\* frame or a lock of a hwaccel.
EveryCallReturns == (upc # "idle") ~> (upc \in {"idle", "closed"})
=============================================================================
