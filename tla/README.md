# FFmpeg-iOS-build-script in TLA+

The repository builds FFmpeg for iOS: shell scripts that compile FFmpeg 4.2 and
the libraries it is linked with, beside the sources they compile. This directory
specifies what in it is concurrent, stateful or fails in parts: the build
pipeline itself, and the threads that the FFmpeg it ships runs on. `FF` below is
`src/4.2/ffmpeg-4.2`.

## 1. The system

### Parts, their state, how they interact

| Part | State | Operations | Used by |
|---|---|---|---|
| thread message queue, `FF/libavutil/threadmessage.c` | a fifo of bounded size, an error for each side, a mutex, two condition variables | alloc, send, recv (blocking or not), set_err_send, set_err_recv, flush, free | fifo muxer, `ffmpeg`'s input threads |
| slice threads, `FF/libavutil/slicethread.c` | workers with a flag each, atomic counters of jobs and threads, a done flag | create, execute, free | libavcodec's and libavfilter's slice threading |
| frame threads, `FF/libavcodec/pthread_frame.c` | per thread a state, a packet, an output and a copy of the context; the locks of buffers, hwaccel and asynchrony; the progress of frames | decode_frame, flush, free; for codecs finish_setup, get_format, get_buffer, release_buffer, await/report_progress | `FF/libavcodec/decode.c`, the codecs |
| fifo muxer, `FF/libavformat/fifo.c` | the queue, an overflow flag, the writer's recovery state | write_header, write_packet, write_trailer, deinit; the writer's loop | a muxer like others, above an underlying one |
| build scripts, `src/4.2/*.sh` | everything in the file system: trees, build directories, installed libraries | the driver `build-ffmpeg-iOS.sh`, a script for each library, the patch | the user; each run starts from what the last one left |
| other scripts of 4.2 (curl, speex, runPatch), scripts of 3.4.2 | files | as above | the user directly |
| `AVBufferRef`, `AVBufferPool`, `FF/libavutil/buffer.c` | atomic reference counts of buffers and of the pool, flags, a list of free data | create, ref, unref, make_writable, realloc, pool get, uninit | everything |
| `AVFifoBuffer`, `FF/libavutil/fifo.c` | two 32-bit indices that wrap, two pointers | write, read, peek, drain, grow | the message queue, the `async:` protocol, the encoder's threads |
| `async:` protocol, `FF/libavformat/async.c` | a ring with what is read ahead and what may be read back, a request to seek, the end or error met | open, read, seek, close; the thread's loop | `avio` and the demuxers |
| frame threads of encoders, `FF/libavcodec/frame_thread_encoder.c` | a queue of tasks, a ring of results and two indices into it | init, encode a frame, free; the workers' loop | `FF/libavcodec/encode.c` |
| send/receive API of encoders, `FF/libavcodec/encode.c` | a packet that is kept, a draining flag | send_frame, receive_packet | programs |
| slice progress of libavcodec | counters of rows | | codecs |
| the decoder's API, bitstream filters, interleaving in the muxer, `udp:` reader, filter activation, `ffmpeg`'s loop | queues and end-of-stream flags | | programs |
| codecs, containers, filters, scalers, devices | data | | |
| configure, make, vendored and prebuilt libraries | | | the scripts |

The layers meet in calls and shared memory only. The fifo muxer is a client of
the message queue, and its model instantiates the queue's. The frame threads are
called by `decode.c` on one side and call the codec on the other, the codec
calls them back, and a callback may have to be answered in the user's thread.

### What is hard

- Condition variables signalled once for each message, with waiters that may not
  be able to use the signal (`threadmessage.c:133, 150`).
- Who is last, decided by an atomic counter, and what is left of one round when
  the next begins (`slicethread.c:57-64, 169, 190`).
- Contexts copied from thread to thread, a state read without its lock, output
  in order from threads that run at once, the end of the stream told by an empty
  result, locks taken in a setup and released after it (`pthread_frame.c:406,
  541, 606-617`), callbacks that one thread asks another to make while it holds
  a lock (`910-933`).
- Failures halfway: a message dispatched again after a part of it was done, an
  error code with two meanings, a flag set after the lock under which its cause
  was seen was released (`fifo.c:185, 378, 559-568`).
- Counters that decide who frees, and tests of them whose answer is used later
  (`buffer.c:119, 138, 301`).
- A ring that one thread writes without the lock under which the other moves it,
  and an end or error that belongs to before a seek (`async.c:199, 224, 406`).
- Results that come in any order and are bounded only by calls that wait
  (`frame_thread_encoder.c:310`).
- Runs of scripts that fail or are interrupted and leave files to the next, and
  exit statuses that nobody looks at (`build-ffmpeg-iOS.sh:64`).

`PROJECT.json` lists each of these as a hazard at its line, with the properties
that would find it going wrong.

### What makes each part correct

- Message queue: no thread sleeps while there is what it waits for, or past an
  error; messages are received in order and once, those before an error before
  the error.
- Slice threads: each job of a call runs exactly once, with a thread number
  nobody else has; the call returns when all have ended, and nothing of it is
  left for the next.
- Frame threads: the output of one thread in effect: in order, nothing twice,
  nothing lost at the end, with a bounded delay; a context that knows of all
  packets before; a hwaccel that is never used by two threads; no frame given
  out that is still being decoded; and calls that return.
- Fifo muxer: packets in order, none twice; none lost without
  `drop_pkts_on_overflow`; references returned; attempts bounded; keyframes
  where they are asked for; nobody blocked when the output fails.
- Buffers: freed once, after the last reference; a reference is as good as a
  copy; the pool is there as long as anything can return to it.
- `async:`: what is read is the stream, whatever the thread is doing and wherever
  the user has sought; an end that is one; nobody sleeps for ever.
- Encoder threads: results in the order of the frames, once each, all of them
  before the end is told; bounded delay; calls, and closing, that return.
- Build scripts: a success means that what was asked for was built, by this run.

## 2. Modules

| Module | Models | Kind |
|---|---|---|
| `MessageChannel` | what `threadmessage.h` promises: a bounded channel with errors | abstract |
| `ThreadMessage` | `threadmessage.c` | detailed, implements `MessageChannel` |
| `ThreadMessageProofs` | | theorems |
| `ParallelFor` | what `slicethread.h` promises: each job once, then return | abstract |
| `SliceThread` | `slicethread.c` | detailed, implements `ParallelFor` |
| `SliceThreadProofs` | | theorems |
| `FrameThread` | `pthread_frame.c`, with the codec and the user | detailed |
| `FrameThreadProofs` | | theorems |
| `FifoMuxer` | `fifo.c` of libavformat, INSTANCE of `ThreadMessage` | detailed, composed |
| `FifoMuxerProofs` | INSTANCE of `ThreadMessageProofs` | theorems |
| `BuildScripts` | the scripts of 4.2 that the driver runs | detailed |
| `BuildScriptsProofs` | | theorems |
| `CopiedData` | what `buffer.h` promises: references are as good as copies | abstract |
| `BufferPool` | `buffer.c` | detailed, implements `CopiedData` |
| `BufferPoolProofs` | | theorems |
| `FifoBuffer` | the indices of `fifo.c` of libavutil | operators |
| `AsyncReader` | `async.c`, EXTENDS `FifoBuffer` | detailed |
| `AsyncReaderProofs` | | theorems |
| `FrameEncoder` | `frame_thread_encoder.c`, with the calls of `encode.c` above it | detailed |
| `FrameEncoderProofs` | | theorems |
| `MC...` | the constants of the runs | |

Definitions that stand for code are in `PROJECT.json` under "map", each with the
lines it translates. A definition preceded by a comment "Mutant:" is not part of
the model: it is what the code would be with a plausible mistake, and shows that
a property can fail.

### ThreadMessage

A thread is idle or in a call: asleep (`"sendwait"`, `"recvwait"`), or woken and
about to take the mutex again (`"sendwoken"`, `"recvwoken"`). Everything from
the lock to the unlock or to `pthread_cond_wait` is one action. A signal wakes
one sleeper, any; a broadcast all; `SpuriousWakeup` wakes one without a signal.
`SendTries` and `RecvTries` are the bodies of the two `_locked` functions and
are used for the first try and after each waking. `MessageChannel` has a call
begin, complete at once or wait, and progress: a call that can be completed
stays so for ever only if others use up what it waits for.

### SliceThread

`Main` is the caller. Its program counter follows `create`, `execute`, `free`; a
worker's follows `thread_worker` and `run_jobs`. The steps are the accesses to
shared state: the two `atomic_fetch_add`, the critical sections under each
worker's mutex and under `done_mutex`, and the call of `worker_func`, which is
external and takes any time. The fields that `run_jobs` copies at its start are
read through to `nbJobs` and `nbActive`; that this is the same is what
`CopiesAreFresh` proves.

### FrameThread

`pc[t]` is where worker `t` is in `frame_worker_thread`, the codec or
`ff_thread_finish_setup`; `upc` where the user is in `ff_thread_decode_frame`,
`ff_thread_flush` or `ff_frame_thread_free`. Each section under
`progress_mutex`, `async_mutex` or `buffer_mutex` is one step, or two where a
lock is kept (`buffer_mutex` over the callback, `hwaccel_mutex` and `async_lock`
over the decoding, `p->mutex` over the work of a thread, and from `Lock` to
`Submit` by the user).

The codec is external and does what the API of `pthread_frame.c` allows:
`ParseReturns` (an error, or a drain), `GetFormat`, `GetBuffer`, `SetUp` (with
or without `ff_thread_finish_setup`), `AwaitProgress`, `ReportProgress`. Its
context is abstracted to what the properties tell apart: the newest packet it
knows of, its reference frame, the frames it holds back and whether it has a
hwaccel. A record of `Codecs` says what a codec and the user's callbacks make of
frame threads.

### FifoMuxer

The encoder's thread (`epc`) and the writer's (`wpc`) share the queue, an
instance of `ThreadMessage` with two threads, and `overflow`. The writer's steps
are those between two accesses of shared state: dispatch a message; attempt a
recovery, give up, or be too early; look at the overflow flag and flush;
receive; stop; write the trailer. The underlying muxer fails up to `MaxFaults`
times, in each way that `Failures` lists. Real time is whether the wait has
passed (`waited`, `Tick`); stream time is the number of a packet.

### BuildScripts

An architecture of a library is represented by the number of the run that
compiled it, in the installed library (`lib`) and in the build directory
(`thin`). One program counter runs through the script that is being executed;
the driver is the order in which `Leave` and `Lipo` start the next one, whatever
the last has returned. Tools that are external fail on inputs on which they
cannot work and, with `Faults`, on any; `Interrupt` is Ctrl-C between any two
steps. lipo is modelled by what it does: it refuses two inputs of the same
architecture; and `*.a` without a match by what the shell makes of it.

### BufferPool

`ref` and `buf` are what malloc has returned as an `AVBufferRef` or an
`AVBuffer`; freed is `None`, and what is freed may be returned again. The steps
are the accesses to what threads share. So `av_buffer_unref` ends with the
decrement if others have references, and goes on to `"free"` if not;
`av_buffer_make_writable` is a test (`MakeWritable`), and then, at any later
time, either a copy and its replacement or the caller's `Write`, which is
external. `av_buffer_pool_get` is its part under the mutex and then the increment
of the pool's counter. What a thread may do is what `buffer.h` asks of it:
references are used by who has them, and handed to another thread by a new one
(`Ref`); the pool's owner does not give it up during a call of
`av_buffer_pool_get`. `View` is what each reference shows; by `ImplementsCopies`
it is that of `CopiedData`, where references are copies.

### FifoBuffer and AsyncReader

`FifoBuffer` has what `fifo.c` does to its indices; `IndexRange` is 2^32.
`AsyncReader` uses it for the ring. A byte of the inner protocol's stream is
represented by its position, so that to read the stream is to read numbers that
follow each other. `bg.at` is where the thread is in `async_buffer_task`, with
copies of the indices that `av_fifo_generic_write` publishes at its end
(`Publish`): the bytes themselves come in one at a time, between them, without
the mutex. `user.at` is where the user is in a call. Each waits on a condition
variable of his own, so that a signal wakes him or is lost.

The inner protocol is external: it returns any number of bytes of those asked
for, its end, an error up to `MaxFaults` times, or that it was interrupted; its
seek may fail. The callback of the user that asks to interrupt may say so at any
time it is asked, and `abort_request` remembers it.

Two things the code does may surprise and are in the model: a seek forward over
a short distance returns a position although the end, an error or an interrupt
kept it from arriving there (`SeekArrives` lists when), and an interrupt once
given is never taken back.

### FrameEncoder

`upc` is where the user is in `ff_thread_video_encode_frame`; `wpc[w]` where a
worker is. The user's calls are those of `encode.c` for an encoder with frame
threads: `SendFrame`, `SendEof`, `ReceivePacket`, and `Free` in between or
instead of the rest of init. `Collect` is the second half of
`ff_thread_video_encode_frame`, under `finished_task_mutex`, and what `do_encode`
and its caller make of its result. The codec is external and makes a packet, an
error or nothing of a frame. `outcome` has the results in the order in which they
were returned; an error is returned by a later call than the one that sent the
frame.

## 3. Runs

All passing runs check deadlock, except `build_scripts`, whose system is at rest
between two runs of the driver and after the last.

| Run | Shows | Bounds |
|---|---|---|
| `thread_message` | `TypeOK`, `NoLostWakeup`; refines `MessageChannel` with its progress | 3 threads, each in both roles; capacity 2; 2 messages, 1 error |
| `slice_thread` | `TypeOK`, `DistinctNumbers`, `Quiet`, `EveryCallReturns`; refines `ParallelFor` | up to 3 threads, up to 4 jobs, any number of rounds and pools |
| `frame_order` | `TypeOK`, `InOrder`, `EofComplete`, `BoundedDelay`, `ContextIsCurrent`, `FramesAreComplete` | 3 codec threads, 3 packets, any number of drains and flushes |
| `frame_locks` | `HwaccelIsSerial`, `CallbacksAreServed`, `EveryCallReturns` | 2 threads, 3 packets, five kinds of codec |
| `build_scripts` | `TypeOK`, `SuccessIsComplete`, `X264IsRebuilt` | 3 runs of 5 command lines, with faults and interrupts |
| `fifo_muxer` | `TypeOK`, `InOrder`, `NoneIsLost`, `ReferencesAreFreed`, `RestartsWithKeyframe`, `EveryCallReturns` | capacity 1, 4 packets, 2 failures, six sets of options |
| `buffer_pool` | `TypeOK`, `NoUseAfterFree`, `NothingLeaks`; refines `CopiedData` | 2 threads, 3 references, 3 buffers, 3 places for data, 2 values; all four sets symmetric, which safety allows |
| `async_reader` | `TypeOK`, `ReadsStream`, `EofIsReal`, `SeekArrives`, `Prefetches`, `EveryCallReturns` | ring of 3, 1 of them read back, indices modulo 8, stream of 4 bytes, 1 failure, any number of reads, seeks and reopenings |
| `frame_encoder` | `TypeOK`, `ReturnedInOrder`, `EofIsEnd`, `EveryCallReturns` | 2 workers, ring of 4, 6 frames |

Why these bounds are enough to meet the interesting cases:

- Three threads and capacity 2 give the queue two sleepers on a side and a third
  thread that takes what one of them was woken for, and a free slot beside a
  used one.
- Three threads are the caller and two workers that race each other to be last;
  with four jobs a thread takes a second job, and with one or two jobs some
  workers sit a round out.
- With three codec threads the output runs around the array past threads in each
  state, and three packets fill the delay; `next_decoding` wraps with the drain
  packets and errors. Two threads are what a lock can tell apart; each of them
  has the other as its `prev_thread`.
- In a queue of one message, "full" and "empty" are one step apart, so that
  every overflow and every race with the writer occurs; with keyframes 1 and 3
  of four packets there is a packet to be dropped before a keyframe and one
  after it. Two failures are that of a packet and that of an attempt to recover.
- Three references and three buffers are two that share data and a copy, or two
  shared and one of the pool; data that is freed is found again by the next who
  allocates, as there is no more than three of it.
- A ring of three wraps within the stream, and so do the indices within a few
  reads, at another place than the memory; a stream of four bytes is more than
  the ring holds, so that the thread waits for space, and less than two rings, so
  that it meets the end. Short seeks are up to two bytes beyond what is in the
  ring: seeks of every kind, also beyond the end, are possible from most states.
- Six frames use each slot of a ring of four, and the first two again; with two
  workers either may be overtaken, and a third frame has to wait. The ring has
  twice as many slots as there can be workers, as in the code.
- Three runs of the driver are one that fails or is interrupted, one that starts
  from what it left, and one that starts from the result of that.

### Disagreements with documents and comments

Three runs each show one statement of the repository violated by what the code
does; `PROJECT.json` quotes each under "findings".

| Run | The statement | What happens |
|---|---|---|
| `build_third_party` | the fourth argument rebuilds the third-party libraries | with no argument, opencore-amr and lame get "all" for an architecture and openssl's lipo fails; the driver reports success with the old ones |
| `fifo_resume` | `restart_with_keyframe` waits for a keyframe after an overflow | the flag is set after the writer has looked; the next packet is written |
| `fifo_rescaled` | timestamps are in the time base of the stream | each attempt rescales the packet again |

Each is a run of its own with the smallest options that show it. The passing
runs keep to where their properties hold, and these further limits of the code are
the reason for the constants that they use, or for the words of a property:

- `RestartsWithKeyframe` is checked with `drop_pkts_on_overflow`, without which
  `fifo.c:341` does not set the flag after a failure.
- `recovery_wait_streamtime` does not wait (`doc/muxers.texi:2128-2130` says that it
  does): line 315 of `fifo.c` computes the time since the last attempt only when
  there is no timestamp of it, and with one goes to "Enforce recovery
  immediately". `Elapsed` has it so, and no property depends on the wait: after
  an attempt that failed with one packet the next is made with the packet after it.
- EAGAIN of the underlying muxer (`libavdevice/alsa_enc.c:105` returns it) is not
  among the failures with which a blocking encoder is checked (`fails` of the
  options in `MCFifoMuxer`): `fifo_thread_recover` takes it for its own sign to
  try again (`fifo.c:378`). Without `attempt_recovery` it loops for ever on a
  message it has freed; with it, attempts go on beyond `max_recovery_attempts`,
  after which "the output fails permanently" (`doc/muxers.texi:2117-2118`).
- `avcodec_receive_packet` returns `AVERROR_EOF` when the codec has made nothing of
  a frame, without an error (as `mpegvideo_enc.c:1510-1519`, where frames are
  skipped), though results may follow (`encode.c:440`), and returns them when it is
  called again: not what `avcodec.h:4985-4986` says, "there will be no more output
  packets". `EofIsEnd` excepts such a codec.
- `SeekArrives` excepts a seek during which the end, an error or an interrupt was
  met: `async.c:421` ignores how the reading ended, and a position is returned.
- `ReferencesAreFreed` excepts the packet of the last attempt that failed
  (`fifo.c:284`).
- The README's `./build-ffmpeg-iOS.sh x86 8.0 x264 yes` is not among the command
  lines: no architecture of the driver has that name, so that nothing is
  compiled, and the run fails at `build-ffmpeg-iOS.sh:253`.

### Fairness

- `ThreadMessage`: a woken thread takes the mutex at some time (weak fairness of
  `SendResumes` and `RecvResumes` of each thread). Nobody has to call.
- `SliceThread`: each thread that can run does (weak fairness of the caller's
  steps and of each worker's), which includes that `worker_func` returns.
  Nobody has to begin a call.
- `FrameThread`: each worker, and the user once he is in a call. The codec's
  calls return. Spurious wakeups and new calls are not obliged to happen.
- `FifoMuxer`: the writer, the clock, and the encoder inside its calls. That the
  output works again at some time is the bound on failures.
- `AsyncReader`: the thread's step, whichever it is, and the user's once he is in a
  call; the inner protocol answers.
- `FrameEncoder`: each worker, the codec included, and the user once he is in a
  call.
- `BufferPool` has safety only: nothing in it waits.
- `BuildScripts` states no fairness and checks no liveness: a script may hang in
  a tool, and the user need not run it.

This is what a preemptive scheduler gives threads; no property relies on strong
fairness, i.e. on a mutex being fair.

## 4. Theorems

### ThreadMessage, for every set of threads, messages and errors, and every capacity

`Inductive` proves `Spec => []IInv` with
`IInv == TypeOK /\ NoSleepPastError /\ NoLostWakeup`; `Typing`,
`NobodySleepsPastAnError` and `NoWakeupIsLost` follow from it. The three hold
each other up: `NoLostWakeup` compares the number of free slots with the number
of senders that are woken but have not run, and the number of messages with that
of woken receivers. A woken sender leaves its count when it appends, which takes
the slot too; when it finds the queue full and waits again, where the comparison
is with 0; but also when it returns the error, which leaves its slot to nobody.
That is right only because with an error set no sender sleeps, which is
`NoSleepPastError`. The lemmas are about the cardinality of the set of threads
at a place when one moves.

`QueueImplementsChannel` proves `Spec => Channel!Safety`: with the refinement
mapping of `ImplementsChannel`, every step of the queue is a step of
`MessageChannel` or leaves its variables alone. One lemma has the three outcomes
of `SendTries`, one those of `RecvTries`, one the errors, the flush and the
spurious wakeup. The invariant it needs beside `TypeOK` is `OnlySendersHold`: no
thread but a pending sender has a message in hand.

### SliceThread, for every number of threads and jobs

`Inductive` proves the invariant `IInv` of `SliceThreadProofs`, a conjunction of
named parts, of which the one that everything turns on is `CounterInv`: the two
counters count threads. `first_job` and the threads that have not started yet
make `nb_active_threads`, and `current_job`, once it is beyond `nb_jobs`, exceeds
it by the number of threads that have left `run_jobs`. So the thread that reads
`nb_jobs + nb_active_threads - 1` is the last, and all others have left. From it follow `NumbersAreDistinct` (two
threads in a round have different numbers and jobs), `ExecuteLeavesNobody` (when
the caller is out of `execute` no worker is in a round, and `done` is not left
set) and, as an action property, `CopiesAreFresh`.

`PoolImplementsParallelFor` in `SliceThreadProofs` proves
`Spec => Parallel!Safety` with the mapping of `ImplementsParallelFor`, from the
same invariant. Only four steps are seen by `ParallelFor`: `Execute`; taking a
number, from either counter, is `Start` of the job with that number, which
`NumberInv` and `CounterInv` show nobody had before; the return of `worker_func`
is `Finish`; and the caller's leaving, whether it was the last itself or was
told by the last, is `Return`: nobody has still to start, so `first_job` has
reached `nb_active_threads` and every job has been handed out, and no worker is
inside one. Every other step is silent.

### FrameThread, for every number of threads and of packets and every codec

`FrameThreadProofs` proves `Spec => []IInv` (`Invariant`), and from it what is said
of the locks: `Typing`, `HwaccelRunsAlone`, `CallbacksHaveTheUser`, and
`Assertions`, which states the two assertions that `pthread_frame.c` makes of its
locks (lines 155 and 190) and that no run checks. What it assumes of the codec is
that its record has the types the comment on `Codecs` gives, and that a codec with
a hwaccel or a delay has `update_thread_context`.

The parts of `IInv` say of each thread where it can be in each state. `Rests`: a
thread whose output is ready is at rest, and stays where it is while the user has
its mutex, so that the packet he gives it meets a thread that waits for one.
`Asks`: of a codec whose user has callbacks, the only thread that has not finished
its setup is the one the user serves; this needs that the codec is entered with
the setup unfinished, i.e. that `CheckInput` and `FinishForCodec` finish it early
only where nobody can ask. `HoldsHw`: `hwaccel_serializing` says that
`hwaccel_mutex` is held, and is false where `Serialize` takes it (the code says why
in a comment: `update_thread_context` is there with any hwaccel, which is `Works`);
a thread that goes on to `"slices"` with a hwaccel has it, also if the hwaccel was
found in the setup. `AsyncIsHeld`: `async_serializing` is set before `async_lock` is
taken, so that only outside `"fs_async"` it says that it is held; one thread holds
it, or the user while he is out of the decoder. `AreParked` is the loop invariant of
`park_frame_worker_threads`: without it a flush or the end of the decoder could copy
and reset the context of a thread that decodes.

`ContextsAreCurrent` needs one more part, `Known`, which is inductive together with
`IInv`: only the thread that has the newest packet (`Latest`) may not have parsed its
packet yet, until then its context knows of the packet before and afterwards of this
one too, and after a flush the first thread's does. `AwaitPrev` makes the copy in `Submit` one of
a context that is done: the thread before is not in its setup, and by `Asks` it is
not waiting for the user either.

What the user is given (`OutputInOrder`, `EndIsComplete`, `DelayIsBounded`,
`PicturesAreComplete`) follows from a third invariant, `Line` (`LineIsKept`), which
is inductive together with `IInv` and `Known`. `InOrder` is about what was
delivered and says nothing of the threads; `Line` says where each packet is in the
ring that begins at `next_finished`, where `Rank` counts the threads from it:

- `Room`: the threads that work or have output (`Active`) have no higher rank
  than the newest packet's, and do not reach `next_decoding`; so the thread that
  the next packet goes to has no output that would be lost, and the search of
  `ff_thread_decode_frame`, which begins at the oldest, skips only threads that
  have nothing. `Empty` says when it may go all round.
- `Threaded`, `Past`, `Late`: the packets of what was delivered, of what is about
  to be returned, and of the threads, in the order of their ranks, follow each
  other. A thread's output is known only when it has left its setup
  (`Undecided`), and a codec with delay may return an error for its newest packet
  before frames it holds back. So two results are compared when they are of one
  kind or one is not known yet, and the frames held back (`Held`) come after
  every frame and before the packets that are still to be decoded.
- `Conserved`: every packet since the last flush is in one of these places.
  `Ends` says that none is held back when an empty packet yields nothing, which
  gives `EofComplete`; and with one packet for each active thread, at most
  `codec.delay` held back and the bound on the ranks of `Room`, counting gives
  `BoundedDelay` (`LineBoundsDelay`).
- `Complete`: a picture that was delivered or is about to be is complete; one
  that a thread has as output is so, or a thread of no higher rank decodes into
  it, which the user waits for before he comes to that output.

Few steps change it. A worker decides what it outputs (`DecidesOwn`, or
`DecidesLate` for a codec with delay, which needs of `Known` that only the newest
packet's thread may still be undecided and that its context is the one that holds
frames back); a packet is submitted (`SubmitOrders`), the search takes an output
or goes on (`SearchEnds`, `SearchGoesOn`, where all ranks change), and a call
returns (`ReturnOrders`).

### BufferPool, for every set of threads, references, buffers, data and values

`BufferPoolProofs` proves `Spec => []IInv` (`Invariant`). The parts of `IInv` that
matter are `Counted` (the counter of a buffer is the number of references to it
and of copies not yet put in their place; 0 only while a thread is freeing it)
and `PoolInv` (the pool's counter is one for its owner, one for each buffer of
the pool, one for each thread that is about to decrement it, less one for each
that is about to increment it). Both are needed for each other: a thread that has
brought a counter to 0 is alone with the buffer, because nobody can have a
reference. From them follow `UsesAreSafe` and `AllIsFreed`. The lemmas are about
cardinalities of sets when one element comes or goes.

`Refinement` in `BufferPoolProofs` proves `Spec => ImplementsCopies`, i.e. all
of `CopiedData`'s specification. Most steps do not change what references show.
The two that could, `Write` and `ReallocInPlace`, are made by a thread that has
found the counter to be 1 some time before: by the invariant it still is, since
only who has a reference makes another, and the only one is that thread's own.

### AsyncReader, for every ring, range of indices, stream and size of request

`AsyncReaderProofs` proves `Spec => []IInv` (`Invariant`), and from it all the
run's invariants: `Typing`, `ReadsTheStream`, `EndsAtTheEnd`, `Arrives`,
`ReadsAhead`. What it assumes of the constants is that the ring is smaller than
the range of its indices, and larger than what is kept of it to read back, as in
the code.

`ReadsStream` says nothing of the ring, and is not inductive. `RingHolds` says what
the memory holds: the `Held` positions that precede the inner protocol's, from
`rptr` on across the end of the memory, where `Held` counts what the thread has
written and not published; it ends where the thread goes on to write. `IsAtRing`
says that `logical_pos` is as far behind the inner protocol as `Held` less
`readPos`; while the user waits for a seek that the thread has made, that is said
of the position he will take over. It fails after an interrupt, when a seek may
be made that nobody takes over, and then nothing is read any more. The lemmas on
`Unsigned` and `AtEnd` are all there is of wrapping: a piece that is written is
behind what is held and overwrites none of it (`PieceIsWritten`), what is drained
moves both ends (`RingIsTaken`).

### FrameEncoder, for every number of threads, of frames and size of the ring

`FrameEncoderProofs` proves `Spec => []IInv` (`Invariant`), and from it the run's
invariants: `Typing`, `ResultsInOrder`, `EndIsReal`. What it assumes of the
constants is that there are at least two threads, and that `BUFFER_SIZE` is at
least twice their number, as the code defines it (`2*MAX_THREADS`); that `None` is no frame, task
or result is of the model's making.

`ReturnedInOrder` says nothing of the ring, and is not inductive. `Places` says
where the frames are: the fifo has those after the frames handed out to workers,
in order; tasks and results are of different frames, none of which was returned;
and each index, of a task, of a result, `task_index` and `finished_task_index`, is
the number of its frame modulo the ring. Fewer frames are on their way than the
ring has places (`sent - Out < BufferSize`, from `Calls`: one more than threads at
most), so that the index tells the frame: a worker's result goes into a place of
its own, and the place at `finished_task_index` can only have the result of the
frame that follows those returned (`OldestIsNext`, from the lemmas `Distance` and
`NextIndex` on the ring's indices). `Received` then follows, since `Calls` says
that nothing is collected while `buffer_pkt` has a packet. For `EofIsEnd`: the
indices are equal only when every result was returned (`ReturnsNothingKeeps`).

### FifoMuxer, for every set of options, capacity, number of packets and of failures

`FifoMuxerProofs` proves `Spec => []IInv` (`Inductive`), and from it the run's
invariants: `TypeCorrect`, `PacketsInOrder`, `NothingLeaks`,
`OutputsBeginWithKeyframes`, `NothingIsLost`, `NobodySleepsInVain`.

A packet that was accepted is in one of four places: written, in the writer's
hand (`Held`), in the queue (`InQueue`), or in a call of the encoder that waits
(`Waiting`). `Ordered` says that these follow each other in the order of the
packets, which `InOrder`, about what is written, does not: it is not inductive
without it. `References` says that the references are those of the last three
places, which makes `ReferencesAreFreed` a matter of where packets are at the
end (`Threads`: the queue is empty when the muxer is closed, and the writer's hand
unless the last attempt has failed). `Counts` bounds files and attempts by the
failures there were. For `RestartsWithKeyframe` the invariant needs what is to come:
`KeyframeNext` says that a file that was started again and has no packet yet waits
for a keyframe, or that the next packet begins another file; with `FirstHeader`, a
header is written outside of an attempt to recover only for the first file.

`NothingIsLost` has a hypothesis, `MuxerWaits`: the underlying muxer of a blocking
encoder does not return EAGAIN. The options of the run have it too, for the
reason that section 3 gives: with EAGAIN `fifo_thread_recover` goes round for
ever on a message it has freed, and the packet is lost. Which failures there are
otherwise, and how many, is free.

The composition is proved, not assumed: `UsesTheQueue` shows that each step of the
muxer is a step of `ThreadMessage` for two threads or leaves the queue alone, so
that the lemmas of `ThreadMessageProofs`, instantiated, give the queue's
invariants in the muxer (`NoWakeupIsLost`). With one thread at each end these say
that nobody sleeps who could go on (`NobodySleepsInVain`).

### BuildScripts, for every number of runs and every command line

`BuildScriptsProofs` proves `Spec => []IInv` (`Inductive`), and from it
`TypeCorrect`, `SuccessIsWhole` and `X264IsNew`. What it assumes of the command
lines is what the driver's arguments can be: one of the architectures or "all",
one of the libraries, "all" or "none", and whether to rebuild.

`SuccessIsComplete` speaks of the end of a run, which may begin with anything
that earlier runs have left. `OwnSlices` says that in a script which removes its
build directory when it starts, what is there is of this run; that is not so of
lame's, which the property leaves out. `Compiled` is the invariant of the loop of
ffmpeg's script: what is done of what was asked for has been compiled, with the
libraries that were enabled there, and nothing else is in the build directory, so
that lipo joins just that. `OldX264IsGone` is the reason that the
ignored exit status of x264's script does no harm: it removes the old
library first, so that ffmpeg's configure fails if there is no new one.

### What is only model-checked

- Liveness, and the progress half of `ImplementsChannel` and
  `ImplementsParallelFor`: the prover has no rules for fairness.

## 5. Not modelled

- The data: bit streams, pictures, formats, arithmetic of codecs and filters.
- The fields that contexts exchange (`update_context_from_user` and `_thread`
  are the copy of the abstract context), logging and debugging options.
- Failures to allocate memory, except where they are an outcome of a call that
  the model already has; the failures inside `ff_frame_thread_init`, and those of
  `ff_frame_thread_encoder_init` before its first thread (where `free` meets what
  was not initialised, `frame_thread_encoder.c:185`) and of `async_open`.
- `av_fifo_grow`, `av_fifo_realloc2`, `av_fifo_generic_read` and `_peek`.
- The sizes of buffers, and references into the middle of one.
- `FF_THREAD_SLICE` together with frame threads, and interlaced fields: progress
  is of a whole frame.
- A codec that fails in mid-slice and does not report the progress of its frame;
  what `pthread_frame.c` promises rests on codecs that do. The limit that
  `decode.c:584-595` sets on errors while draining: the properties are those of
  `ff_thread_decode_frame`.
- Seeks of the `async:` protocol to negative positions and `AVSEEK_SIZE`, which
  change nothing. An interrupt inside `ffurl_seek` is a seek that fails.
- `PoolUncounts` frees the `AVBuffer` together with giving its data back, a little
  before `buffer.c` does; nobody else has it then.
- The file of the underlying muxer, its open and close.
- Downloads, the installation of tools and the copies of headers by the scripts;
  the exits when yasm or gas-preprocessor are missing, and a patch that fails;
  scripts the driver does not call; version 3.4.2.
- The parts that section 1 lists and section 2 does not; `PROJECT.json` has the
  reason for each.

## 6. Plan

Done: the message queue, slice threads, reference-counted buffers, the `async:`
protocol over the indices of its ring, the encoder's frame threads with the calls
above them, and the proofs of all these; the decoder's frame threads, with the
proofs about their locks, their contexts and the order of their output; the fifo
muxer over the queue, with the proofs of both and of their composition; the
build scripts and their proofs.

Next, in this order:

1. `SliceProgress` (`FF/libavcodec/pthread_slice.c`) over `SliceThread`.
2. `DecodeApi` (`decode.c`, `bsf.c`): send and receive, EAGAIN and EOF; the user
   of `FrameThread` made explicit.
3. `Interleave` (`mux.c`), filter activation, the `udp:` reader.
