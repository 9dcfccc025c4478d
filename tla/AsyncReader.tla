----------------------------- MODULE AsyncReader -----------------------------
(***************************************************************************)
(* libavformat/async.c: a thread reads ahead from another protocol into a  *)
(* ring, from which the user reads and in which he seeks while he can.     *)
(* The ring keeps some of what was read, to seek back.  Seeking elsewhere  *)
(* is asked of the thread.                                                 *)
(*                                                                         *)
(* What is done from a lock of the mutex to its release, or to a wait, is  *)
(* one step.  The thread reads from the inner protocol, and writes to the  *)
(* ring, without the mutex; the user seeks back in the ring without it.    *)
(* The byte at a position of the stream is represented by the position.    *)
(***************************************************************************)
EXTENDS Sequences, FifoBuffer

CONSTANTS ReadBackCapacity,   \* READ_BACK_CAPACITY: of the Capacity of the ring
          ShortSeek,          \* SHORT_SEEK_THRESHOLD
          MaxCopy,            \* 4096
          StreamSize,         \* of the inner protocol
          ReadSizes,          \* that the user asks for
          MaxFaults,          \* bound: how often the inner protocol may fail
          None

ASSUME AsyncReaderAssumption ==
    /\ ReadBackCapacity \in Nat /\ ReadBackCapacity < Capacity
    /\ ShortSeek \in Nat /\ MaxCopy \in Nat \ {0} /\ StreamSize \in Nat
    /\ ReadSizes \subseteq Nat \ {0} /\ MaxFaults \in Nat /\ None \notin Int

VARIABLES fifo, memory, readPos,      \* the RingBuffer
          seek,                       \* seek_request, _pos, _completed and _ret
          ioError, ioEof,             \* io_error, or "none", and io_eof_reached
          abort,                      \* abort_request
          logicalPos,
          seekable,                   \* logical_size is known
          innerPos, faults,           \* the inner protocol, and how often it has failed
          bg,                         \* async_buffer_thread: where it is, the
                                      \* indices that it writes with, what is left
                                      \* to write, inner_io_error
          user                        \* where he is in a call, what is left to
                                      \* read, where he seeks; what the last call
                                      \* has returned, and read from which position

ring   == <<fifo, memory, readPos>>
io     == <<ioError, ioEof>>
inner  == <<seekable, innerPos, faults>>
vars   == <<ring, seek, io, abort, logicalPos, inner, bg, user>>

NoSeek == [request |-> FALSE, pos |-> 0, completed |-> FALSE, ret |-> None]
Looping == [at |-> "loop", fifo |-> Reset, todo |-> 0, error |-> "none"]
Idle   == [at |-> "idle", todo |-> 0, target |-> None, ret |-> "none", from |-> None, data |-> <<>>]

Opened ==
    /\ fifo = Reset /\ memory = [s \in 0..Capacity - 1 |-> None] /\ readPos = 0
    /\ seek = NoSeek /\ ioError = "none" /\ ioEof = FALSE /\ abort = FALSE
    /\ logicalPos = 0 /\ innerPos = 0 /\ seekable \in BOOLEAN
    /\ bg = Looping /\ user = Idle

Init == Opened /\ faults = 0

\* ring_size, ring_space
RingSize  == FifoSize(fifo) - readPos
RingSpace == FifoSpace(fifo)

Lesser(m, n) == IF m < n THEN m ELSE n

\* pthread_cond_signal of cond_wakeup_main, by the thread, and of
\* cond_wakeup_background: who wakes up begins his loop anew.
WakesUser == user' = IF user.at = "readwait" THEN [user EXCEPT !.at = "read"]
                     ELSE IF user.at = "seekwait" THEN [user EXCEPT !.at = "seeking"]
                     ELSE user
WakesThread == bg' = IF bg.at = "asleep" THEN [bg EXCEPT !.at = "loop"] ELSE bg

\* async_check_interrupt: what the user's callback returns is remembered.
Interrupted(yes) == abort' = (abort \/ yes) /\ abort'

-----------------------------------------------------------------------------
(* async_buffer_task                                                       *)

Exits ==
    /\ ioEof' = TRUE /\ ioError' = "exit"
    /\ bg' = [bg EXCEPT !.at = "ended"]
    /\ WakesUser
    /\ UNCHANGED <<ring, seek, logicalPos, inner>>

\* Mutant: the end of the stream is remembered across a seek.
SeeksStale ==
    /\ seek.request
    /\ seek' = [seek EXCEPT !.request = FALSE, !.completed = TRUE, !.ret = seek.pos]
    /\ innerPos' = seek.pos /\ fifo' = Reset /\ readPos' = 0
    /\ UNCHANGED <<faults, memory, io>>
    /\ WakesUser
    /\ UNCHANGED <<logicalPos, seekable, bg>>

\* The inner protocol seeks, or fails to and stays where it is.
Seeks ==
    /\ seek.request
    /\ \E ret \in {seek.pos, None} :
          /\ seek' = [seek EXCEPT !.request = FALSE, !.completed = TRUE, !.ret = ret]
          /\ IF ret = None
             THEN faults < MaxFaults /\ faults' = faults + 1 /\ UNCHANGED <<ring, io, innerPos>>
             ELSE /\ innerPos' = ret /\ ioError' = "none" /\ ioEof' = FALSE
                  /\ fifo' = Reset /\ readPos' = 0 /\ UNCHANGED <<memory, faults>>
    /\ WakesUser
    /\ UNCHANGED <<logicalPos, seekable, bg>>

\* Mutant: the user is not told of the end before the thread sleeps.
SleepsQuietly ==
    /\ ~seek.request /\ (ioEof \/ RingSpace <= 0)
    /\ bg' = [bg EXCEPT !.at = "asleep"]
    /\ UNCHANGED <<ring, seek, io, logicalPos, inner, user>>

Sleeps ==
    /\ ~seek.request /\ (ioEof \/ RingSpace <= 0)
    /\ bg' = [bg EXCEPT !.at = "asleep"]
    /\ WakesUser
    /\ UNCHANGED <<ring, seek, io, logicalPos, inner>>

StartsToFill ==
    /\ ~seek.request /\ ~ioEof /\ RingSpace > 0
    /\ bg' = [at |-> "fill", fifo |-> fifo, todo |-> Lesser(MaxCopy, RingSpace), error |-> "none"]
    /\ UNCHANGED <<ring, seek, io, logicalPos, inner, user>>

\* from the lock of the mutex at the head of the loop
Loop ==
    /\ bg.at = "loop"
    /\ \E yes \in BOOLEAN :
          \/ Interrupted(yes) /\ Exits
          \/ ~abort /\ ~yes /\ UNCHANGED abort /\ (Seeks \/ Sleeps \/ StartsToFill)

\* wrapped_url_read for a piece of what av_fifo_generic_write is to write; the
\* new indices are seen by the user when it is done.
Fill ==
    /\ bg.at = "fill"
    /\ \/ \E n \in 1..Lesser(PieceSize(bg.fifo, bg.todo), StreamSize - innerPos) :
             /\ memory' = [s \in 0..Capacity - 1 |->
                             IF s \in bg.fifo.wptr..bg.fifo.wptr + n - 1
                             THEN innerPos + (s - bg.fifo.wptr) ELSE memory[s]]
             /\ innerPos' = innerPos + n
             /\ bg' = [bg EXCEPT !.fifo = Written(bg.fifo, n), !.todo = @ - n, !.error = "none",
                                 !.at = IF bg.todo = n THEN "filled" ELSE "fill"]
             /\ UNCHANGED <<faults, abort>>
       \/ \E error \in {"eof", "error", "exit"} :
             /\ error = "eof" => innerPos = StreamSize /\ UNCHANGED <<faults, abort>>
             /\ error = "error" => faults < MaxFaults /\ faults' = faults + 1 /\ UNCHANGED abort
             /\ error = "exit" => abort' = TRUE /\ UNCHANGED faults
             /\ bg' = [bg EXCEPT !.at = "filled", !.error = error]
             /\ UNCHANGED <<memory, innerPos>>
    /\ UNCHANGED <<fifo, readPos, seek, io, logicalPos, seekable, user>>

\* wptr and wndx are stored at the end of av_fifo_generic_write.
Publish ==
    /\ bg.at = "filled"
    /\ fifo' = [fifo EXCEPT !.wptr = bg.fifo.wptr, !.wndx = bg.fifo.wndx]
    /\ bg' = [bg EXCEPT !.at = IF bg.fifo.wndx = fifo.wndx THEN "failed" ELSE "written",
                        !.fifo = Reset, !.todo = 0]
    /\ UNCHANGED <<memory, readPos, seek, io, abort, logicalPos, inner, user>>

\* the end of the loop, under the mutex: ret <= 0, or not
Report ==
    /\ bg.at \in {"written", "failed"}
    /\ IF bg.at = "failed"
       THEN /\ ioEof' = TRUE
            /\ ioError' = IF bg.error # "none" THEN bg.error ELSE ioError
       ELSE UNCHANGED io
    /\ bg' = Looping
    /\ WakesUser
    /\ UNCHANGED <<ring, seek, abort, logicalPos, inner>>

Background == Loop \/ Fill \/ Publish \/ Report

-----------------------------------------------------------------------------
(* The user                                                                *)

Returns(ret) == user' = [user EXCEPT !.at = "idle", !.todo = 0, !.ret = ret]

\* async_read
Read ==
    /\ user.at = "idle"
    /\ \E n \in ReadSizes :
          user' = [Idle EXCEPT !.at = "read", !.todo = n, !.from = logicalPos]
    /\ UNCHANGED <<ring, seek, io, abort, logicalPos, inner, bg>>

\* Mutant: a seek reads what there is.
NeverComplete == FALSE

\* of a seek, which asks async_read_internal to read all
Complete == user.target # None

\* Mutant: all that was read is kept.
TakesOnly(n) ==
    /\ readPos' = readPos + n
    /\ UNCHANGED <<fifo, memory>>

\* ring_generic_read
Takes(n) ==
    /\ readPos' = Lesser(readPos + n, ReadBackCapacity)
    /\ fifo' = IF readPos + n > ReadBackCapacity
               THEN Drained(fifo, readPos + n - ReadBackCapacity) ELSE fifo
    /\ UNCHANGED memory

\* Mutant: the thread is only told by who waits.
SignalsIfWaiting == IF user'.at = "readwait" THEN WakesThread ELSE UNCHANGED bg

\* before a wait and at the end
Signals == WakesThread

\* async_read_internal, from a lock of the mutex to a wait or to the end.  A
\* seek ignores what it returns and returns logical_pos.
ReadTurn ==
    /\ user.at = "read"
    /\ \E yes \in BOOLEAN :
          \/ /\ Interrupted(yes)
             /\ Returns(IF Complete THEN "ok" ELSE "exit")
             /\ UNCHANGED <<ring, logicalPos>>
          \/ /\ ~abort /\ ~yes /\ UNCHANGED abort
             /\ LET n == Lesser(user.todo, RingSize) IN
                \/ /\ n > 0
                   /\ Takes(n)
                   /\ logicalPos' = logicalPos + n
                   /\ IF Complete
                      THEN user' = [user EXCEPT !.at = IF user.todo = n THEN "idle" ELSE "readwait",
                                                !.todo = @ - n,
                                                !.ret = IF user.todo = n THEN "ok" ELSE "none"]
                      ELSE user' = [user EXCEPT !.at = "idle", !.todo = 0, !.ret = "ok",
                                       !.data = [i \in 1..n |-> memory[PeekSlot(fifo, readPos, i - 1)]]]
                \/ /\ n <= 0 /\ ioEof
                   /\ Returns(IF Complete THEN "ok"
                              ELSE IF ioError # "none" THEN ioError ELSE "eof")
                   /\ UNCHANGED <<ring, logicalPos>>
                \/ /\ n <= 0 /\ ~ioEof
                   /\ user' = [user EXCEPT !.at = "readwait"]
                   /\ UNCHANGED <<ring, logicalPos>>
    /\ Signals
    /\ UNCHANGED <<seek, io, inner>>

\* async_seek to a position p, up to the decision which way; what is in the
\* ring is read without the mutex.
Seek ==
    /\ user.at = "idle"
    /\ \E p \in 0..StreamSize + ShortSeek + 1 :
          LET near == p >= logicalPos - readPos /\ p < logicalPos + RingSize + ShortSeek
              goes == [Idle EXCEPT !.target = p]
          IN
          \/ /\ p = logicalPos
             /\ user' = [goes EXCEPT !.ret = "ok"]
             /\ UNCHANGED <<readPos, logicalPos>>
          \/ /\ p > logicalPos /\ near
             /\ user' = [goes EXCEPT !.at = "read", !.todo = p - logicalPos]
             /\ UNCHANGED <<readPos, logicalPos>>
          \/ /\ p < logicalPos /\ near
             /\ readPos' = readPos + (p - logicalPos)      \* ring_drain
             /\ logicalPos' = p
             /\ user' = [goes EXCEPT !.ret = "ok"]
          \/ /\ p # logicalPos /\ ~near
             /\ user' = IF seekable /\ p <= StreamSize THEN [goes EXCEPT !.at = "seek"]
                                                        ELSE [goes EXCEPT !.ret = "invalid"]
             /\ UNCHANGED <<readPos, logicalPos>>
    /\ UNCHANGED <<fifo, memory, seek, io, abort, inner, bg>>

\* its loop, from a lock of the mutex to a wait or to the end
SeekWaits(completed, ret) ==
    \E yes \in BOOLEAN :
       \/ Interrupted(yes) /\ Returns("exit") /\ UNCHANGED <<logicalPos, bg>>
       \/ /\ ~abort /\ ~yes /\ UNCHANGED abort
          /\ \/ /\ completed
                /\ logicalPos' = IF ret # None THEN ret ELSE logicalPos
                /\ Returns(IF ret # None THEN "ok" ELSE "error")
                /\ UNCHANGED bg
             \/ /\ ~completed
                /\ user' = [user EXCEPT !.at = "seekwait"]
                /\ WakesThread
                /\ UNCHANGED logicalPos

SeekRequests ==
    /\ user.at = "seek"
    /\ seek' = [request |-> TRUE, pos |-> user.target, completed |-> FALSE, ret |-> None]
    /\ SeekWaits(FALSE, None)
    /\ UNCHANGED <<ring, io, inner>>

SeekTurn ==
    /\ user.at = "seeking"
    /\ SeekWaits(seek.completed, seek.ret)
    /\ UNCHANGED <<ring, seek, io, inner>>

\* async_close: the thread is told, and joined.
Close ==
    /\ user.at = "idle"
    /\ user' = [Idle EXCEPT !.at = "join"]
    /\ abort' = TRUE
    /\ WakesThread
    /\ UNCHANGED <<ring, seek, io, logicalPos, inner>>

Joined ==
    /\ user.at = "join" /\ bg.at = "ended"
    /\ user' = [Idle EXCEPT !.at = "closed"]
    /\ UNCHANGED <<ring, seek, io, abort, logicalPos, inner, bg>>

\* async_open, of another stream
Open ==
    /\ user.at = "closed"
    /\ fifo' = Reset /\ memory' = [s \in 0..Capacity - 1 |-> None] /\ readPos' = 0
    /\ seek' = NoSeek /\ ioError' = "none" /\ ioEof' = FALSE /\ abort' = FALSE
    /\ logicalPos' = 0 /\ innerPos' = 0 /\ seekable' \in BOOLEAN
    /\ bg' = Looping /\ user' = Idle
    /\ UNCHANGED faults

SpuriousWakeup ==
    /\ \/ user.at \in {"readwait", "seekwait"} /\ WakesUser /\ UNCHANGED bg
       \/ bg.at = "asleep" /\ WakesThread /\ UNCHANGED user
    /\ UNCHANGED <<ring, seek, io, abort, logicalPos, inner>>

InCall == ReadTurn \/ SeekRequests \/ SeekTurn \/ Joined

Next == Background \/ InCall \/ Read \/ Seek \/ Close \/ Open \/ SpuriousWakeup

\* The thread runs, the inner protocol answers, and the user goes on once he is
\* in a call.
Spec == Init /\ [][Next]_vars /\ WF_vars(Background) /\ WF_vars(InCall)

-----------------------------------------------------------------------------
(* Properties                                                              *)

Errors == {"none", "eof", "error", "exit"}

TypeOK ==
    /\ fifo \in Fifo /\ memory \in [0..Capacity - 1 -> Int \union {None}]
    /\ readPos \in 0..ReadBackCapacity /\ readPos <= FifoSize(fifo) /\ FifoSpace(fifo) >= 0
    /\ seek \in [request : BOOLEAN, pos : Nat, completed : BOOLEAN, ret : Nat \union {None}]
    /\ ioError \in Errors /\ ioEof \in BOOLEAN /\ abort \in BOOLEAN
    /\ logicalPos \in Nat /\ seekable \in BOOLEAN
    /\ innerPos \in 0..StreamSize /\ faults \in 0..MaxFaults
    /\ bg \in [at : {"loop", "asleep", "fill", "filled", "written", "failed", "ended"},
               fifo : Fifo, todo : 0..MaxCopy, error : Errors]
    /\ user.at \in {"idle", "read", "readwait", "seek", "seekwait", "seeking", "join", "closed"}
    /\ user.todo \in Nat

(* What a read returns is the stream at the position where the user was,    *)
(* wherever he has sought and however far the thread was ahead of him.      *)
ReadsStream ==
    /\ \A i \in DOMAIN user.data : user.data[i] = user.from + i - 1
    /\ user.data # <<>> => logicalPos = user.from + Len(user.data)

(* The end of the stream is where it ends, whatever end or error the thread *)
(* has met before a seek.                                                   *)
EofIsReal == user.ret = "eof" => logicalPos = StreamSize

(* A seek that returns a position has arrived there, unless the stream has  *)
(* ended on the way, or an error or the user has interrupted it.            *)
SeekArrives ==
    user.at = "idle" /\ user.target # None /\ user.ret = "ok" =>
        \/ logicalPos = Lesser(user.target, StreamSize)
        \/ abort \/ (ioEof /\ ioError = "error")

(* The thread sleeps only when it has nothing to do: no wakeup is lost of a  *)
(* user who asks for a seek, or has made space.                             *)
Prefetches ==
    bg.at = "asleep" => (ioEof \/ RingSpace <= 0) /\ (seek.request => abort)

(* Every call returns, whatever the thread is doing, and close ends it.     *)
EveryCallReturns == user.at # "idle" ~> user.at \in {"idle", "closed"}
=============================================================================
