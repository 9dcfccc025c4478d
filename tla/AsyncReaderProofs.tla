------------------------- MODULE AsyncReaderProofs -------------------------
(***************************************************************************)
(* The invariants of AsyncReader, for every ring, stream and size of       *)
(* request: what is read is the stream, an end is one, a seek arrives.     *)
(***************************************************************************)
EXTENDS AsyncReader, TLAPS

-----------------------------------------------------------------------------
(* Arithmetic of the indices                                               *)

\* A count that is added to the greater of two indices is added to what lies
\* between them, across the end of the range.
LEMMA UnsignedAdd ==
    ASSUME NEW a \in 0..IndexRange - 1, NEW b \in 0..IndexRange - 1, NEW n \in Nat,
           Unsigned(a - b) + n < IndexRange
    PROVE  /\ Unsigned(a + n) \in 0..IndexRange - 1
           /\ Unsigned(Unsigned(a + n) - b) = Unsigned(a - b) + n
BY FifoBufferAssumption DEF Unsigned

\* ... and one that is added to the lesser is taken from it.
LEMMA UnsignedSub ==
    ASSUME NEW a \in 0..IndexRange - 1, NEW b \in 0..IndexRange - 1, NEW n \in Nat,
           n <= Unsigned(a - b)
    PROVE  /\ Unsigned(b + n) \in 0..IndexRange - 1
           /\ Unsigned(a - Unsigned(b + n)) = Unsigned(a - b) - n
BY FifoBufferAssumption DEF Unsigned

\* What lies between two indices is the sum of its parts.
LEMMA UnsignedSum ==
    ASSUME NEW a \in 0..IndexRange - 1, NEW b \in 0..IndexRange - 1,
           NEW c \in 0..IndexRange - 1,
           Unsigned(a - b) + Unsigned(c - a) < IndexRange
    PROVE  Unsigned(c - b) = Unsigned(a - b) + Unsigned(c - a)
BY FifoBufferAssumption DEF Unsigned

LEMMA UnsignedType ==
    ASSUME NEW a \in 0..IndexRange - 1, NEW b \in 0..IndexRange - 1
    PROVE  Unsigned(a - b) \in 0..IndexRange - 1 /\ (Unsigned(a - b) = 0 <=> a = b)
BY FifoBufferAssumption DEF Unsigned

LEMMA AtEndType ==
    ASSUME NEW p \in 0..Capacity - 1, NEW n \in 0..Capacity
    PROVE  AtEnd(p + n) \in 0..Capacity - 1
BY FifoBufferAssumption DEF AtEnd

\* Steps through the memory add up, as long as they do not go all around it.
LEMMA AtEndAdd ==
    ASSUME NEW p \in 0..Capacity - 1, NEW m \in Nat, NEW n \in Nat, m + n <= Capacity
    PROVE  AtEnd(AtEnd(p + m) + n) = AtEnd(p + (m + n))
BY FifoBufferAssumption DEF AtEnd

LEMMA AtEndDiffers ==
    ASSUME NEW p \in 0..Capacity - 1, NEW m \in 0..Capacity - 1, NEW n \in 0..Capacity - 1,
           m # n
    PROVE  AtEnd(p + m) # AtEnd(p + n)
BY FifoBufferAssumption DEF AtEnd

\* Where the peek at an offset finds its i-th byte.
LEMMA Peeks ==
    ASSUME NEW f \in Fifo, NEW offset \in Nat, NEW i \in Nat, offset + i < Capacity
    PROVE  PeekSlot(f, offset, i) = AtEnd(f.rptr + (offset + i))
BY FifoBufferAssumption DEF PeekSlot, PeekPtr, AtEnd, Fifo

-----------------------------------------------------------------------------
(* The inductive invariant                                                 *)

Ats == {"idle", "read", "readwait", "seek", "seekwait", "seeking", "join", "closed"}

User == [at : Ats, todo : Nat, target : Nat \union {None},
         ret : Errors \union {"ok", "invalid"}, from : Nat \union {None},
         data : Seq(Int \union {None})]

Types == TypeOK /\ user \in User

Filling == bg.at \in {"fill", "filled"}
Seeking == user.at \in {"seekwait", "seeking"}

\* What the thread has written and not published, and all that is in memory.
Ahead == IF Filling THEN Unsigned(bg.fifo.wndx - fifo.wndx) ELSE 0
Held  == FifoSize(fifo) + Ahead

\* The memory holds the Held positions before that of the inner protocol, from
\* rptr on, and the thread writes behind them and not beyond the space.
RingHolds ==
    /\ Held <= Capacity
    /\ Filling => Held + bg.todo <= Capacity
    /\ fifo.wptr = AtEnd(fifo.rptr + FifoSize(fifo))
    /\ Filling => bg.fifo.wptr = AtEnd(fifo.rptr + Held)
    /\ \A i \in 0..Held - 1 : memory[AtEnd(fifo.rptr + i)] = (innerPos - Held) + i

\* The user is at the reading end of the ring, or will be when he has seen that
\* the thread has sought for him.  Who is interrupted never sees it.
Position == IF Seeking /\ seek.completed /\ seek.ret # None THEN seek.ret ELSE logicalPos

IsAtRing == abort \/ Position = (innerPos - Held) + readPos

\* A request is for who waits for it.
RequestIsAwaited ==
    /\ seek.request => seek.pos \in 0..StreamSize /\ ~seek.completed /\ (abort \/ Seeking)
    /\ seek.ret \in {None, seek.pos}
    /\ Seeking => seek.pos = user.target
    /\ user.at \in {"seek", "seekwait", "seeking"} => user.target \in 0..StreamSize

\* Where a call has begun and where it goes.
CallProgress ==
    /\ user.data # <<>> => user.at = "idle"
    /\ user.at \in {"read", "readwait"} =>
          /\ user.todo > 0
          /\ IF user.target = None THEN user.from = logicalPos
                                   ELSE user.target = logicalPos + user.todo

\* Nothing is read after an end, which is one unless there was an error.
EndIsReached ==
    /\ ioEof => bg.at \in {"loop", "asleep", "ended"}
    /\ ioEof /\ ioError \in {"none", "eof"} => innerPos = StreamSize
    /\ bg.at \in {"filled", "failed"} /\ bg.error = "eof" => innerPos = StreamSize
    /\ bg.at = "filled" /\ Ahead = 0 => bg.error # "none"
    /\ bg.at = "failed" => bg.error # "none"
    /\ "exit" \in {ioError, bg.error} => abort

IInv ==
    /\ Types /\ RingHolds /\ IsAtRing /\ RequestIsAwaited /\ CallProgress
    /\ EndIsReached /\ Prefetches
    /\ ReadsStream /\ EofIsReal /\ SeekArrives

-----------------------------------------------------------------------------
(* What the steps have in common                                           *)

LEMMA RingTypes ==
    ASSUME TypeOK
    PROVE  /\ FifoSize(fifo) \in 0..Capacity /\ RingSpace = Capacity - FifoSize(fifo)
           /\ Ahead \in Nat /\ Ahead < IndexRange
           /\ Held \in Nat /\ Held = FifoSize(fifo) + Ahead
<1>1. FifoSize(fifo) \in 0..IndexRange - 1
  BY UnsignedType DEF TypeOK, Fifo, FifoSize
<1>2. Unsigned(bg.fifo.wndx - fifo.wndx) \in 0..IndexRange - 1
  BY UnsignedType DEF TypeOK, Fifo
<1>. QED BY <1>1, <1>2, FifoBufferAssumption DEF TypeOK, FifoSpace, RingSpace, Ahead, Held

\* A signal leaves the user's call as it is.
LEMMA UserIsWoken ==
    ASSUME user \in User, WakesUser
    PROVE  /\ user' \in User
           /\ user' = [user EXCEPT !.at = user'.at]
           /\ user'.at # user.at => \/ user.at = "readwait" /\ user'.at = "read"
                                    \/ user.at = "seekwait" /\ user'.at = "seeking"
BY DEF WakesUser, User, Ats

\* ... and the thread's step.
LEMMA ThreadIsWoken ==
    ASSUME TypeOK, WakesThread
    PROVE  /\ bg' = [bg EXCEPT !.at = bg'.at]
           /\ bg'.at = IF bg.at = "asleep" THEN "loop" ELSE bg.at
           /\ bg'.fifo = bg.fifo /\ bg'.todo = bg.todo /\ bg'.error = bg.error
           /\ bg' \in [at : {"loop", "asleep", "fill", "filled", "written", "failed", "ended"},
                       fifo : Fifo, todo : 0..MaxCopy, error : Errors]
BY DEF WakesThread, TypeOK

\* The ring as it is, while the thread goes on, or does not write.
LEMMA RingIsKept ==
    ASSUME RingHolds, UNCHANGED <<fifo, memory, innerPos>>,
           \/ ~Filling /\ ~Filling'
           \/ Filling' = Filling /\ bg'.fifo = bg.fifo /\ bg'.todo = bg.todo
    PROVE  RingHolds' /\ Ahead' = Ahead /\ Held' = Held
<1>1. FifoSize(fifo)' = FifoSize(fifo)
  BY DEF FifoSize
<1>2. Ahead' = Ahead
  BY DEF Ahead, Unsigned
<1>3. Held' = Held
  BY <1>1, <1>2 DEF Held
<1>. QED BY <1>1, <1>2, <1>3 DEF RingHolds, AtEnd

\* What is said of calls depends on nothing else.
LEMMA CallIsKept ==
    ASSUME user \in User, CallProgress, ReadsStream, EofIsReal, WakesUser, UNCHANGED logicalPos
    PROVE  CallProgress' /\ ReadsStream' /\ EofIsReal'
<1>1. /\ user'.todo = user.todo /\ user'.target = user.target /\ user'.ret = user.ret
      /\ user'.from = user.from /\ user'.data = user.data
  BY UserIsWoken DEF User
<1>2. \/ user'.at = user.at
      \/ user.at = "readwait" /\ user'.at = "read"
      \/ user.at = "seekwait" /\ user'.at = "seeking"
  BY UserIsWoken
<1>3. CallProgress'
  BY <1>1, <1>2 DEF CallProgress
<1>4. ReadsStream'
  BY <1>1 DEF ReadsStream
<1>. QED BY <1>1, <1>3, <1>4 DEF EofIsReal

-----------------------------------------------------------------------------
(* The steps of the thread                                                 *)

LEMMA Initially == Init => IInv
<1>. SUFFICES ASSUME Init PROVE IInv
  OBVIOUS
<1>. USE DEF Init, Opened, Idle, Looping, NoSeek, Reset
<1>1. FifoSize(fifo) = 0 /\ ~Filling /\ Ahead = 0 /\ Held = 0
  BY FifoBufferAssumption DEF FifoSize, Unsigned, Filling, Ahead, Held
<1>2. TypeOK
  <2>1. Reset \in Fifo /\ Looping \in [at : {"loop"}, fifo : Fifo, todo : {0}, error : {"none"}]
    BY FifoBufferAssumption DEF Fifo
  <2>2. FifoSpace(fifo) = Capacity
    BY <1>1, FifoBufferAssumption DEF FifoSpace
  <2>3. seek \in [request : BOOLEAN, pos : Nat, completed : BOOLEAN, ret : Nat \union {None}]
    OBVIOUS
  <2>4. memory \in [0..Capacity - 1 -> Int \union {None}]
    OBVIOUS
  <2>. QED BY <1>1, <2>1, <2>2, <2>3, <2>4, FifoBufferAssumption, AsyncReaderAssumption
           DEF TypeOK, Errors
<1>3. user \in User
  BY DEF User, Ats, Errors
<1>4. RingHolds
  BY <1>1, FifoBufferAssumption DEF RingHolds, AtEnd
<1>5. IsAtRing /\ RequestIsAwaited /\ CallProgress
  BY <1>1, AsyncReaderAssumption DEF IsAtRing, Position, Seeking, RequestIsAwaited, CallProgress
<1>6. EndIsReached /\ Prefetches
  BY DEF EndIsReached, Prefetches
<1>7. ReadsStream /\ EofIsReal /\ SeekArrives
  BY DEF ReadsStream, EofIsReal, SeekArrives
<1>. QED BY <1>2, <1>3, <1>4, <1>5, <1>6, <1>7 DEF IInv, Types

LEMMA ExitsKeeps ==
    ASSUME IInv, bg.at = "loop", abort', Exits PROVE IInv'
<1>. USE DEF Exits, ring, inner
<1>1. TypeOK /\ user \in User /\ bg' = [bg EXCEPT !.at = "ended"] /\ WakesUser
  BY DEF IInv, Types
<1>2. /\ user' \in User /\ user' = [user EXCEPT !.at = user'.at]
      /\ \/ user'.at = user.at
         \/ user.at = "readwait" /\ user'.at = "read"
         \/ user.at = "seekwait" /\ user'.at = "seeking"
  BY <1>1, UserIsWoken
<1>3. bg'.at = "ended" /\ bg'.fifo = bg.fifo /\ bg'.todo = bg.todo /\ bg'.error = bg.error
  BY <1>1 DEF TypeOK
<1>4. TypeOK'
  <2>1. user'.at \in Ats /\ user'.todo \in Nat
    BY <1>2 DEF User
  <2>. QED BY <1>1, <2>1 DEF TypeOK, FifoSize, FifoSpace, Unsigned, Errors, Ats
<1>5. RingHolds' /\ Held' = Held
  BY <1>3, RingIsKept DEF IInv, Filling
<1>6. IsAtRing' /\ Prefetches' /\ SeekArrives'
  BY <1>3 DEF IsAtRing, Prefetches, SeekArrives
<1>7. CallProgress' /\ ReadsStream' /\ EofIsReal'
  BY <1>1, CallIsKept DEF IInv
<1>8. RequestIsAwaited'
  BY <1>2 DEF IInv, RequestIsAwaited, Seeking, User
<1>9. EndIsReached'
  BY <1>3 DEF EndIsReached
<1>. QED BY <1>2, <1>4, <1>5, <1>6, <1>7, <1>8, <1>9 DEF IInv, Types

LEMMA SleepsKeeps ==
    ASSUME IInv, bg.at = "loop", UNCHANGED abort, Sleeps PROVE IInv'
<1>. USE DEF Sleeps, ring, io, inner
<1>1. TypeOK /\ user \in User /\ bg' = [bg EXCEPT !.at = "asleep"] /\ WakesUser
  BY DEF IInv, Types
<1>2. /\ user' \in User /\ user' = [user EXCEPT !.at = user'.at]
      /\ \/ user'.at = user.at
         \/ user.at = "readwait" /\ user'.at = "read"
         \/ user.at = "seekwait" /\ user'.at = "seeking"
  BY <1>1, UserIsWoken
<1>3. bg'.at = "asleep" /\ bg'.fifo = bg.fifo /\ bg'.todo = bg.todo /\ bg'.error = bg.error
  BY <1>1 DEF TypeOK
<1>4. TypeOK'
  <2>1. user'.at \in Ats /\ user'.todo \in Nat
    BY <1>2 DEF User
  <2>. QED BY <1>1, <2>1 DEF TypeOK, FifoSize, FifoSpace, Unsigned, Errors, Ats
<1>5. RingHolds' /\ Held' = Held
  BY <1>3, RingIsKept DEF IInv, Filling
<1>6. CallProgress' /\ ReadsStream' /\ EofIsReal'
  BY <1>1, CallIsKept DEF IInv
<1>7. IsAtRing'
  BY <1>2, <1>5 DEF IInv, IsAtRing, Position, Seeking
<1>8. RequestIsAwaited'
  BY <1>2 DEF IInv, RequestIsAwaited, Seeking, User
<1>9. EndIsReached' /\ Prefetches'
  BY <1>3 DEF IInv, EndIsReached, Prefetches, RingSpace, FifoSpace, FifoSize, Unsigned
<1>10. SeekArrives'
  BY <1>2 DEF IInv, SeekArrives, User, Lesser
<1>. QED BY <1>2, <1>4, <1>5, <1>6, <1>7, <1>8, <1>9, <1>10 DEF IInv, Types

LEMMA StartsToFillKeeps ==
    ASSUME IInv, bg.at = "loop", UNCHANGED abort, StartsToFill PROVE IInv'
<1>. USE DEF StartsToFill, ring, io, inner
<1>1. TypeOK /\ user \in User /\ FifoSize(fifo) \in 0..Capacity
      /\ RingSpace = Capacity - FifoSize(fifo)
  BY RingTypes DEF IInv, Types
<1>2. /\ bg'.at = "fill" /\ bg'.fifo = fifo /\ bg'.error = "none"
      /\ bg'.todo = Lesser(MaxCopy, RingSpace)
  OBVIOUS
<1>3. bg'.todo \in 1..MaxCopy /\ bg'.todo <= RingSpace
  BY <1>1, <1>2, FifoBufferAssumption, AsyncReaderAssumption DEF Lesser
<1>4. TypeOK'
  <2>1. bg' \in [at : {"loop", "asleep", "fill", "filled", "written", "failed", "ended"},
                 fifo : Fifo, todo : 0..MaxCopy, error : Errors]
    <3>1. bg'.todo \in 0..MaxCopy
      BY <1>3, AsyncReaderAssumption
    <3>. QED BY <1>1, <1>2, <3>1 DEF TypeOK, Errors
  <2>. QED BY <1>1, <2>1 DEF TypeOK, FifoSize, FifoSpace, Unsigned
<1>5. Ahead = 0 /\ Held = FifoSize(fifo)
  BY <1>1 DEF Ahead, Held, Filling
<1>6. Ahead' = 0 /\ Held' = Held
  <2>1. fifo'.wndx \in 0..IndexRange - 1 /\ bg'.fifo.wndx = fifo'.wndx
    BY <1>1, <1>2 DEF TypeOK, Fifo
  <2>2. Unsigned(bg'.fifo.wndx - fifo'.wndx) = 0
    BY <2>1, FifoBufferAssumption DEF Unsigned
  <2>3. Ahead' = 0
    BY <2>2, <1>2 DEF Ahead, Filling, Unsigned
  <2>4. FifoSize(fifo)' = FifoSize(fifo)
    BY DEF FifoSize, Unsigned
  <2>. QED BY <2>3, <2>4, <1>5, <1>1 DEF Held
<1>7. RingHolds'
  <2>1. Held' + bg'.todo <= Capacity /\ Held' <= Capacity
    BY <1>1, <1>3, <1>5, <1>6, FifoBufferAssumption, AsyncReaderAssumption
  <2>2. FifoSize(fifo)' = Held
    BY <1>5 DEF FifoSize, Unsigned
  <2>3. /\ fifo.wptr = AtEnd(fifo.rptr + Held)
        /\ \A i \in 0..Held - 1 : memory[AtEnd(fifo.rptr + i)] = (innerPos - Held) + i
    BY <1>5 DEF IInv, RingHolds
  <2>. QED BY <1>2, <1>6, <2>1, <2>2, <2>3 DEF RingHolds, AtEnd
<1>8. IsAtRing' /\ RequestIsAwaited' /\ CallProgress'
  BY <1>6 DEF IInv, IsAtRing, Position, Seeking, RequestIsAwaited, CallProgress
<1>9. EndIsReached' /\ Prefetches'
  BY <1>2 DEF IInv, EndIsReached, Prefetches
<1>10. ReadsStream' /\ EofIsReal' /\ SeekArrives'
  BY DEF IInv, ReadsStream, EofIsReal, SeekArrives, Lesser
<1>. QED BY <1>1, <1>4, <1>7, <1>8, <1>9, <1>10 DEF IInv, Types

LEMMA ReportKeeps ==
    ASSUME IInv, Report PROVE IInv'
<1>. USE DEF Report, ring, io, inner
<1>1. TypeOK /\ user \in User /\ bg' = Looping /\ WakesUser /\ bg.at \in {"written", "failed"}
  BY DEF IInv, Types
<1>2. /\ user' \in User /\ user' = [user EXCEPT !.at = user'.at]
      /\ \/ user'.at = user.at
         \/ user.at = "readwait" /\ user'.at = "read"
         \/ user.at = "seekwait" /\ user'.at = "seeking"
  BY <1>1, UserIsWoken
<1>3. bg'.at = "loop" /\ bg'.error = "none"
  BY <1>1 DEF Looping
<1>4. TypeOK'
  <2>1. user'.at \in Ats /\ user'.todo \in Nat
    BY <1>2 DEF User
  <2>2. bg' \in [at : {"loop", "asleep", "fill", "filled", "written", "failed", "ended"},
                 fifo : Fifo, todo : 0..MaxCopy, error : Errors]
    <3>1. Reset \in Fifo
      BY FifoBufferAssumption DEF Reset, Fifo
    <3>. QED BY <1>1, <3>1, AsyncReaderAssumption DEF Looping, Errors
  <2>3. ioError' \in Errors /\ ioEof' \in BOOLEAN
    BY <1>1 DEF TypeOK, Errors
  <2>. QED BY <1>1, <2>1, <2>2, <2>3 DEF TypeOK, FifoSize, FifoSpace, Unsigned, Errors, Ats
<1>5. RingHolds' /\ Held' = Held
  BY <1>1, <1>3, RingIsKept DEF IInv, Filling
<1>6. CallProgress' /\ ReadsStream' /\ EofIsReal'
  BY <1>1, CallIsKept DEF IInv
<1>7. IsAtRing'
  BY <1>2, <1>5 DEF IInv, IsAtRing, Position, Seeking
<1>8. RequestIsAwaited'
  BY <1>2 DEF IInv, RequestIsAwaited, Seeking, User
<1>9. EndIsReached' /\ Prefetches'
  BY <1>1, <1>3 DEF IInv, EndIsReached, Prefetches
<1>10. SeekArrives'
  <2>1. ~ioEof
    BY <1>1 DEF IInv, EndIsReached
  <2>. QED BY <1>2, <2>1 DEF IInv, SeekArrives, User, Lesser
<1>. QED BY <1>2, <1>4, <1>5, <1>6, <1>7, <1>8, <1>9, <1>10 DEF IInv, Types

LEMMA SeeksKeeps ==
    ASSUME IInv, bg.at = "loop", ~abort, UNCHANGED abort, Seeks PROVE IInv'
<1>. USE DEF Seeks, ring, io
<1>1. TypeOK /\ user \in User /\ WakesUser /\ ~Filling
  BY DEF IInv, Types, Filling
<1>2. /\ user' \in User /\ user' = [user EXCEPT !.at = user'.at]
      /\ \/ user'.at = user.at
         \/ user.at = "readwait" /\ user'.at = "read"
         \/ user.at = "seekwait" /\ user'.at = "seeking"
  BY <1>1, UserIsWoken
<1>3. /\ seek.pos \in 0..StreamSize /\ ~seek.completed /\ Seeking
      /\ seek.pos = user.target
  BY DEF IInv, RequestIsAwaited
<1>4. Seeking' /\ user'.target = user.target /\ user'.at # "idle"
  BY <1>2, <1>3 DEF Seeking, User
<1>5. PICK ret \in {seek.pos, None} :
        /\ seek' = [seek EXCEPT !.request = FALSE, !.completed = TRUE, !.ret = ret]
        /\ IF ret = None
           THEN faults < MaxFaults /\ faults' = faults + 1 /\ UNCHANGED <<ring, io, innerPos>>
           ELSE /\ innerPos' = ret /\ ioError' = "none" /\ ioEof' = FALSE
                /\ fifo' = Reset /\ readPos' = 0 /\ UNCHANGED <<memory, faults>>
  OBVIOUS
<1>6. /\ seek'.request = FALSE /\ seek'.completed = TRUE /\ seek'.ret = ret
      /\ seek'.pos = seek.pos
      /\ seek' \in [request : BOOLEAN, pos : Nat, completed : BOOLEAN, ret : Nat \union {None}]
  <2>1. ret \in Nat \union {None}
    BY <1>3, <1>5, AsyncReaderAssumption
  <2>. QED BY <1>1, <1>5, <2>1 DEF TypeOK
<1>7. CallProgress' /\ ReadsStream' /\ EofIsReal'
  BY <1>1, CallIsKept DEF IInv
<1>8. RequestIsAwaited' /\ SeekArrives'
  BY <1>2, <1>3, <1>4, <1>6 DEF IInv, RequestIsAwaited, SeekArrives, Seeking
<1>9. user'.at \in Ats /\ user'.todo \in Nat
  BY <1>2 DEF User
<1>10. CASE ret = None
  <2>1. UNCHANGED <<ring, io, innerPos>> /\ faults < MaxFaults /\ faults' = faults + 1
    BY <1>5, <1>10
  <2>2. faults' \in 0..MaxFaults
    BY <1>1, <2>1, AsyncReaderAssumption DEF TypeOK
  <2>3. TypeOK'
    BY <1>1, <1>6, <1>9, <2>1, <2>2 DEF TypeOK, FifoSize, FifoSpace, Unsigned, Errors, Ats
  <2>4. RingHolds' /\ Held' = Held
    BY <1>1, <2>1, RingIsKept DEF IInv, Filling
  <2>5. IsAtRing'
    BY <1>3, <1>6, <1>10, <2>1, <2>4 DEF IInv, IsAtRing, Position
  <2>6. EndIsReached' /\ Prefetches'
    BY <1>1, <2>1 DEF IInv, EndIsReached, Prefetches, Filling
  <2>. QED BY <1>2, <1>7, <1>8, <2>3, <2>4, <2>5, <2>6 DEF IInv, Types
<1>11. CASE ret # None
  <2>1. /\ innerPos' = seek.pos /\ ioError' = "none" /\ ioEof' = FALSE /\ fifo' = Reset
        /\ readPos' = 0 /\ memory' = memory /\ faults' = faults
    BY <1>5, <1>11
  <2>2. FifoSize(fifo)' = 0 /\ Ahead' = 0 /\ Held' = 0 /\ fifo' \in Fifo /\ ~Filling'
    <3>1. FifoSize(fifo)' = 0 /\ fifo' \in Fifo
      BY <2>1, FifoBufferAssumption DEF FifoSize, Unsigned, Reset, Fifo
    <3>2. ~Filling'
      BY <1>1 DEF Filling
    <3>3. Ahead' = 0
      BY <3>2 DEF Ahead
    <3>. QED BY <3>1, <3>2, <3>3 DEF Held
  <2>3. TypeOK'
    <3>1. FifoSpace(fifo)' >= 0 /\ readPos' \in 0..ReadBackCapacity /\ readPos' <= FifoSize(fifo)'
      BY <2>1, <2>2, FifoBufferAssumption, AsyncReaderAssumption DEF FifoSpace, FifoSize
    <3>. QED BY <1>1, <1>3, <1>6, <1>9, <2>1, <2>2, <3>1 DEF TypeOK, Errors, Ats
  <2>4. RingHolds'
    <3>1. fifo'.wptr = AtEnd(fifo'.rptr + 0)
      BY <2>1, FifoBufferAssumption DEF Reset, AtEnd
    <3>. QED BY <2>2, <3>1, FifoBufferAssumption DEF RingHolds, FifoSize
  <2>5. IsAtRing'
    BY <1>3, <1>4, <1>5, <1>6, <1>11, <2>1, <2>2 DEF IsAtRing, Position
  <2>6. EndIsReached' /\ Prefetches'
    BY <1>1, <2>1 DEF IInv, EndIsReached, Prefetches, Filling
  <2>. QED BY <1>2, <1>7, <1>8, <2>3, <2>4, <2>5, <2>6 DEF IInv, Types
<1>. QED BY <1>10, <1>11

LEMMA PublishKeeps ==
    ASSUME IInv, Publish PROVE IInv'
<1>. USE DEF Publish, io, inner
<1>1. /\ TypeOK /\ user \in User /\ bg.at = "filled" /\ Filling
      /\ FifoSize(fifo) \in 0..Capacity /\ Ahead \in Nat /\ Held = FifoSize(fifo) + Ahead
      /\ Held <= Capacity
  BY RingTypes DEF IInv, Types, RingHolds, Filling
<1>2. /\ fifo' \in Fifo /\ fifo'.wptr = bg.fifo.wptr /\ fifo'.wndx = bg.fifo.wndx
      /\ fifo'.rptr = fifo.rptr /\ fifo'.rndx = fifo.rndx
  BY <1>1 DEF TypeOK, Fifo
<1>3. FifoSize(fifo)' = Held
  <2>1. Ahead = Unsigned(bg.fifo.wndx - fifo.wndx)
    BY <1>1 DEF Ahead
  <2>2. /\ fifo.wndx \in 0..IndexRange - 1 /\ fifo.rndx \in 0..IndexRange - 1
        /\ bg.fifo.wndx \in 0..IndexRange - 1
    BY <1>1 DEF TypeOK, Fifo
  <2>3. Unsigned(fifo.wndx - fifo.rndx) + Unsigned(bg.fifo.wndx - fifo.wndx) < IndexRange
    BY <1>1, <2>1, FifoBufferAssumption DEF FifoSize
  <2>4. Unsigned(bg.fifo.wndx - fifo.rndx)
          = Unsigned(fifo.wndx - fifo.rndx) + Unsigned(bg.fifo.wndx - fifo.wndx)
    BY <2>2, <2>3, UnsignedSum
  <2>. QED BY <1>1, <1>2, <2>1, <2>4 DEF FifoSize
<1>4. /\ bg'.at = (IF Ahead = 0 THEN "failed" ELSE "written") /\ bg'.fifo = Reset /\ bg'.todo = 0
      /\ bg'.error = bg.error
  <2>1. Ahead = 0 <=> bg.fifo.wndx = fifo.wndx
    <3>1. bg.fifo.wndx \in 0..IndexRange - 1 /\ fifo.wndx \in 0..IndexRange - 1
      BY <1>1 DEF TypeOK, Fifo
    <3>2. Unsigned(bg.fifo.wndx - fifo.wndx) = 0 <=> bg.fifo.wndx = fifo.wndx
      BY ONLY <3>1, UnsignedType
    <3>. QED BY <1>1, <3>2 DEF Ahead
  <2>. QED BY <1>1, <2>1 DEF TypeOK
<1>5. Held' = Held /\ ~Filling'
  <2>1. ~Filling' /\ Ahead' = 0
    BY <1>4 DEF Filling, Ahead
  <2>. QED BY <1>1, <1>3, <2>1 DEF Held
<1>6. TypeOK'
  <2>1. bg' \in [at : {"loop", "asleep", "fill", "filled", "written", "failed", "ended"},
                 fifo : Fifo, todo : 0..MaxCopy, error : Errors]
    <3>1. Reset \in Fifo
      BY FifoBufferAssumption DEF Reset, Fifo
    <3>2. 0 \in 0..MaxCopy
      BY AsyncReaderAssumption
    <3>. QED BY <1>1, <3>1, <3>2 DEF TypeOK
  <2>2. FifoSpace(fifo)' >= 0 /\ readPos <= FifoSize(fifo)'
    <3>1. Held \in Nat /\ readPos <= Held
      BY <1>1 DEF TypeOK
    <3>2. FifoSpace(fifo)' = Capacity - Held
      BY <1>3 DEF FifoSpace, FifoSize
    <3>. QED BY <1>1, <1>3, <3>1, <3>2, FifoBufferAssumption
  <2>. QED BY <1>1, <1>2, <2>1, <2>2 DEF TypeOK, FifoSize, FifoSpace
<1>7. RingHolds'
  BY <1>1, <1>2, <1>3, <1>5 DEF IInv, RingHolds, AtEnd
<1>8. IsAtRing' /\ RequestIsAwaited' /\ CallProgress'
  BY <1>5 DEF IInv, IsAtRing, Position, Seeking, RequestIsAwaited, CallProgress
<1>9. EndIsReached' /\ Prefetches'
  BY <1>1, <1>4 DEF IInv, EndIsReached, Prefetches
<1>10. ReadsStream' /\ EofIsReal' /\ SeekArrives'
  BY DEF IInv, ReadsStream, EofIsReal, SeekArrives, Lesser
<1>. QED BY <1>1, <1>6, <1>7, <1>8, <1>9, <1>10 DEF IInv, Types

\* What Fill does with a piece of n.
Fills(n) ==
    /\ memory' = [s \in 0..Capacity - 1 |->
                    IF s \in bg.fifo.wptr..bg.fifo.wptr + n - 1
                    THEN innerPos + (s - bg.fifo.wptr) ELSE memory[s]]
    /\ innerPos' = innerPos + n
    /\ bg' = [bg EXCEPT !.fifo = Written(bg.fifo, n), !.todo = @ - n, !.error = "none",
                        !.at = IF bg.todo = n THEN "filled" ELSE "fill"]

\* A piece is written behind what is held, and overwrites none of it.
LEMMA PieceIsWritten ==
    ASSUME IInv, bg.at = "fill", NEW n \in Int, 1 <= n,
           n <= Lesser(PieceSize(bg.fifo, bg.todo), StreamSize - innerPos),
           Fills(n), UNCHANGED fifo
    PROVE  /\ RingHolds' /\ Held' = Held + n /\ Ahead' = Ahead + n
           /\ bg'.at \in {"fill", "filled"} /\ bg'.error = "none"
           /\ bg' \in [at : {"loop", "asleep", "fill", "filled", "written", "failed", "ended"},
                       fifo : Fifo, todo : 0..MaxCopy, error : Errors]
           /\ memory' \in [0..Capacity - 1 -> Int \union {None}]
           /\ innerPos' \in 0..StreamSize
<1>1. /\ TypeOK /\ Filling /\ FifoSize(fifo) \in 0..Capacity /\ Ahead \in Nat
      /\ Held = FifoSize(fifo) + Ahead /\ Held \in Nat /\ Held + bg.todo <= Capacity
      /\ Ahead = Unsigned(bg.fifo.wndx - fifo.wndx)
      /\ bg.fifo.wptr = AtEnd(fifo.rptr + Held) /\ fifo.wptr = AtEnd(fifo.rptr + FifoSize(fifo))
  BY RingTypes DEF IInv, Types, RingHolds, Filling, Ahead
<1>2. /\ innerPos \in 0..StreamSize /\ bg.todo \in 0..MaxCopy /\ bg.fifo.wptr \in 0..Capacity - 1
      /\ fifo.rptr \in 0..Capacity - 1 /\ bg.fifo.wndx \in 0..IndexRange - 1
      /\ fifo.wndx \in 0..IndexRange - 1
  BY <1>1 DEF TypeOK, Fifo
<1>3. n \in Nat /\ n >= 1 /\ n <= bg.todo /\ n <= StreamSize - innerPos
      /\ bg.fifo.wptr + n <= Capacity
  BY <1>2, FifoBufferAssumption, AsyncReaderAssumption DEF Lesser, PieceSize
<1>4. /\ bg'.at = (IF bg.todo = n THEN "filled" ELSE "fill") /\ bg'.fifo = Written(bg.fifo, n)
      /\ bg'.todo = bg.todo - n /\ bg'.error = "none"
  BY <1>1 DEF Fills, TypeOK
<1>5. /\ bg'.fifo.wptr = AtEnd(bg.fifo.wptr + n) /\ bg'.fifo.wndx = Unsigned(bg.fifo.wndx + n)
      /\ bg'.fifo.wptr \in 0..Capacity - 1
  <2>1. bg.fifo \in Fifo
    BY <1>1 DEF TypeOK
  <2>2. /\ bg'.fifo.wptr = (IF bg.fifo.wptr + n >= Capacity THEN 0 ELSE bg.fifo.wptr + n)
        /\ bg'.fifo.wndx = Unsigned(bg.fifo.wndx + n)
    BY <1>4, <2>1 DEF Written, Fifo
  <2>. QED BY <1>2, <1>3, <2>2, FifoBufferAssumption DEF AtEnd
<1>6. /\ bg'.fifo.wndx \in 0..IndexRange - 1
      /\ Unsigned(bg'.fifo.wndx - fifo.wndx) = Ahead + n
  <2>1. Unsigned(bg.fifo.wndx - fifo.wndx) + n < IndexRange
    BY <1>1, <1>2, <1>3, FifoBufferAssumption
  <2>. QED BY <1>1, <1>2, <1>3, <1>5, <2>1, UnsignedAdd
<1>7. bg'.fifo \in Fifo
  BY <1>1, <1>4, <1>5, <1>6 DEF Written, TypeOK, Fifo
<1>8. bg' \in [at : {"loop", "asleep", "fill", "filled", "written", "failed", "ended"},
               fifo : Fifo, todo : 0..MaxCopy, error : Errors]
  <2>1. bg.todo - n \in 0..MaxCopy
    BY <1>2, <1>3, AsyncReaderAssumption
  <2>. QED BY <1>1, <1>4, <1>7, <2>1 DEF Fills, TypeOK, Errors
<1>9. Ahead' = Ahead + n /\ FifoSize(fifo)' = FifoSize(fifo) /\ Filling'
  <2>1. Filling'
    BY <1>4 DEF Filling
  <2>. QED BY <1>6, <2>1 DEF Ahead, FifoSize, Unsigned
<1>10. Held' = Held + n
  BY <1>1, <1>3, <1>9 DEF Held
<1>11. /\ memory' = [s \in 0..Capacity - 1 |->
                        IF s \in bg.fifo.wptr..bg.fifo.wptr + n - 1
                        THEN innerPos + (s - bg.fifo.wptr) ELSE memory[s]]
       /\ memory' \in [0..Capacity - 1 -> Int \union {None}]
       /\ innerPos' = innerPos + n /\ innerPos' \in 0..StreamSize
  <2>1. innerPos + n \in 0..StreamSize
    BY <1>2, <1>3, AsyncReaderAssumption
  <2>2. memory \in [0..Capacity - 1 -> Int \union {None}]
    BY <1>1 DEF TypeOK
  <2>3. \A s \in 0..Capacity - 1 :
           (IF s \in bg.fifo.wptr..bg.fifo.wptr + n - 1
            THEN innerPos + (s - bg.fifo.wptr) ELSE memory[s]) \in Int \union {None}
    <3>1. innerPos \in Int /\ bg.fifo.wptr \in Int /\ Capacity \in Int
      BY <1>2, FifoBufferAssumption, AsyncReaderAssumption
    <3>2. \A s \in 0..Capacity - 1 : innerPos + (s - bg.fifo.wptr) \in Int /\ memory[s] \in Int \union {None}
      BY ONLY <2>2, <3>1
    <3>. QED BY ONLY <3>2
  <2>. QED BY <2>1, <2>3 DEF Fills
<1>12. bg'.fifo.wptr = AtEnd(fifo.rptr + Held')
  <2>1. AtEnd(AtEnd(fifo.rptr + Held) + n) = AtEnd(fifo.rptr + (Held + n))
    BY <1>1, <1>2, <1>3, FifoBufferAssumption, AtEndAdd
  <2>. QED BY <1>1, <1>5, <1>10, <2>1
<1>13. ASSUME NEW i \in 0..Held' - 1
       PROVE  memory'[AtEnd(fifo.rptr + i)] = (innerPos' - Held') + i
  <2>1. /\ i \in 0..Capacity - 1 /\ AtEnd(fifo.rptr + i) \in 0..Capacity - 1
    BY <1>1, <1>2, <1>3, <1>10, FifoBufferAssumption, AtEndType
  <2>2. innerPos' - Held' = innerPos - Held
    BY <1>1, <1>2, <1>10, <1>11
  <2>3. CASE i < Held
    <3>1. AtEnd(fifo.rptr + i) \notin bg.fifo.wptr..bg.fifo.wptr + n - 1
      <4>1. SUFFICES ASSUME NEW k \in 0..n - 1, AtEnd(fifo.rptr + i) = bg.fifo.wptr + k
                     PROVE  FALSE
        <5>1. ASSUME AtEnd(fifo.rptr + i) \in bg.fifo.wptr..bg.fifo.wptr + n - 1
              PROVE  /\ AtEnd(fifo.rptr + i) - bg.fifo.wptr \in 0..n - 1
                     /\ AtEnd(fifo.rptr + i)
                          = bg.fifo.wptr + (AtEnd(fifo.rptr + i) - bg.fifo.wptr)
          BY <1>2, <1>3, <2>1, <5>1
        <5>. QED BY <5>1
      <4>2. bg.fifo.wptr + k = AtEnd(bg.fifo.wptr + k)
        BY <1>2, <1>3, FifoBufferAssumption DEF AtEnd
      <4>3. AtEnd(AtEnd(fifo.rptr + Held) + k) = AtEnd(fifo.rptr + (Held + k))
        BY <1>1, <1>2, <1>3, FifoBufferAssumption, AtEndAdd
      <4>4. Held + k \in 0..Capacity - 1 /\ Held + k # i
        BY <1>1, <1>2, <1>3, <2>3, FifoBufferAssumption
      <4>5. AtEnd(fifo.rptr + (Held + k)) # AtEnd(fifo.rptr + i)
        BY <1>2, <2>1, <4>4, AtEndDiffers
      <4>. QED BY <1>1, <4>1, <4>2, <4>3, <4>5
    <3>2. memory'[AtEnd(fifo.rptr + i)] = memory[AtEnd(fifo.rptr + i)]
      BY <1>11, <2>1, <3>1
    <3>3. memory[AtEnd(fifo.rptr + i)] = (innerPos - Held) + i
      BY <1>1, <2>1, <2>3 DEF IInv, RingHolds
    <3>. QED BY <2>2, <3>2, <3>3
  <2>4. CASE i >= Held
    <3>1. PICK k \in 0..n - 1 : i = Held + k
      <4>1. i - Held \in 0..n - 1 /\ i = Held + (i - Held)
        BY <1>1, <1>3, <1>10, <2>1, <2>4
      <4>. QED BY <4>1
    <3>2. AtEnd(fifo.rptr + i) = bg.fifo.wptr + k
      <4>1. AtEnd(AtEnd(fifo.rptr + Held) + k) = AtEnd(fifo.rptr + (Held + k))
        BY <1>1, <1>2, <1>3, FifoBufferAssumption, AtEndAdd
      <4>2. bg.fifo.wptr + k = AtEnd(bg.fifo.wptr + k)
        BY <1>2, <1>3, FifoBufferAssumption DEF AtEnd
      <4>. QED BY <1>1, <3>1, <4>1, <4>2
    <3>3. memory'[AtEnd(fifo.rptr + i)] = innerPos + k
      <4>1. bg.fifo.wptr + k \in bg.fifo.wptr..bg.fifo.wptr + n - 1
            /\ (bg.fifo.wptr + k) - bg.fifo.wptr = k
        BY <1>2, <1>3
      <4>. QED BY <1>11, <2>1, <3>2, <4>1
    <3>. QED BY <1>1, <1>2, <2>2, <3>1, <3>3
  <2>. QED BY <1>1, <2>1, <2>3, <2>4
<1>14. RingHolds'
  <2>1. Held' <= Capacity /\ Held' + bg'.todo <= Capacity
    BY <1>1, <1>2, <1>3, <1>4, <1>10, FifoBufferAssumption
  <2>2. fifo'.wptr = AtEnd(fifo'.rptr + FifoSize(fifo)')
    BY <1>1, <1>9
  <2>. QED BY <1>9, <1>12, <1>13, <2>1, <2>2 DEF RingHolds, AtEnd, FifoSize
<1>. QED BY <1>4, <1>8, <1>9, <1>10, <1>11, <1>14

LEMMA FillKeeps ==
    ASSUME IInv, Fill PROVE IInv'
<1>1. /\ TypeOK /\ user \in User /\ bg.at = "fill" /\ Filling /\ ~ioEof
      /\ FifoSize(fifo) \in 0..Capacity /\ Ahead \in Nat /\ Held = FifoSize(fifo) + Ahead
  BY RingTypes DEF IInv, Types, EndIsReached, Filling, Fill
<1>2. UNCHANGED <<fifo, readPos, seek, ioError, ioEof, logicalPos, seekable, user>>
  BY DEF Fill, io
<1>3. CallProgress' /\ ReadsStream' /\ EofIsReal'
  BY <1>2 DEF IInv, CallProgress, ReadsStream, EofIsReal
<1>4. CASE \E n \in 1..Lesser(PieceSize(bg.fifo, bg.todo), StreamSize - innerPos) :
              Fills(n) /\ UNCHANGED <<faults, abort>>
  <2>1. PICK n \in Int : /\ 1 <= n
                         /\ n <= Lesser(PieceSize(bg.fifo, bg.todo), StreamSize - innerPos)
                         /\ Fills(n) /\ UNCHANGED <<faults, abort>>
    <3>1. Lesser(PieceSize(bg.fifo, bg.todo), StreamSize - innerPos) \in Int
      <4>1. bg.todo \in 0..MaxCopy /\ bg.fifo.wptr \in 0..Capacity - 1 /\ innerPos \in 0..StreamSize
        BY <1>1 DEF TypeOK, Fifo
      <4>. QED BY <4>1, FifoBufferAssumption, AsyncReaderAssumption DEF Lesser, PieceSize
    <3>. QED BY <1>4, <3>1
  <2>2. /\ RingHolds' /\ Held' = Held + n /\ Ahead' = Ahead + n
        /\ bg'.at \in {"fill", "filled"} /\ bg'.error = "none"
        /\ bg' \in [at : {"loop", "asleep", "fill", "filled", "written", "failed", "ended"},
                    fifo : Fifo, todo : 0..MaxCopy, error : Errors]
        /\ memory' \in [0..Capacity - 1 -> Int \union {None}]
        /\ innerPos' \in 0..StreamSize
    BY <1>1, <1>2, <2>1, PieceIsWritten
  <2>3. innerPos' = innerPos + n /\ innerPos \in Int
    BY <1>1, <2>1 DEF Fills, TypeOK
  <2>4. TypeOK'
    BY <1>1, <1>2, <2>1, <2>2 DEF TypeOK, FifoSize, FifoSpace, Unsigned, Errors
  <2>5. IsAtRing'
    <3>1. innerPos' - Held' = innerPos - Held
      BY <1>1, <2>1, <2>2, <2>3, FifoBufferAssumption
    <3>. QED BY <1>2, <2>1, <3>1 DEF IInv, IsAtRing, Position, Seeking
  <2>6. RequestIsAwaited' /\ SeekArrives'
    BY <1>2, <2>1 DEF IInv, RequestIsAwaited, Seeking, SeekArrives, Lesser
  <2>7. EndIsReached' /\ Prefetches'
    <3>1. Ahead' # 0
      BY <1>1, <2>1, <2>2
    <3>. QED BY <1>1, <1>2, <2>1, <2>2, <3>1 DEF IInv, EndIsReached, Prefetches
  <2>. QED BY <1>1, <1>2, <1>3, <2>2, <2>4, <2>5, <2>6, <2>7 DEF IInv, Types
<1>5. CASE \E error \in {"eof", "error", "exit"} :
              /\ error = "eof" => innerPos = StreamSize /\ UNCHANGED <<faults, abort>>
              /\ error = "error" => faults < MaxFaults /\ faults' = faults + 1 /\ UNCHANGED abort
              /\ error = "exit" => abort' = TRUE /\ UNCHANGED faults
              /\ bg' = [bg EXCEPT !.at = "filled", !.error = error]
              /\ UNCHANGED <<memory, innerPos>>
  <2>1. PICK error \in {"eof", "error", "exit"} :
              /\ error = "eof" => innerPos = StreamSize /\ UNCHANGED <<faults, abort>>
              /\ error = "error" => faults < MaxFaults /\ faults' = faults + 1 /\ UNCHANGED abort
              /\ error = "exit" => abort' = TRUE /\ UNCHANGED faults
              /\ bg' = [bg EXCEPT !.at = "filled", !.error = error]
              /\ UNCHANGED <<memory, innerPos>>
    BY <1>5
  <2>2. /\ bg'.at = "filled" /\ bg'.error = error /\ bg'.fifo = bg.fifo /\ bg'.todo = bg.todo
        /\ bg' \in [at : {"loop", "asleep", "fill", "filled", "written", "failed", "ended"},
                    fifo : Fifo, todo : 0..MaxCopy, error : Errors]
    BY <1>1, <2>1 DEF TypeOK, Errors
  <2>3. Filling' = Filling
    BY <1>1, <2>2 DEF Filling
  <2>4. RingHolds' /\ Held' = Held
    BY <1>2, <2>1, <2>2, <2>3, RingIsKept DEF IInv
  <2>5. faults' \in 0..MaxFaults /\ abort' \in BOOLEAN /\ (abort => abort')
        /\ (error = "exit" => abort') /\ (error = "eof" => innerPos' = StreamSize)
    <3>1. faults \in 0..MaxFaults /\ abort \in BOOLEAN
      BY <1>1 DEF TypeOK
    <3>2. faults < MaxFaults => faults + 1 \in 0..MaxFaults
      BY <3>1, AsyncReaderAssumption
    <3>. QED BY <2>1, <3>1, <3>2
  <2>6. TypeOK'
    BY <1>1, <1>2, <2>1, <2>2, <2>5 DEF TypeOK, FifoSize, FifoSpace, Unsigned, Errors
  <2>7. IsAtRing' /\ RequestIsAwaited' /\ SeekArrives'
    BY <1>2, <2>1, <2>4, <2>5
    DEF IInv, IsAtRing, Position, RequestIsAwaited, Seeking, SeekArrives, Lesser
  <2>8. EndIsReached' /\ Prefetches'
    BY <1>1, <1>2, <2>2, <2>5 DEF IInv, EndIsReached, Prefetches
  <2>. QED BY <1>1, <1>2, <1>3, <2>4, <2>6, <2>7, <2>8 DEF IInv, Types
<1>. QED BY <1>4, <1>5 DEF Fill, Fills

-----------------------------------------------------------------------------
(* The steps of the user                                                   *)

\* What is taken from the ring is drained from its other end when there is more
\* than the user may go back; what is kept is as far from the position as before.
LEMMA RingIsTaken ==
    ASSUME IInv, NEW n \in Nat, n <= RingSize, Takes(n), UNCHANGED innerPos, WakesThread
    PROVE  /\ RingHolds' /\ (innerPos' - Held') + readPos' = ((innerPos - Held) + readPos) + n
           /\ fifo' \in Fifo /\ readPos' \in 0..ReadBackCapacity /\ readPos' <= FifoSize(fifo)'
           /\ FifoSpace(fifo)' >= 0 /\ Ahead' = Ahead
<1>1. /\ TypeOK /\ FifoSize(fifo) \in 0..Capacity /\ Ahead \in Nat /\ Held \in Nat
      /\ Held = FifoSize(fifo) + Ahead /\ Held <= Capacity
      /\ fifo.wptr = AtEnd(fifo.rptr + FifoSize(fifo))
  BY RingTypes DEF IInv, Types, RingHolds
<1>2. /\ fifo \in Fifo /\ readPos \in 0..ReadBackCapacity /\ innerPos \in 0..StreamSize
      /\ fifo.rptr \in 0..Capacity - 1 /\ fifo.rndx \in 0..IndexRange - 1
      /\ fifo.wndx \in 0..IndexRange - 1 /\ bg.todo \in 0..MaxCopy
  BY <1>1 DEF TypeOK, Fifo
<1>3. readPos + n <= FifoSize(fifo)
  BY <1>1, <1>2, AsyncReaderAssumption DEF RingSize
<1>4. DEFINE d == IF readPos + n > ReadBackCapacity THEN readPos + n - ReadBackCapacity ELSE 0
<1>5. d \in Nat /\ d <= FifoSize(fifo) /\ readPos' = readPos + n - d
      /\ readPos' \in 0..ReadBackCapacity
  BY <1>1, <1>2, <1>3, AsyncReaderAssumption DEF Takes, Lesser
<1>. HIDE DEF d
<1>6. /\ fifo' \in Fifo /\ fifo'.wptr = fifo.wptr /\ fifo'.wndx = fifo.wndx
      /\ fifo'.rptr = AtEnd(fifo.rptr + d) /\ fifo'.rndx = Unsigned(fifo.rndx + d)
  <2>1. AtEnd(fifo.rptr + d) \in 0..Capacity - 1
    BY <1>1, <1>2, <1>5, FifoBufferAssumption, AtEndType
  <2>2. Unsigned(fifo.rndx + d) \in 0..IndexRange - 1
    BY <1>1, <1>2, <1>5, UnsignedSub DEF FifoSize
  <2>3. CASE readPos + n > ReadBackCapacity
    <3>1. fifo' = Drained(fifo, d)
      BY <2>3 DEF Takes, d
    <3>. QED BY <1>2, <2>1, <2>2, <3>1 DEF Drained, Fifo
  <2>4. CASE ~(readPos + n > ReadBackCapacity)
    <3>1. fifo' = fifo /\ d = 0
      BY <2>4 DEF Takes, d
    <3>2. AtEnd(fifo.rptr + 0) = fifo.rptr /\ Unsigned(fifo.rndx + 0) = fifo.rndx
      BY <1>2, FifoBufferAssumption DEF AtEnd, Unsigned
    <3>. QED BY <1>2, <3>1, <3>2
  <2>. QED BY <2>3, <2>4
<1>7. FifoSize(fifo)' = FifoSize(fifo) - d
  <2>1. Unsigned(fifo.wndx - Unsigned(fifo.rndx + d)) = Unsigned(fifo.wndx - fifo.rndx) - d
    BY <1>2, <1>5, UnsignedSub DEF FifoSize
  <2>. QED BY <1>6, <2>1 DEF FifoSize
<1>8. /\ bg'.fifo = bg.fifo /\ bg'.todo = bg.todo /\ Filling' = Filling
  BY <1>1, ThreadIsWoken DEF Filling
<1>9. Ahead' = Ahead
  BY <1>6, <1>8 DEF Ahead, Unsigned
<1>10. Held' = Held - d
  <2>1. Held' = FifoSize(fifo)' + Ahead'
    BY DEF Held
  <2>. QED BY <1>1, <1>5, <1>7, <1>9, <2>1
<1>11. (innerPos' - Held') + readPos' = ((innerPos - Held) + readPos) + n
  BY <1>1, <1>2, <1>5, <1>10, FifoBufferAssumption, AsyncReaderAssumption
<1>12. RingHolds'
  <2>1. Held' <= Capacity /\ (Filling' => Held' + bg'.todo <= Capacity)
    <3>1. Filling => Held + bg.todo <= Capacity
      BY DEF IInv, RingHolds
    <3>. QED BY <1>1, <1>2, <1>5, <1>8, <1>10, <3>1, FifoBufferAssumption, AsyncReaderAssumption
  <2>2. ASSUME NEW m \in Nat, d <= m, m <= Capacity
        PROVE  AtEnd(fifo'.rptr + (m - d)) = AtEnd(fifo.rptr + m)
    <3>1. m - d \in Nat /\ d + (m - d) = m
      BY <1>5, <2>2
    <3>. QED BY <1>2, <1>5, <1>6, <2>2, <3>1, AtEndAdd
  <2>3. fifo'.wptr = AtEnd(fifo'.rptr + FifoSize(fifo)')
    BY <1>1, <1>5, <1>6, <1>7, <2>2
  <2>4. Filling' => bg'.fifo.wptr = AtEnd(fifo'.rptr + Held')
    <3>1. d <= Held
      BY <1>1, <1>5, FifoBufferAssumption
    <3>2. Filling => bg.fifo.wptr = AtEnd(fifo.rptr + Held)
      BY DEF IInv, RingHolds
    <3>. QED BY <1>1, <1>8, <1>10, <2>2, <3>1, <3>2
  <2>5. ASSUME NEW i \in 0..Held' - 1
        PROVE  memory'[AtEnd(fifo'.rptr + i)] = (innerPos' - Held') + i
    <3>1. i \in Nat /\ d + i \in 0..Held - 1 /\ d + i <= Capacity
      BY <1>1, <1>5, <1>10, FifoBufferAssumption
    <3>2. AtEnd(fifo'.rptr + i) = AtEnd(fifo.rptr + (d + i))
      BY <1>2, <1>5, <1>6, <3>1, AtEndAdd
    <3>3. memory[AtEnd(fifo.rptr + (d + i))] = (innerPos - Held) + (d + i)
      BY <3>1 DEF IInv, RingHolds
    <3>4. memory' = memory
      BY DEF Takes
    <3>. QED BY <1>1, <1>2, <1>5, <1>10, <3>1, <3>2, <3>3, <3>4
  <2>. QED BY <2>1, <2>3, <2>4, <2>5 DEF RingHolds, AtEnd, FifoSize
<1>13. readPos' <= FifoSize(fifo)' /\ FifoSpace(fifo)' >= 0
  <2>1. FifoSpace(fifo)' = Capacity - FifoSize(fifo)'
    BY DEF FifoSpace, FifoSize
  <2>. QED BY <1>1, <1>2, <1>3, <1>5, <1>7, <2>1, FifoBufferAssumption, AsyncReaderAssumption
<1>. QED BY <1>5, <1>6, <1>9, <1>11, <1>12, <1>13

\* A step of a call that takes nothing from the ring.
LEMMA RingIsLeft ==
    ASSUME IInv, user' \in User, UNCHANGED <<fifo, memory, io, inner>>,
           readPos' \in 0..ReadBackCapacity, readPos' <= FifoSize(fifo), logicalPos' \in Nat,
           seek' \in [request : BOOLEAN, pos : Nat, completed : BOOLEAN, ret : Nat \union {None}],
           abort' \in BOOLEAN, abort => abort', WakesThread \/ UNCHANGED bg,
           seek'.request => seek.request \/ abort' \/ WakesThread
    PROVE  Types' /\ RingHolds' /\ Held' = Held /\ EndIsReached' /\ Prefetches'
<1>. USE DEF io, inner
<1>1. TypeOK
  BY DEF IInv, Types
<1>2. /\ bg'.fifo = bg.fifo /\ bg'.todo = bg.todo /\ bg'.error = bg.error
      /\ bg'.at = bg.at \/ (bg.at = "asleep" /\ bg'.at = "loop")
      /\ bg' \in [at : {"loop", "asleep", "fill", "filled", "written", "failed", "ended"},
                  fifo : Fifo, todo : 0..MaxCopy, error : Errors]
  BY <1>1, ThreadIsWoken DEF TypeOK
<1>3. Filling' = Filling
  BY <1>2 DEF Filling
<1>4. RingHolds' /\ Held' = Held /\ Ahead' = Ahead
  BY <1>2, <1>3, RingIsKept DEF IInv
<1>5. Types'
  <2>1. user'.at \in Ats /\ user'.todo \in Nat
    BY DEF User
  <2>2. FifoSize(fifo)' = FifoSize(fifo) /\ FifoSpace(fifo)' = FifoSpace(fifo)
    BY DEF FifoSize, FifoSpace, Unsigned
  <2>. QED BY <1>1, <1>2, <2>1, <2>2 DEF Types, TypeOK, Ats, Errors
<1>6. EndIsReached'
  BY <1>2, <1>4 DEF IInv, EndIsReached
<1>7. Prefetches'
  <2>1. RingSpace' = RingSpace
    BY DEF RingSpace, FifoSpace, FifoSize, Unsigned
  <2>2. WakesThread => bg'.at # "asleep"
    BY <1>1, ThreadIsWoken
  <2>. QED BY <1>2, <2>1, <2>2 DEF IInv, Prefetches
<1>. QED BY <1>4, <1>5, <1>6, <1>7

LEMMA IdleType == Idle \in User
<1>1. <<>> \in Seq(Int \union {None})
  OBVIOUS
<1>. QED BY <1>1 DEF Idle, User, Ats, Errors

LEMMA ReadKeeps ==
    ASSUME IInv, Read PROVE IInv'
<1>. USE DEF Read, ring, io, inner
<1>1. TypeOK /\ user \in User /\ user.at = "idle"
  BY DEF IInv, Types
<1>2. PICK n \in ReadSizes : user' = [Idle EXCEPT !.at = "read", !.todo = n, !.from = logicalPos]
  OBVIOUS
<1>3. /\ user'.at = "read" /\ user'.target = None /\ user'.ret = "none" /\ user'.data = <<>>
      /\ user'.from = logicalPos /\ user'.todo = n
  BY <1>2 DEF Idle
<1>4. user' \in User
  <2>1. n \in Nat /\ logicalPos \in Nat
    BY <1>1, AsyncReaderAssumption DEF TypeOK
  <2>. QED BY <1>2, <2>1, IdleType DEF User, Ats
<1>5. Types' /\ RingHolds' /\ Held' = Held /\ EndIsReached' /\ Prefetches'
  BY <1>1, <1>4, RingIsLeft DEF TypeOK
<1>6. IsAtRing' /\ RequestIsAwaited'
  BY <1>1, <1>3, <1>5 DEF IInv, IsAtRing, Position, RequestIsAwaited, Seeking
<1>7. CallProgress' /\ ReadsStream' /\ EofIsReal' /\ SeekArrives'
  <2>1. n > 0
    BY AsyncReaderAssumption
  <2>. QED BY <1>3, <2>1 DEF CallProgress, ReadsStream, EofIsReal, SeekArrives
<1>. QED BY <1>5, <1>6, <1>7 DEF IInv

LEMMA SeekKeeps ==
    ASSUME IInv, Seek PROVE IInv'
<1>1. /\ TypeOK /\ user \in User /\ user.at = "idle"
      /\ FifoSize(fifo) \in 0..Capacity /\ Ahead \in Nat /\ Held = FifoSize(fifo) + Ahead
  BY RingTypes DEF IInv, Types, Seek
<1>2. UNCHANGED <<fifo, memory, seek, io, abort, inner, bg>>
  BY DEF Seek
<1>3. /\ readPos \in 0..ReadBackCapacity /\ readPos <= FifoSize(fifo) /\ logicalPos \in Nat
      /\ innerPos \in 0..StreamSize
  BY <1>1 DEF TypeOK
<1>4. ~abort => logicalPos = (innerPos - Held) + readPos
  BY <1>1 DEF IInv, IsAtRing, Position, Seeking
<1>5. PICK p \in 0..StreamSize + ShortSeek + 1 :
        LET near == p >= logicalPos - readPos /\ p < logicalPos + RingSize + ShortSeek
            goes == [Idle EXCEPT !.target = p]
        IN
        \/ /\ p = logicalPos
           /\ user' = [goes EXCEPT !.ret = "ok"]
           /\ UNCHANGED <<readPos, logicalPos>>
        \/ /\ p > logicalPos /\ near
           /\ user' = [goes EXCEPT !.at = "read", !.todo = p - logicalPos]
           /\ UNCHANGED <<readPos, logicalPos>>
        \/ /\ p < logicalPos /\ near
           /\ readPos' = readPos + (p - logicalPos)
           /\ logicalPos' = p
           /\ user' = [goes EXCEPT !.ret = "ok"]
        \/ /\ p # logicalPos /\ ~near
           /\ user' = IF seekable /\ p <= StreamSize THEN [goes EXCEPT !.at = "seek"]
                                                      ELSE [goes EXCEPT !.ret = "invalid"]
           /\ UNCHANGED <<readPos, logicalPos>>
  BY DEF Seek
<1>6. p \in Nat /\ (p > logicalPos => p - logicalPos \in Nat)
  BY <1>3, AsyncReaderAssumption
<1>7. /\ user'.target = p /\ user'.data = <<>> /\ user'.from = None
      /\ user'.ret \in {"none", "ok", "invalid"} /\ user'.at \in {"idle", "read", "seek"}
  BY <1>5 DEF Idle
<1>8. /\ user'.at = "read" => p > logicalPos /\ user'.todo = p - logicalPos
                              /\ UNCHANGED <<readPos, logicalPos>>
      /\ user'.at = "seek" => p <= StreamSize
      /\ user'.ret = "ok" => user'.at = "idle" /\ logicalPos' = p
  BY <1>5 DEF Idle
<1>9. user' \in User
  <2>1. [Idle EXCEPT !.target = p] \in User
    BY <1>6, IdleType DEF User
  <2>. QED BY <1>5, <1>6, <2>1 DEF User, Ats, Errors
<1>10. /\ readPos' \in 0..ReadBackCapacity /\ readPos' <= FifoSize(fifo) /\ logicalPos' \in Nat
      /\ logicalPos' - readPos' = logicalPos - readPos
  BY <1>1, <1>3, <1>5, AsyncReaderAssumption
<1>11. Types' /\ RingHolds' /\ Held' = Held /\ EndIsReached' /\ Prefetches'
  BY <1>1, <1>2, <1>9, <1>10, RingIsLeft DEF TypeOK
<1>12. ~abort => logicalPos' = (innerPos - Held) + readPos'
  BY <1>1, <1>3, <1>4, <1>10, AsyncReaderAssumption
<1>13. IsAtRing'
  BY <1>2, <1>7, <1>8, <1>11, <1>12 DEF IsAtRing, Position, Seeking, inner
<1>14. RequestIsAwaited'
  BY <1>1, <1>2, <1>5, <1>7, <1>8 DEF IInv, RequestIsAwaited, Seeking
<1>15. CallProgress'
  BY <1>3, <1>5, <1>7, <1>8, AsyncReaderAssumption DEF CallProgress
<1>16. ReadsStream' /\ EofIsReal'
  BY <1>7, <1>8 DEF ReadsStream, EofIsReal
<1>17. SeekArrives'
  <2>1. ~abort => logicalPos' <= StreamSize
    BY <1>1, <1>3, <1>10, <1>12, AsyncReaderAssumption
  <2>. QED BY <1>2, <1>6, <1>7, <1>8, <1>10, <2>1, AsyncReaderAssumption DEF SeekArrives, Lesser
<1>. QED BY <1>11, <1>13, <1>14, <1>15, <1>16, <1>17 DEF IInv

\* A read that finds something in the ring
ReadTurnTakes(n) ==
    /\ Takes(n)
    /\ logicalPos' = logicalPos + n
    /\ IF Complete
       THEN user' = [user EXCEPT !.at = IF user.todo = n THEN "idle" ELSE "readwait",
                                 !.todo = @ - n,
                                 !.ret = IF user.todo = n THEN "ok" ELSE "none"]
       ELSE user' = [user EXCEPT !.at = "idle", !.todo = 0, !.ret = "ok",
                        !.data = [i \in 1..n |-> memory[PeekSlot(fifo, readPos, i - 1)]]]

LEMMA ReadTurnTakesKeeps ==
    ASSUME IInv, user.at = "read", ~abort, UNCHANGED <<abort, seek, io, inner>>, WakesThread,
           NEW n \in Int, n > 0, n <= user.todo, n <= RingSize, ReadTurnTakes(n)
    PROVE  IInv'
<1>1. /\ TypeOK /\ user \in User
      /\ FifoSize(fifo) \in 0..Capacity /\ Ahead \in Nat /\ Held = FifoSize(fifo) + Ahead
      /\ Held <= Capacity
  BY RingTypes DEF IInv, Types, RingHolds
<1>2. /\ readPos \in 0..ReadBackCapacity /\ readPos <= FifoSize(fifo) /\ logicalPos \in Nat
      /\ innerPos \in 0..StreamSize /\ fifo \in Fifo /\ user.todo \in Nat
  BY <1>1 DEF TypeOK, User
<1>3. /\ n \in Nat /\ readPos + n <= FifoSize(fifo) /\ logicalPos + n \in Nat
  BY <1>1, <1>2, AsyncReaderAssumption DEF RingSize
<1>4. UNCHANGED <<memory, innerPos, seekable, faults, ioError, ioEof>>
  BY DEF ReadTurnTakes, Takes, io, inner
<1>5. Takes(n) /\ logicalPos' = logicalPos + n
  BY DEF ReadTurnTakes
<1>6. /\ RingHolds' /\ (innerPos' - Held') + readPos' = ((innerPos - Held) + readPos) + n
      /\ fifo' \in Fifo /\ readPos' \in 0..ReadBackCapacity /\ readPos' <= FifoSize(fifo)'
      /\ FifoSpace(fifo)' >= 0 /\ Ahead' = Ahead
  BY <1>3, <1>4, <1>5, RingIsTaken
<1>7. /\ bg'.at = (IF bg.at = "asleep" THEN "loop" ELSE bg.at) /\ bg'.error = bg.error
      /\ bg' \in [at : {"loop", "asleep", "fill", "filled", "written", "failed", "ended"},
                  fifo : Fifo, todo : 0..MaxCopy, error : Errors]
  BY <1>1, ThreadIsWoken
<1>8. /\ logicalPos = (innerPos - Held) + readPos
      /\ logicalPos + n <= StreamSize
  <2>1. logicalPos = (innerPos - Held) + readPos
    BY DEF IInv, IsAtRing, Position, Seeking
  <2>. QED BY <1>1, <1>2, <1>3, <2>1, FifoBufferAssumption, AsyncReaderAssumption
<1>9. EndIsReached' /\ Prefetches'
  BY <1>4, <1>6, <1>7 DEF IInv, EndIsReached, Prefetches
<1>10. CASE Complete
  <2>1. /\ user'.target = user.target /\ user'.data = user.data /\ user'.from = user.from
        /\ user'.todo = user.todo - n
        /\ user'.at = (IF user.todo = n THEN "idle" ELSE "readwait")
        /\ user'.ret = (IF user.todo = n THEN "ok" ELSE "none")
        /\ user' \in User
    <3>1. user.todo - n \in Nat
      BY <1>2
    <3>. QED BY <1>1, <1>10, <3>1 DEF ReadTurnTakes, User, Ats, Errors
  <2>2. user.target \in Int /\ user.target = logicalPos + user.todo /\ user.data = <<>>
    <3>1. user.target = logicalPos + user.todo /\ user.data = <<>>
      BY <1>10 DEF IInv, CallProgress, Complete
    <3>. QED BY <1>2, <3>1
  <2>3. Types'
    BY <1>1, <1>3, <1>4, <1>5, <1>6, <1>7, <2>1 DEF Types, TypeOK, User, Ats, Errors
  <2>4. IsAtRing'
    BY <1>1, <1>2, <1>5, <1>6, <1>8, <2>1 DEF IsAtRing, Position, Seeking
  <2>5. RequestIsAwaited'
    BY <2>1 DEF IInv, RequestIsAwaited, Seeking
  <2>6. CallProgress'
    BY <1>2, <1>3, <1>5, <1>10, <2>1, <2>2 DEF CallProgress, Complete
  <2>7. ReadsStream' /\ EofIsReal'
    BY <2>1, <2>2 DEF ReadsStream, EofIsReal
  <2>8. SeekArrives'
    BY <1>2, <1>3, <1>5, <1>8, <2>1, <2>2, AsyncReaderAssumption DEF SeekArrives, Lesser
  <2>. QED BY <1>6, <1>9, <2>3, <2>4, <2>5, <2>6, <2>7, <2>8 DEF IInv
<1>11. CASE ~Complete
  <2>. DEFINE data == [i \in 1..n |-> memory[PeekSlot(fifo, readPos, i - 1)]]
  <2>1. ASSUME NEW i \in 1..n PROVE data[i] = logicalPos + i - 1
    <3>1. i - 1 \in Nat /\ readPos + (i - 1) \in 0..Held - 1 /\ readPos + (i - 1) < Capacity
      BY <1>1, <1>2, <1>3, FifoBufferAssumption, AsyncReaderAssumption
    <3>2. PeekSlot(fifo, readPos, i - 1) = AtEnd(fifo.rptr + (readPos + (i - 1)))
      BY <1>2, <3>1, Peeks
    <3>3. memory[AtEnd(fifo.rptr + (readPos + (i - 1)))] = (innerPos - Held) + (readPos + (i - 1))
      BY <3>1 DEF IInv, RingHolds
    <3>. QED BY <1>1, <1>2, <1>8, <3>2, <3>3, FifoBufferAssumption, AsyncReaderAssumption
  <2>2. data \in Seq(Int \union {None}) /\ Len(data) = n /\ DOMAIN data = 1..n
    <3>1. \A i \in 1..n : data[i] \in Int \union {None}
      BY <1>2, <2>1
    <3>. QED BY <1>3, <3>1
  <2>3. /\ user'.target = user.target /\ user'.data = data /\ user'.from = user.from
        /\ user'.todo = 0 /\ user'.at = "idle" /\ user'.ret = "ok"
    BY <1>1, <1>11 DEF ReadTurnTakes, User
  <2>4. user.target = None /\ user.from = logicalPos
    BY <1>11 DEF IInv, CallProgress, Complete
  <2>. HIDE DEF data
  <2>5. user' \in User
    <3>1. user' = [user EXCEPT !.at = "idle", !.todo = 0, !.ret = "ok", !.data = data]
      BY <1>11 DEF ReadTurnTakes, data
    <3>. QED BY <1>1, <2>2, <3>1 DEF User, Ats, Errors
  <2>6. Types'
    BY <1>1, <1>3, <1>4, <1>5, <1>6, <1>7, <2>3, <2>5 DEF Types, TypeOK, Ats, Errors
  <2>7. IsAtRing'
    BY <1>1, <1>2, <1>5, <1>6, <1>8, <2>3 DEF IsAtRing, Position, Seeking
  <2>8. RequestIsAwaited'
    BY <2>3 DEF IInv, RequestIsAwaited, Seeking
  <2>9. CallProgress' /\ EofIsReal' /\ SeekArrives'
    BY <2>3, <2>4 DEF CallProgress, EofIsReal, SeekArrives
  <2>10. ReadsStream'
    BY <1>5, <2>1, <2>2, <2>3, <2>4 DEF ReadsStream
  <2>. QED BY <1>6, <1>9, <2>6, <2>7, <2>8, <2>9, <2>10 DEF IInv
<1>. QED BY <1>10, <1>11

LEMMA ReadTurnKeeps ==
    ASSUME IInv, ReadTurn PROVE IInv'
<1>1. /\ TypeOK /\ user \in User /\ user.at = "read" /\ WakesThread
      /\ UNCHANGED <<seek, io, inner>>
  BY DEF IInv, Types, ReadTurn, Signals
<1>2. /\ FifoSize(fifo) \in 0..Capacity /\ Ahead \in Nat /\ Held = FifoSize(fifo) + Ahead
      /\ readPos \in 0..ReadBackCapacity /\ readPos <= FifoSize(fifo) /\ logicalPos \in Nat
      /\ innerPos \in 0..StreamSize /\ user.todo \in Nat
  BY <1>1, RingTypes DEF TypeOK, User
<1>3. /\ user.data = <<>> /\ user.todo > 0
      /\ IF user.target = None THEN user.from = logicalPos
                               ELSE user.target = logicalPos + user.todo
  BY <1>1 DEF IInv, CallProgress
<1>4. \/ abort' /\ UNCHANGED <<ring, logicalPos>> /\ Returns(IF Complete THEN "ok" ELSE "exit")
      \/ /\ ~abort /\ UNCHANGED abort
         /\ LET n == Lesser(user.todo, RingSize) IN
            \/ n > 0 /\ ReadTurnTakes(n)
            \/ /\ n <= 0 /\ ioEof
               /\ Returns(IF Complete THEN "ok"
                          ELSE IF ioError # "none" THEN ioError ELSE "eof")
               /\ UNCHANGED <<ring, logicalPos>>
            \/ /\ n <= 0 /\ ~ioEof
               /\ user' = [user EXCEPT !.at = "readwait"]
               /\ UNCHANGED <<ring, logicalPos>>
  BY DEF ReadTurn, ReadTurnTakes, Interrupted
<1>5. CASE abort' /\ UNCHANGED <<ring, logicalPos>> /\ Returns(IF Complete THEN "ok" ELSE "exit")
  <2>1. /\ user'.at = "idle" /\ user'.target = user.target /\ user'.data = <<>>
        /\ user'.ret \in {"ok", "exit"} /\ user' \in User
    BY <1>1, <1>3, <1>5 DEF Returns, User, Ats, Errors
  <2>2. abort' = TRUE
    BY <1>4, <1>5, <1>1 DEF TypeOK, ReadTurn, Interrupted
  <2>3. Types' /\ RingHolds' /\ Held' = Held /\ EndIsReached' /\ Prefetches'
    BY <1>1, <1>2, <1>5, <2>1, <2>2, RingIsLeft DEF TypeOK, ring
  <2>4. IsAtRing' /\ SeekArrives'
    BY <2>2 DEF IsAtRing, SeekArrives
  <2>5. RequestIsAwaited' /\ CallProgress' /\ ReadsStream' /\ EofIsReal'
    BY <1>1, <2>1, <2>2
    DEF IInv, RequestIsAwaited, Seeking, CallProgress, ReadsStream, EofIsReal
  <2>. QED BY <2>3, <2>4, <2>5 DEF IInv
<1>6. CASE ~abort /\ UNCHANGED abort /\ Lesser(user.todo, RingSize) > 0
           /\ ReadTurnTakes(Lesser(user.todo, RingSize))
  <2>1. /\ Lesser(user.todo, RingSize) \in Int /\ Lesser(user.todo, RingSize) <= user.todo
        /\ Lesser(user.todo, RingSize) <= RingSize
    BY <1>2, FifoBufferAssumption, AsyncReaderAssumption DEF Lesser, RingSize
  <2>2. UNCHANGED <<abort, seek, io, inner>>
    BY <1>1, <1>6
  <2>. QED BY <1>1, <1>6, <2>1, <2>2, ReadTurnTakesKeeps
<1>7. ASSUME ~abort, UNCHANGED abort, Lesser(user.todo, RingSize) <= 0, ioEof,
             Returns(IF Complete THEN "ok" ELSE IF ioError # "none" THEN ioError ELSE "eof"),
             UNCHANGED <<ring, logicalPos>>
      PROVE  IInv'
  <2>1. /\ user'.at = "idle" /\ user'.target = user.target /\ user'.data = <<>>
        /\ user'.ret = (IF Complete THEN "ok"
                        ELSE IF ioError # "none" THEN ioError ELSE "eof")
        /\ user' \in User
    <3>1. ioError \in Errors
      BY <1>1 DEF TypeOK
    <3>. QED BY <1>1, <1>3, <1>7, <3>1 DEF Returns, User, Ats, Errors
  <2>2. Types' /\ RingHolds' /\ Held' = Held /\ EndIsReached' /\ Prefetches'
    BY <1>1, <1>2, <1>7, <2>1, RingIsLeft DEF TypeOK, ring
  <2>3. logicalPos = (innerPos - Held) + readPos
    BY <1>1, <1>7 DEF IInv, IsAtRing, Position, Seeking
  <2>4. Ahead = 0
    BY <1>7 DEF IInv, EndIsReached, Ahead, Filling
  <2>5. ioError \in {"none", "eof"} => innerPos = StreamSize
    BY <1>7 DEF IInv, EndIsReached
  <2>6. IsAtRing' /\ RequestIsAwaited' /\ CallProgress' /\ ReadsStream'
    BY <1>1, <1>7, <2>1, <2>2, <2>3
    DEF IInv, IsAtRing, Position, RequestIsAwaited, Seeking, CallProgress, ReadsStream, ring, inner
  <2>7. logicalPos = innerPos
    <3>1. readPos = FifoSize(fifo)
      BY <1>2, <1>3, <1>7, AsyncReaderAssumption DEF Lesser, RingSize
    <3>. QED BY <1>2, <2>3, <2>4, <3>1, FifoBufferAssumption, AsyncReaderAssumption
  <2>8. EofIsReal'
    BY <1>7, <2>1, <2>5, <2>7 DEF EofIsReal
  <2>9. SeekArrives'
    <3>1. ioError \in Errors /\ (ioError = "exit" => abort)
      BY <1>1 DEF IInv, EndIsReached, TypeOK
    <3>2. ioError \in {"none", "eof", "error"}
      BY <1>7, <3>1 DEF Errors
    <3>3. CASE ioError = "error"
      BY <1>1, <1>7, <3>3 DEF SeekArrives, io
    <3>4. CASE ioError \in {"none", "eof"} /\ user.target # None
      <4>1. user.target = logicalPos + user.todo
        BY <1>3, <3>4
      <4>2. logicalPos' = Lesser(user.target, StreamSize)
        BY <1>2, <1>7, <2>5, <2>7, <3>4, <4>1, AsyncReaderAssumption DEF Lesser
      <4>. QED BY <2>1, <4>2 DEF SeekArrives, Lesser
    <3>5. CASE user.target = None
      BY <2>1, <3>5 DEF SeekArrives
    <3>. QED BY <3>2, <3>3, <3>4, <3>5
  <2>. QED BY <2>2, <2>6, <2>8, <2>9 DEF IInv
<1>8. ASSUME ~abort, UNCHANGED abort, user' = [user EXCEPT !.at = "readwait"],
             UNCHANGED <<ring, logicalPos>>
      PROVE  IInv'
  <2>1. /\ user'.at = "readwait" /\ user'.target = user.target /\ user'.data = <<>>
        /\ user'.from = user.from /\ user'.todo = user.todo /\ user'.ret = user.ret
        /\ user' \in User
    BY <1>1, <1>3, <1>8 DEF User, Ats
  <2>2. Types' /\ RingHolds' /\ Held' = Held /\ EndIsReached' /\ Prefetches'
    BY <1>1, <1>2, <1>8, <2>1, RingIsLeft DEF TypeOK, ring
  <2>3. IsAtRing' /\ RequestIsAwaited'
    BY <1>1, <1>8, <2>1, <2>2
    DEF IInv, IsAtRing, Position, RequestIsAwaited, Seeking, ring, inner
  <2>4. CallProgress' /\ ReadsStream' /\ EofIsReal' /\ SeekArrives'
    BY <1>3, <1>8, <2>1 DEF IInv, CallProgress, ReadsStream, EofIsReal, SeekArrives
  <2>. QED BY <2>2, <2>3, <2>4 DEF IInv
<1>. QED
  <2>1. CASE ~abort /\ UNCHANGED abort
    BY <1>4, <1>5, <1>6, <1>7, <1>8, <2>1
  <2>2. CASE ~(~abort /\ UNCHANGED abort)
    BY <1>4, <1>5, <2>2
  <2>. QED BY <2>1, <2>2

\* A step of async_seek in its loop, after a request or a wait
LEMMA SeekWaitsKeeps ==
    ASSUME IInv, user.at \in {"seek", "seeking"}, NEW completed \in BOOLEAN, NEW ret,
           SeekWaits(completed, ret), UNCHANGED <<ring, io, inner>>,
           seek' \in [request : BOOLEAN, pos : Nat, completed : BOOLEAN, ret : Nat \union {None}],
           seek'.completed = completed, seek'.ret = ret, ret \in {None, seek'.pos},
           seek'.pos = user.target, seek'.request => ~completed,
           ~abort /\ completed => Position = (IF ret # None THEN ret ELSE logicalPos),
           ~abort /\ ~completed => Position = logicalPos
    PROVE  IInv'
<1>1. /\ TypeOK /\ user \in User /\ user.data = <<>> /\ user.target \in 0..StreamSize
      /\ user.target # None
  <2>1. user.target \in 0..StreamSize
    BY DEF IInv, RequestIsAwaited
  <2>. QED BY <2>1, AsyncReaderAssumption DEF IInv, Types, CallProgress
<1>2. /\ readPos \in 0..ReadBackCapacity /\ readPos <= FifoSize(fifo) /\ logicalPos \in Nat
  BY <1>1 DEF TypeOK
<1>3. CASE abort' /\ Returns("exit") /\ UNCHANGED <<logicalPos, bg>>
  <2>1. /\ user'.at = "idle" /\ user'.data = <<>> /\ user'.ret = "exit" /\ user' \in User
    BY <1>1, <1>3 DEF Returns, User, Ats, Errors
  <2>2. abort' = TRUE
    BY <1>1, <1>3 DEF TypeOK, SeekWaits, Interrupted
  <2>3. Types' /\ RingHolds' /\ Held' = Held /\ EndIsReached' /\ Prefetches'
    BY <1>1, <1>2, <1>3, <2>1, <2>2, RingIsLeft DEF ring
  <2>4. /\ IsAtRing' /\ SeekArrives' /\ RequestIsAwaited' /\ CallProgress' /\ ReadsStream'
        /\ EofIsReal'
    BY <1>1, <2>1, <2>2 DEF IsAtRing, SeekArrives, RequestIsAwaited, Seeking, CallProgress,
                            ReadsStream, EofIsReal
  <2>. QED BY <2>3, <2>4 DEF IInv
<1>4. ASSUME ~abort, UNCHANGED abort, completed,
             logicalPos' = IF ret # None THEN ret ELSE logicalPos,
             Returns(IF ret # None THEN "ok" ELSE "error"), UNCHANGED bg
      PROVE  IInv'
  <2>1. /\ user'.at = "idle" /\ user'.data = <<>> /\ user'.target = user.target
        /\ user'.ret = (IF ret # None THEN "ok" ELSE "error") /\ user' \in User
    BY <1>1, <1>4 DEF Returns, User, Ats, Errors
  <2>2. logicalPos' \in Nat
    BY <1>1, <1>2, <1>4
  <2>3. Types' /\ RingHolds' /\ Held' = Held /\ EndIsReached' /\ Prefetches'
    BY <1>1, <1>2, <1>4, <2>1, <2>2, RingIsLeft DEF TypeOK, ring
  <2>4. IsAtRing'
    BY <1>4, <2>1, <2>3 DEF IInv, IsAtRing, Position, Seeking, ring, inner
  <2>5. SeekArrives'
    BY <1>1, <1>4, <2>1, AsyncReaderAssumption DEF SeekArrives, Lesser
  <2>6. RequestIsAwaited' /\ CallProgress' /\ ReadsStream' /\ EofIsReal'
    BY <1>1, <1>4, <2>1 DEF RequestIsAwaited, Seeking, CallProgress, ReadsStream, EofIsReal
  <2>. QED BY <2>3, <2>4, <2>5, <2>6 DEF IInv
<1>5. ASSUME ~abort, UNCHANGED abort, ~completed, user' = [user EXCEPT !.at = "seekwait"],
             WakesThread, UNCHANGED logicalPos
      PROVE  IInv'
  <2>1. /\ user'.at = "seekwait" /\ user'.data = <<>> /\ user'.target = user.target
        /\ user'.ret = user.ret /\ user' \in User
    BY <1>1, <1>5 DEF User, Ats
  <2>2. Types' /\ RingHolds' /\ Held' = Held /\ EndIsReached' /\ Prefetches'
    BY <1>1, <1>2, <1>5, <2>1, RingIsLeft DEF TypeOK, ring
  <2>3. IsAtRing'
    BY <1>5, <2>2 DEF IInv, IsAtRing, Position, ring, inner
  <2>4. RequestIsAwaited'
    BY <1>1, <1>5, <2>1 DEF RequestIsAwaited, Seeking
  <2>5. CallProgress' /\ ReadsStream' /\ EofIsReal' /\ SeekArrives'
    BY <1>5, <2>1 DEF IInv, CallProgress, ReadsStream, EofIsReal, SeekArrives
  <2>. QED BY <2>2, <2>3, <2>4, <2>5 DEF IInv
<1>. QED BY <1>3, <1>4, <1>5 DEF SeekWaits, Interrupted

LEMMA SeekRequestsKeeps ==
    ASSUME IInv, SeekRequests PROVE IInv'
<1>1. /\ user.at = "seek" /\ SeekWaits(FALSE, None) /\ UNCHANGED <<ring, io, inner>>
      /\ seek' = [request |-> TRUE, pos |-> user.target, completed |-> FALSE, ret |-> None]
  BY DEF SeekRequests
<1>2. user.target \in 0..StreamSize
  BY <1>1 DEF IInv, RequestIsAwaited
<1>3. /\ seek' \in [request : BOOLEAN, pos : Nat, completed : BOOLEAN, ret : Nat \union {None}]
      /\ seek'.completed = FALSE /\ seek'.ret = None /\ seek'.pos = user.target
  BY <1>1, <1>2
<1>4. Position = logicalPos
  BY <1>1 DEF Position, Seeking
<1>. QED BY <1>1, <1>3, <1>4, SeekWaitsKeeps

LEMMA SeekTurnKeeps ==
    ASSUME IInv, SeekTurn PROVE IInv'
<1>1. /\ user.at = "seeking" /\ SeekWaits(seek.completed, seek.ret)
      /\ UNCHANGED <<ring, seek, io, inner>>
  BY DEF SeekTurn
<1>2. seek \in [request : BOOLEAN, pos : Nat, completed : BOOLEAN, ret : Nat \union {None}]
  BY DEF IInv, Types, TypeOK
<1>3. /\ seek.ret \in {None, seek.pos} /\ seek.pos = user.target
      /\ seek.request => ~seek.completed
  BY <1>1 DEF IInv, RequestIsAwaited, Seeking
<1>4. /\ seek.completed => Position = (IF seek.ret # None THEN seek.ret ELSE logicalPos)
      /\ ~seek.completed => Position = logicalPos
  BY <1>1 DEF Position, Seeking
<1>5. /\ seek' \in [request : BOOLEAN, pos : Nat, completed : BOOLEAN, ret : Nat \union {None}]
      /\ seek'.completed = seek.completed /\ seek'.ret = seek.ret
      /\ seek'.ret \in {None, seek'.pos} /\ seek'.pos = user.target
      /\ seek'.request => ~seek.completed
      /\ UNCHANGED <<ring, io, inner>> /\ seek.completed \in BOOLEAN
  BY <1>1, <1>2, <1>3
<1>. QED BY <1>1, <1>3, <1>4, <1>5, SeekWaitsKeeps

LEMMA CloseKeeps ==
    ASSUME IInv, Close \/ Joined PROVE IInv'
<1>1. TypeOK /\ UNCHANGED <<fifo, memory, readPos, io, inner, seek, logicalPos>>
  BY DEF IInv, Types, Close, Joined, ring
<1>2. PICK at \in {"join", "closed"} : user' = [Idle EXCEPT !.at = at]
  BY DEF Close, Joined
<1>3. /\ user'.at \notin {"idle", "read", "readwait", "seek", "seekwait", "seeking"}
      /\ user'.data = <<>> /\ user'.ret = "none" /\ user' \in User
  BY <1>2, IdleType DEF Idle, User, Ats
<1>4. abort' \in BOOLEAN /\ (abort => abort') /\ (WakesThread \/ UNCHANGED bg)
  BY <1>1 DEF Close, Joined, TypeOK
<1>5. Types' /\ RingHolds' /\ Held' = Held /\ EndIsReached' /\ Prefetches'
  BY <1>1, <1>3, <1>4, RingIsLeft DEF TypeOK
<1>6. ~Seeking /\ user.at \notin {"seek", "seekwait", "seeking"}
  BY DEF Close, Joined, Seeking
<1>7. IsAtRing'
  BY <1>1, <1>3, <1>4, <1>5, <1>6 DEF IInv, IsAtRing, Position, Seeking, inner
<1>8. RequestIsAwaited'
  BY <1>1, <1>3, <1>4, <1>6 DEF IInv, RequestIsAwaited, Seeking
<1>9. CallProgress' /\ ReadsStream' /\ EofIsReal' /\ SeekArrives'
  BY <1>3 DEF CallProgress, ReadsStream, EofIsReal, SeekArrives
<1>. QED BY <1>5, <1>7, <1>8, <1>9 DEF IInv

LEMMA OpenKeeps ==
    ASSUME IInv, Open PROVE IInv'
<1>. USE DEF Open, Idle, Looping, NoSeek, Reset
<1>1. FifoSize(fifo)' = 0 /\ ~Filling' /\ Ahead' = 0 /\ Held' = 0
  <2>1. FifoSize(fifo)' = 0
    BY FifoBufferAssumption DEF FifoSize, Unsigned
  <2>2. ~Filling'
    BY DEF Filling
  <2>3. Ahead' = 0
    BY <2>2 DEF Ahead
  <2>. QED BY <2>1, <2>2, <2>3 DEF Held
<1>2. TypeOK'
  <2>1. Reset \in Fifo /\ Looping \in [at : {"loop"}, fifo : Fifo, todo : {0}, error : {"none"}]
    BY FifoBufferAssumption DEF Fifo
  <2>2. FifoSpace(fifo)' = Capacity
    BY <1>1, FifoBufferAssumption DEF FifoSpace, FifoSize
  <2>3. seek' \in [request : BOOLEAN, pos : Nat, completed : BOOLEAN, ret : Nat \union {None}]
    OBVIOUS
  <2>4. memory' \in [0..Capacity - 1 -> Int \union {None}]
    OBVIOUS
  <2>5. faults' \in 0..MaxFaults
    BY DEF IInv, Types, TypeOK
  <2>. QED BY <1>1, <2>1, <2>2, <2>3, <2>4, <2>5, FifoBufferAssumption, AsyncReaderAssumption
           DEF TypeOK, Errors
<1>3. user' \in User
  BY IdleType
<1>4. RingHolds'
  BY <1>1, FifoBufferAssumption DEF RingHolds, AtEnd, FifoSize
<1>5. IsAtRing' /\ RequestIsAwaited' /\ CallProgress'
  BY <1>1, AsyncReaderAssumption DEF IsAtRing, Position, Seeking, RequestIsAwaited, CallProgress
<1>6. EndIsReached' /\ Prefetches'
  BY DEF EndIsReached, Prefetches
<1>7. ReadsStream' /\ EofIsReal' /\ SeekArrives'
  BY DEF ReadsStream, EofIsReal, SeekArrives
<1>. QED BY <1>2, <1>3, <1>4, <1>5, <1>6, <1>7 DEF IInv, Types

LEMMA SpuriousWakeupKeeps ==
    ASSUME IInv, SpuriousWakeup PROVE IInv'
<1>1. /\ TypeOK /\ user \in User
      /\ UNCHANGED <<fifo, memory, readPos, seek, io, abort, logicalPos, inner>>
  BY DEF IInv, Types, SpuriousWakeup, ring
<1>2. /\ WakesUser \/ UNCHANGED user
      /\ WakesThread \/ UNCHANGED bg
  BY DEF SpuriousWakeup
<1>3. /\ user'.todo = user.todo /\ user'.target = user.target /\ user'.ret = user.ret
      /\ user'.from = user.from /\ user'.data = user.data /\ user' \in User
      /\ \/ user'.at = user.at
         \/ user.at = "readwait" /\ user'.at = "read"
         \/ user.at = "seekwait" /\ user'.at = "seeking"
  BY <1>1, <1>2, UserIsWoken DEF User
<1>4. Types' /\ RingHolds' /\ Held' = Held /\ EndIsReached' /\ Prefetches'
  BY <1>1, <1>2, <1>3, RingIsLeft DEF TypeOK
<1>5. IsAtRing' /\ RequestIsAwaited'
  BY <1>1, <1>3, <1>4 DEF IInv, IsAtRing, Position, RequestIsAwaited, Seeking, inner
<1>6. CallProgress' /\ ReadsStream' /\ EofIsReal' /\ SeekArrives'
  BY <1>1, <1>3 DEF IInv, CallProgress, ReadsStream, EofIsReal, SeekArrives, io
<1>. QED BY <1>4, <1>5, <1>6 DEF IInv

-----------------------------------------------------------------------------
(* The theorems                                                            *)

\* The invariant is inductive.
THEOREM Invariant == Spec => []IInv
<1>1. Init => IInv
  BY Initially
<1>2. IInv /\ [Next]_vars => IInv'
  <2>. SUFFICES ASSUME IInv, [Next]_vars PROVE IInv'
    OBVIOUS
  <2>1. CASE Loop
    BY <2>1, ExitsKeeps, SeeksKeeps, SleepsKeeps, StartsToFillKeeps DEF Loop, Interrupted
  <2>2. CASE Fill
    BY <2>2, FillKeeps
  <2>3. CASE Publish
    BY <2>3, PublishKeeps
  <2>4. CASE Report
    BY <2>4, ReportKeeps
  <2>5. CASE ReadTurn
    BY <2>5, ReadTurnKeeps
  <2>6. CASE SeekRequests
    BY <2>6, SeekRequestsKeeps
  <2>7. CASE SeekTurn
    BY <2>7, SeekTurnKeeps
  <2>8. CASE Close \/ Joined
    BY <2>8, CloseKeeps
  <2>9. CASE Read
    BY <2>9, ReadKeeps
  <2>10. CASE Seek
    BY <2>10, SeekKeeps
  <2>11. CASE Open
    BY <2>11, OpenKeeps
  <2>12. CASE SpuriousWakeup
    BY <2>12, SpuriousWakeupKeeps
  <2>13. CASE UNCHANGED vars
    BY <2>13
    DEF vars, ring, io, inner, IInv, Types, TypeOK, RingHolds, IsAtRing, Position, Held, Ahead,
        Filling, Seeking, RequestIsAwaited, CallProgress, EndIsReached, Prefetches,
        ReadsStream, EofIsReal, SeekArrives, RingSpace, FifoSpace, FifoSize, Unsigned, AtEnd,
        Lesser, Errors
  <2>. QED BY <2>1, <2>2, <2>3, <2>4, <2>5, <2>6, <2>7, <2>8, <2>9, <2>10, <2>11, <2>12, <2>13
           DEF Next, Background, InCall
<1>. QED BY <1>1, <1>2, PTL DEF Spec

\* Every variable keeps its type; the indices of the ring never name more than
\* its memory holds, and what is kept to seek back is in it.
THEOREM Typing == Spec => []TypeOK
<1>1. IInv => TypeOK
  BY DEF IInv, Types
<1>. QED BY <1>1, Invariant, PTL

\* What async_read copies out of the ring is the stream at logical_pos, for
\* every ring, after every drain, seek and wrap of the indices, although the
\* thread writes while the mutex is free.
THEOREM ReadsTheStream == Spec => []ReadsStream
<1>1. IInv => ReadsStream
  BY DEF IInv
<1>. QED BY <1>1, Invariant, PTL

\* AVERROR_EOF of async_read is the end of the stream: the end that the thread
\* has met is forgotten when it seeks.
THEOREM EndsAtTheEnd == Spec => []EofIsReal
<1>1. IInv => EofIsReal
  BY DEF IInv
<1>. QED BY <1>1, Invariant, PTL

\* async_seek arrives where it says, in the ring, by reading on, or through the
\* thread.
THEOREM Arrives == Spec => []SeekArrives
<1>1. IInv => SeekArrives
  BY DEF IInv
<1>. QED BY <1>1, Invariant, PTL

\* The thread does not sleep while there is space, or a request to seek that its
\* user has not given up: no signal of async_read_internal or async_seek is lost.
THEOREM ReadsAhead == Spec => []Prefetches
<1>1. IInv => Prefetches
  BY DEF IInv
<1>. QED BY <1>1, Invariant, PTL
=============================================================================
