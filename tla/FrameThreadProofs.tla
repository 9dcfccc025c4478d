--------------------------- MODULE FrameThreadProofs ---------------------------
(***************************************************************************)
(* FrameThread for any number of threads and packets and any codec: what   *)
(* its locks protect (threads use a hwaccel one at a time, and call the    *)
(* user back only when he is there to answer), what contexts know, and the *)
(* order and the completeness of what the user is given.                   *)
(***************************************************************************)
EXTENDS FrameThread, FiniteSetTheorems, TLAPS

-----------------------------------------------------------------------------
(* The inductive invariant                                                 *)

Contexts == [last : 0..MaxPackets, frame : 0..MaxPackets, ref : 0..MaxPackets,
             held : Seq(Packets), hw : BOOLEAN]

LockTypes ==
    /\ {bufferMutex, hwMutex} \subseteq Threads \union {User}
    /\ asyncLock \in BOOLEAN /\ asyncWait \subseteq Threads \union {User}

ThreadTypes ==
    /\ state \in [Threads -> States] /\ die \in [Threads -> BOOLEAN]
    /\ avpkt \in [Threads -> 0 .. MaxPackets] /\ out \in [Threads -> Results]
    /\ ctx \in [Threads -> Contexts]
    /\ released \in [Threads -> BOOLEAN] /\ outWait \in [Threads -> BOOLEAN]
    /\ hwSer \in [Threads -> BOOLEAN] /\ asyncSer \in [Threads -> BOOLEAN]
    /\ progWait \in [Threads -> SUBSET (Threads \union {User})]
    /\ pc \in [Threads -> WorkerPcs]
    /\ then \in [Threads -> {"serialize", "parse", "got", "slices", "unlock"}]

\* The user's thread.  The packet that is being submitted is the next.
UserTypes ==
    /\ codec \in Codecs
    /\ prev \in Threads \union {User}
    /\ nextDecoding \in 0 .. NThreads /\ nextFinished \in Threads
    /\ upc \notin {"output", "closed"} => nextDecoding \in Threads
    /\ upc \in Calling \union {"kill", "join"} => fin \in Threads
    /\ upc = "idle" => fin = 0
    /\ delaying \in BOOLEAN
    /\ upc \in Calling \union {"idle", "flush", "close", "kill", "join", "closed"}
    /\ upkt \in 0 .. MaxPackets /\ fin \in 0 .. NThreads
    /\ upc \in {"lock", "release", "prev"} => upkt \in {0, sent + 1}
    /\ ret \in Results /\ draining \in {"no", "yes", "done"}
    /\ sent \in 0 .. MaxPackets /\ base \in 0 .. sent

Types == LockTypes /\ ThreadTypes /\ UserTypes

AtRest    == {"woken", "loop", "wait", "dead"}
Finishing == {"fs_hw", "fs_async", "fs_state"}

\* A thread with its output ready is at rest, and the user keeps it there
\* while he has its mutex.
Rests(t) ==
    /\ state[t] = "input_ready" => pc[t] \in AtRest
    /\ UserHolds(t) => pc[t] \in {"wait", "woken"}
    /\ pc[t] \in {"woken", "loop", "wait"} => state[t] \in {"input_ready", "setting_up"}

\* Where the codec is, and where ff_thread_finish_setup can be called from
Works(t) ==
    /\ pc[t] \in Finishing =>
          /\ then[t] # "parse"
          /\ then[t] \in {"serialize", "got"} => ~codec.update
          /\ then[t] = "serialize" => ~codec.buf
    /\ pc[t] \in {"format", "buffer", "answer", "got", "setup"}
          \/ (pc[t] \in Finishing /\ then[t] = "got") => avpkt[t] # 0

\* A thread that may call the user back is the one that he serves.
Asks(t) ==
    /\ Served /\ state[t] \in {"setting_up", "get_buffer", "get_format"}
          => upc = "serve" /\ nextDecoding = t
    /\ codec.buf /\ pc[t] \in {"serialize", "parse", "buffer"} => state[t] = "setting_up"
    /\ state[t] \in {"get_buffer", "get_format"} => Served

\* It is about to decode, or does, with the hwaccel if there is one.
InSlices(t) == \/ pc[t] = "slices"
               \/ pc[t] \in {"fs_async", "fs_state"} /\ then[t] = "slices"

\* async_serializing is set before async_lock is taken.
HasAsync(t) == asyncSer[t] /\ pc[t] # "fs_async"

\* hwaccel_serializing says that hwaccel_mutex is held, by who decodes with
\* the hwaccel and by nobody at rest.
HoldsHw(t) ==
    /\ ctx[t].hw \/ hwSer[t] => codec.hw # "none"
    /\ pc[t] = "fs_hw" => ctx[t].hw
    /\ hwSer[t] => hwMutex = t /\ pc[t] \notin AtRest \union {"serialize", "ready"}
    /\ InSlices(t) /\ ctx[t].hw =>
          hwSer[t] /\ (codec.hw = "serial" /\ pc[t] # "fs_async" => HasAsync(t))

Thread(t) == Rests(t) /\ Works(t) /\ Asks(t) /\ HoldsHw(t)

Outside == {"idle", "kill", "join", "closed"}

\* async_lock is held by one thread, and while the user is out of the decoder
\* by him.
AsyncIsHeld ==
    /\ \A t \in Threads : HasAsync(t) => asyncLock /\ upc \notin Outside
    /\ \A t, u \in Threads : HasAsync(t) /\ HasAsync(u) => t = u
    /\ upc \in Outside => asyncLock

\* The threads that the user has been through, to flush or to close, are at rest.
AreParked ==
    upc \in {"flush", "close"} =>
        \A t \in Threads : t < fin => state[t] = "input_ready"

IInv == Types /\ (\A t \in Threads : Thread(t)) /\ AsyncIsHeld /\ AreParked

-----------------------------------------------------------------------------
(* What the invariant says                                                 *)

LEMMA Numbers ==
    /\ NThreads \in Nat /\ NThreads > 1 /\ MaxPackets \in Nat
    /\ User \notin Threads /\ 0 \in Threads /\ Threads \subseteq Int /\ IsFiniteSet(Threads)
<1>1. NThreads \in Nat /\ NThreads > 1 /\ MaxPackets \in Nat
  BY FrameThreadAssumption
<1>2. IsFiniteSet(0..NThreads - 1)
  BY <1>1, FS_Interval
<1>. QED BY <1>1, <1>2 DEF User, Threads

LEMMA CodecFields ==
    ASSUME codec \in Codecs
    PROVE  /\ codec.update \in BOOLEAN /\ codec.buf \in BOOLEAN /\ codec.fmt \in BOOLEAN
           /\ codec.hw \in {"none", "safe", "serial"} /\ codec.delay \in Nat
           /\ codec.ffv1 \in BOOLEAN
           /\ codec.hw # "none" \/ codec.delay > 0 => codec.update
BY FrameThreadAssumption

LEMMA InResults ==
    /\ Nothing \in Results /\ Error(0) \in Results
    /\ \A n \in 0..MaxPackets : Error(n) \in Results
    /\ \A n \in Packets : Frame(n) \in Results
<1>1. \A n \in 0..MaxPackets : n = 0 \/ n \in Packets
  BY Numbers DEF Packets
<1>. QED BY <1>1 DEF Results

LEMMA Implies == IInv => TypeOK /\ HwaccelIsSerial /\ CallbacksAreServed
<1>. SUFFICES ASSUME IInv PROVE TypeOK /\ HwaccelIsSerial /\ CallbacksAreServed
  OBVIOUS
<1>1. TypeOK
  BY DEF IInv, Types, LockTypes, ThreadTypes, UserTypes, TypeOK, Calling
<1>2. CallbacksAreServed
  BY DEF IInv, Thread, Asks, CallbacksAreServed
<1>3. ASSUME NEW t \in Threads, NEW u \in Threads, t \in InHwaccel, u \in InHwaccel PROVE t = u
  BY <1>3 DEF IInv, Thread, HoldsHw, InSlices, InHwaccel
<1>4. Cardinality(InHwaccel) <= 1
  <2>1. CASE InHwaccel = {}
    BY <2>1, FS_EmptySet
  <2>2. CASE InHwaccel # {}
    <3>1. PICK t \in Threads : t \in InHwaccel
      BY <2>2 DEF InHwaccel
    <3>2. InHwaccel = {t}
      BY <1>3, <3>1 DEF InHwaccel
    <3>. QED BY <3>2, FS_Singleton
  <2>. QED BY <2>1, <2>2
<1>5. codec.hw = "serial" /\ upc \in {"idle", "closed"} => InHwaccel = {}
  BY DEF IInv, Thread, HoldsHw, InSlices, InHwaccel, AsyncIsHeld, Outside
<1>. QED BY <1>1, <1>2, <1>4, <1>5 DEF HwaccelIsSerial

-----------------------------------------------------------------------------
(* The steps of a worker                                                   *)

\* What is said of a thread depends on nothing else.
LEMMA ThreadIsKept ==
    ASSUME NEW u \in Threads, Thread(u),
           UNCHANGED <<codec, upc, nextDecoding, state[u], pc[u], then[u], avpkt[u], ctx[u],
                       hwSer[u], asyncSer[u]>>,
           hwSer[u] => hwMutex' = hwMutex
    PROVE  Thread(u)'
<1>1. Rests(u)'
  BY DEF Thread, Rests, UserHolds
<1>2. Works(u)' /\ Asks(u)'
  BY DEF Thread, Works, Asks, Served
<1>3. HoldsHw(u)'
  BY DEF Thread, HoldsHw, InSlices, HasAsync
<1>. QED BY <1>1, <1>2, <1>3 DEF Thread

LEMMA UserTypesAreKept ==
    ASSUME UserTypes, UNCHANGED <<codec, fctx, user, sent, base>> PROVE UserTypes'
BY DEF UserTypes, fctx, user

\* A step of a worker disturbs no other thread, if it takes no lock that
\* another has.
LEMMA WorkerStep ==
    ASSUME IInv, NEW t \in Threads, UNCHANGED <<codec, fctx, user, hist>>,
           LockTypes', ThreadTypes', Thread(t)',
           \A u \in Threads \ {t} :
              /\ UNCHANGED <<state[u], pc[u], then[u], avpkt[u], ctx[u], hwSer[u], asyncSer[u]>>
              /\ hwSer[u] => hwMutex' = hwMutex,
           state[t] = "input_ready" => state'[t] = "input_ready",
           AsyncIsHeld'
    PROVE  IInv'
<1>1. UserTypes'
  BY UserTypesAreKept DEF IInv, Types, hist
<1>2. \A u \in Threads \ {t} : Thread(u)'
  BY ThreadIsKept DEF IInv, fctx, user
<1>3. AreParked'
  BY DEF IInv, AreParked, user
<1>. QED BY <1>1, <1>2, <1>3 DEF IInv, Types

\* Most steps leave async_lock alone.
LEMMA AsyncIsKept ==
    ASSUME IInv, UNCHANGED <<upc, asyncLock>>, \A t \in Threads : HasAsync(t)' => HasAsync(t)
    PROVE  AsyncIsHeld'
BY DEF IInv, AsyncIsHeld

\* A thread that has been woken looks at die first, then at state.
LEMMA CheckInputKeeps ==
    ASSUME IInv, NEW t \in Threads, CheckInput(t) PROVE IInv'
<1>. USE DEF locks, async, ptctx, serial, waits, worker, frames
<1>1. /\ UNCHANGED <<codec, fctx, locks, ptctx, frames, user, hist>>
      /\ LockTypes /\ ThreadTypes /\ Thread(t)
      /\ pc[t] \in {"loop", "woken"} /\ (pc[t] = "woken" => ~UserHolds(t))
  BY DEF CheckInput, IInv, Types
<1>2. \/ pc' = [pc EXCEPT ![t] = "dead"] /\ UNCHANGED then
      \/ pc' = [pc EXCEPT ![t] = "wait"] /\ UNCHANGED then /\ state[t] = "input_ready"
      \/ /\ state[t] # "input_ready" /\ ~codec.update /\ ~codec.buf
         /\ pc' = [pc EXCEPT ![t] = IF ctx[t].hw THEN "fs_hw" ELSE "fs_state"]
         /\ then' = [then EXCEPT ![t] = "serialize"]
      \/ /\ pc' = [pc EXCEPT ![t] = "serialize"] /\ UNCHANGED then /\ state[t] # "input_ready"
  BY DEF CheckInput, Finish, SafeBuffer
<1>3. /\ pc' \in [Threads -> WorkerPcs]
      /\ then' \in [Threads -> {"serialize", "parse", "got", "slices", "unlock"}]
      /\ \A u \in Threads \ {t} : pc'[u] = pc[u] /\ then'[u] = then[u]
  BY <1>1, <1>2 DEF ThreadTypes, WorkerPcs
<1>4. /\ pc'[t] \in {"dead", "wait", "fs_hw", "fs_state", "serialize"}
      /\ pc'[t] \in {"fs_hw", "fs_state"} => /\ state[t] # "input_ready" /\ ~codec.update
                                             /\ ~codec.buf /\ then'[t] = "serialize"
      /\ pc'[t] = "fs_hw" => ctx[t].hw
      /\ pc'[t] = "serialize" => state[t] # "input_ready"
      /\ pc'[t] = "wait" => state[t] = "input_ready"
  BY <1>1, <1>2 DEF ThreadTypes
<1>5. LockTypes' /\ ThreadTypes'
  BY <1>1, <1>3 DEF LockTypes, ThreadTypes
<1>6. ~UserHolds(t) /\ UserHolds(t)' = UserHolds(t)
  BY <1>1 DEF Thread, Rests, UserHolds, fctx, user
<1>7. Thread(t)'
  <2>1. Rests(t)'
    BY <1>1, <1>4, <1>6 DEF Thread, Rests, AtRest
  <2>2. Works(t)' /\ Asks(t)'
    BY <1>1, <1>4 DEF Thread, Rests, Works, Asks, Finishing, Served, fctx, user
  <2>3. HoldsHw(t)'
    BY <1>1, <1>4 DEF Thread, HoldsHw, InSlices, HasAsync, AtRest
  <2>. QED BY <2>1, <2>2, <2>3 DEF Thread
<1>8. AsyncIsHeld'
  <2>1. \A u \in Threads : HasAsync(u)' => HasAsync(u)
    BY <1>1, <1>3 DEF HasAsync
  <2>. QED BY <1>1, <2>1, AsyncIsKept DEF user
<1>. QED BY <1>1, <1>3, <1>5, <1>7, <1>8, WorkerStep

\* hwaccel_mutex is taken for a hwaccel of the thread before.
LEMMA SerializeKeeps ==
    ASSUME IInv, NEW t \in Threads, Serialize(t) PROVE IInv'
<1>. USE DEF locks, async, ptctx, serial, waits, worker, frames
<1>1. /\ UNCHANGED <<codec, fctx, bufferMutex, asyncLock, asyncWait, state, die, avpkt, ctx,
                     released, asyncSer, waits, then, frames, user, hist>>
      /\ LockTypes /\ ThreadTypes /\ Thread(t) /\ pc[t] = "serialize"
      /\ pc' = [pc EXCEPT ![t] = "parse"] /\ out' = [out EXCEPT ![t] = Nothing]
  BY DEF Serialize, IInv, Types
<1>2. \/ /\ ctx[t].hw /\ hwMutex = User /\ hwMutex' = t /\ hwSer' = [hwSer EXCEPT ![t] = TRUE]
      \/ /\ ~ctx[t].hw /\ UNCHANGED <<hwMutex, hwSer>>
  BY DEF Serialize
<1>3. /\ hwMutex' \in Threads \union {User} /\ hwSer' \in [Threads -> BOOLEAN]
      /\ \A u \in Threads \ {t} : hwSer'[u] = hwSer[u] /\ (hwSer[u] => hwMutex' = hwMutex)
      /\ hwSer'[t] => hwMutex' = t /\ codec.hw # "none"
  <2>1. CASE ctx[t].hw
    <3>1. \A u \in Threads : ~hwSer[u]
      BY <1>2, <2>1, Numbers DEF IInv, Thread, HoldsHw
    <3>. QED BY <1>1, <1>2, <2>1, <3>1 DEF ThreadTypes, Thread, HoldsHw
  <2>2. CASE ~ctx[t].hw
    BY <1>1, <1>2, <2>2 DEF ThreadTypes, LockTypes, Thread, HoldsHw
  <2>. QED BY <2>1, <2>2
<1>4. /\ pc' \in [Threads -> WorkerPcs] /\ out' \in [Threads -> Results] /\ pc'[t] = "parse"
      /\ \A u \in Threads \ {t} : pc'[u] = pc[u]
  BY <1>1, InResults DEF ThreadTypes, WorkerPcs
<1>5. LockTypes' /\ ThreadTypes'
  BY <1>1, <1>3, <1>4 DEF LockTypes, ThreadTypes
<1>6. Thread(t)'
  <2>1. Rests(t)'
    BY <1>1, <1>4 DEF Thread, Rests, AtRest, UserHolds, fctx, user
  <2>2. Works(t)' /\ Asks(t)'
    BY <1>1, <1>4 DEF Thread, Works, Asks, Finishing, Served, fctx, user
  <2>3. HoldsHw(t)'
    BY <1>1, <1>3, <1>4 DEF Thread, HoldsHw, InSlices, AtRest
  <2>. QED BY <2>1, <2>2, <2>3 DEF Thread
<1>7. AsyncIsHeld'
  <2>1. \A u \in Threads : HasAsync(u)' => HasAsync(u)
    BY <1>1, <1>4 DEF HasAsync
  <2>. QED BY <1>1, <2>1, AsyncIsKept DEF user
<1>. QED BY <1>1, <1>3, <1>4, <1>5, <1>6, <1>7, WorkerStep

\* Most steps take and release no lock.
LEMMA LocalStep ==
    ASSUME IInv, NEW t \in Threads,
           UNCHANGED <<codec, fctx, hwMutex, async, serial, user, hist>>,
           bufferMutex' \in Threads \union {User}, ThreadTypes', Thread(t)',
           \A u \in Threads \ {t} :
              UNCHANGED <<state[u], pc[u], then[u], avpkt[u], ctx[u]>>,
           state[t] = "input_ready" => state'[t] = "input_ready",
           pc[t] = "fs_async" => pc'[t] = "fs_async"
    PROVE  IInv'
<1>. USE DEF async, serial
<1>1. LockTypes'
  BY DEF IInv, Types, LockTypes
<1>2. AsyncIsHeld'
  <2>1. \A u \in Threads : HasAsync(u)' => HasAsync(u)
    BY DEF HasAsync
  <2>. QED BY <2>1, AsyncIsKept DEF user
<1>. QED BY <1>1, <1>2, WorkerStep

LEMMA OutputIsTyped ==
    ASSUME codec \in Codecs, NEW c \in Contexts, NEW drain \in BOOLEAN
    PROVE  /\ Outputs(c, drain) \in Results
           /\ AfterOutput(c, drain) \in Contexts /\ AfterOutput(c, drain).hw = c.hw
<1>1. c.held \in Seq(Packets) /\ Len(c.held) \in Nat
  BY DEF Contexts
<1>2. CASE Len(c.held) > (IF drain THEN 0 ELSE codec.delay)
  <2>1. Len(c.held) > 0
    BY <1>1, <1>2, CodecFields
  <2>2. Head(c.held) \in Packets /\ Tail(c.held) \in Seq(Packets)
    BY <1>1, <2>1
  <2>3. Outputs(c, drain) = Frame(Head(c.held)) /\ Frame(Head(c.held)) # Nothing
    BY <1>2 DEF Outputs, Frame, Nothing
  <2>. QED BY <2>2, <2>3, InResults DEF AfterOutput, Contexts
<1>3. CASE ~(Len(c.held) > (IF drain THEN 0 ELSE codec.delay))
  <2>1. Outputs(c, drain) = Nothing
    BY <1>3 DEF Outputs
  <2>. QED BY <2>1, InResults DEF AfterOutput, Contexts
<1>. QED BY <1>2, <1>3

LEMMA ParseReturnsKeeps ==
    ASSUME IInv, NEW t \in Threads, ParseReturns(t) PROVE IInv'
<1>. USE DEF locks, async, ptctx, serial, waits, worker, frames
<1>1. /\ UNCHANGED <<codec, fctx, locks, state, die, avpkt, released, serial, waits, then,
                     frames, user, hist>>
      /\ LockTypes /\ ThreadTypes /\ Thread(t) /\ pc[t] = "parse" /\ codec \in Codecs
      /\ pc' = [pc EXCEPT ![t] = "unlock"] /\ ctx[t] \in Contexts /\ avpkt[t] \in 0..MaxPackets
  BY DEF ParseReturns, IInv, Types, ThreadTypes, UserTypes
<1>2. /\ out' \in [Threads -> Results] /\ ctx' \in [Threads -> Contexts]
      /\ ctx'[t].hw = ctx[t].hw /\ \A u \in Threads \ {t} : ctx'[u] = ctx[u]
  <2>1. CASE avpkt[t] = 0
    <3>1. /\ out' = [out EXCEPT ![t] = Outputs(ctx[t], TRUE)]
          /\ ctx' = [ctx EXCEPT ![t] = AfterOutput(ctx[t], TRUE)]
      BY <2>1 DEF ParseReturns
    <3>2. /\ Outputs(ctx[t], TRUE) \in Results /\ AfterOutput(ctx[t], TRUE) \in Contexts
          /\ AfterOutput(ctx[t], TRUE).hw = ctx[t].hw
      BY <1>1, OutputIsTyped
    <3>. QED BY <1>1, <3>1, <3>2 DEF ThreadTypes
  <2>2. CASE avpkt[t] # 0
    <3>1. /\ out' = [out EXCEPT ![t] = Error(avpkt[t])]
          /\ ctx' = [ctx EXCEPT ![t] = [ctx[t] EXCEPT !.last = avpkt[t]]]
      BY <1>1, <2>2 DEF ParseReturns, ThreadTypes
    <3>2. [ctx[t] EXCEPT !.last = avpkt[t]] \in Contexts
      BY <1>1 DEF Contexts
    <3>3. [ctx[t] EXCEPT !.last = avpkt[t]].hw = ctx[t].hw
      BY <1>1 DEF Contexts
    <3>. QED BY <1>1, <3>1, <3>2, <3>3, InResults DEF ThreadTypes
  <2>. QED BY <2>1, <2>2
<1>3. /\ pc' \in [Threads -> WorkerPcs] /\ pc'[t] = "unlock"
      /\ \A u \in Threads \ {t} : pc'[u] = pc[u]
  BY <1>1 DEF ThreadTypes, WorkerPcs
<1>4. ThreadTypes'
  BY <1>1, <1>2, <1>3 DEF ThreadTypes
<1>5. Thread(t)'
  <2>1. Rests(t)'
    BY <1>1, <1>3 DEF Thread, Rests, AtRest, UserHolds, fctx, user
  <2>2. Works(t)' /\ Asks(t)'
    BY <1>1, <1>3 DEF Thread, Works, Asks, Finishing, Served, fctx, user
  <2>3. HoldsHw(t)'
    BY <1>1, <1>2, <1>3 DEF Thread, HoldsHw, InSlices, AtRest
  <2>. QED BY <2>1, <2>2, <2>3 DEF Thread
<1>. QED BY <1>1, <1>2, <1>3, <1>4, <1>5, LocalStep DEF LockTypes

\* The format is chosen at once, or the user is asked.
LEMMA GetFormatKeeps ==
    ASSUME IInv, NEW t \in Threads, GetFormat(t) \/ FormatAnswered(t) PROVE IInv'
<1>. USE DEF locks, async, ptctx, serial, waits, worker, frames
<1>1. /\ UNCHANGED <<codec, fctx, locks, die, avpkt, out, released, serial, outWait, then,
                     frames, user, hist>>
      /\ LockTypes /\ ThreadTypes /\ Thread(t) /\ codec \in Codecs
      /\ pc[t] \in {"parse", "format"} /\ avpkt[t] # 0 /\ ctx[t] \in Contexts
      /\ state[t] # "input_ready"
  BY DEF GetFormat, FormatAnswered, IInv, Types, ThreadTypes, UserTypes, Thread, Works, Rests,
         AtRest
<1>2. \/ /\ state[t] = "setting_up" /\ codec.fmt /\ UNCHANGED ctx
         /\ state' = [state EXCEPT ![t] = "get_format"] /\ pc' = [pc EXCEPT ![t] = "format"]
         /\ progWait' = [progWait EXCEPT ![t] = {t}]
      \/ /\ state[t] = "setting_up" /\ UNCHANGED <<state, progWait>>
         /\ \E hw \in Formats : ctx' = [ctx EXCEPT ![t] = [ctx[t] EXCEPT !.hw = hw]]
         /\ pc' = [pc EXCEPT ![t] = "buffer"]
      \/ /\ pc[t] = "format" /\ UNCHANGED <<state, ctx, pc>>
         /\ progWait' = [progWait EXCEPT ![t] = progWait[t] \union {t}]
  <2>1. CASE GetFormat(t)
    BY <1>1, <2>1 DEF GetFormat, ThreadTypes
  <2>2. CASE FormatAnswered(t)
    BY <1>1, <2>2 DEF FormatAnswered, SleepsOn, ThreadTypes
  <2>. QED BY <2>1, <2>2
<1>3. /\ state' \in [Threads -> States] /\ pc' \in [Threads -> WorkerPcs]
      /\ progWait' \in [Threads -> SUBSET (Threads \union {User})]
      /\ \A u \in Threads \ {t} : state'[u] = state[u] /\ pc'[u] = pc[u]
  BY <1>1, <1>2 DEF ThreadTypes, WorkerPcs, States
<1>4. /\ ctx' \in [Threads -> Contexts] /\ \A u \in Threads \ {t} : ctx'[u] = ctx[u]
      /\ ctx'[t].hw => codec.hw # "none"
  <2>1. CASE UNCHANGED ctx
    BY <1>1, <2>1 DEF ThreadTypes, Thread, HoldsHw
  <2>2. CASE \E hw \in Formats : ctx' = [ctx EXCEPT ![t] = [ctx[t] EXCEPT !.hw = hw]]
    <3>1. PICK hw \in Formats : ctx' = [ctx EXCEPT ![t] = [ctx[t] EXCEPT !.hw = hw]]
      BY <2>2
    <3>2. hw \in BOOLEAN /\ (hw => codec.hw # "none")
      BY DEF Formats
    <3>3. [ctx[t] EXCEPT !.hw = hw] \in Contexts /\ [ctx[t] EXCEPT !.hw = hw].hw = hw
      BY <1>1, <3>2 DEF Contexts
    <3>. QED BY <1>1, <3>1, <3>2, <3>3 DEF ThreadTypes
  <2>. QED BY <1>2, <2>1, <2>2
<1>5. \/ pc'[t] = "format" /\ state'[t] = "get_format" /\ codec.fmt /\ state[t] = "setting_up"
      \/ pc'[t] = "buffer" /\ state'[t] = "setting_up" /\ state[t] = "setting_up"
      \/ pc'[t] = "format" /\ pc[t] = "format" /\ state'[t] = state[t]
  BY <1>1, <1>2 DEF ThreadTypes
<1>6. ThreadTypes'
  BY <1>1, <1>3, <1>4 DEF ThreadTypes
<1>7. Thread(t)'
  <2>1. Rests(t)'
    BY <1>1, <1>5 DEF Thread, Rests, AtRest, UserHolds, fctx, user
  <2>2. Works(t)' /\ Asks(t)'
    BY <1>1, <1>5 DEF Thread, Works, Asks, Finishing, Served, fctx, user
  <2>3. HoldsHw(t)'
    BY <1>1, <1>4, <1>5 DEF Thread, HoldsHw, InSlices, AtRest
  <2>. QED BY <2>1, <2>2, <2>3 DEF Thread
<1>. QED BY <1>1, <1>3, <1>4, <1>6, <1>7, LocalStep DEF LockTypes

\* The buffer is there, or the user is asked.
LEMMA GetBufferKeeps ==
    ASSUME IInv, NEW t \in Threads, GetBuffer(t) PROVE IInv'
<1>. USE DEF locks, async, ptctx, serial, waits, worker, frames
<1>1. /\ UNCHANGED <<codec, fctx, hwMutex, async, die, avpkt, out, ctx, released, serial,
                     outWait, then, progress, user, hist>>
      /\ LockTypes /\ ThreadTypes /\ Thread(t) /\ codec \in Codecs
      /\ pc[t] \in {"parse", "buffer"} /\ avpkt[t] # 0
      /\ state[t] # "input_ready"
  BY DEF GetBuffer, IInv, Types, UserTypes, Thread, Rests, AtRest
<1>2. \/ /\ ~codec.buf /\ pc' = [pc EXCEPT ![t] = "setup"]
         /\ UNCHANGED <<bufferMutex, state, progWait>>
      \/ /\ codec.buf /\ bufferMutex' = t /\ state' = [state EXCEPT ![t] = "get_buffer"]
         /\ progWait' = [progWait EXCEPT ![t] = {t}] /\ pc' = [pc EXCEPT ![t] = "answer"]
         /\ state[t] = "setting_up"
  BY <1>1 DEF GetBuffer, SafeBuffer, Thread, Asks
<1>3. /\ state' \in [Threads -> States] /\ pc' \in [Threads -> WorkerPcs]
      /\ progWait' \in [Threads -> SUBSET (Threads \union {User})]
      /\ bufferMutex' \in Threads \union {User}
      /\ \A u \in Threads \ {t} : state'[u] = state[u] /\ pc'[u] = pc[u]
  BY <1>1, <1>2 DEF ThreadTypes, LockTypes, WorkerPcs, States
<1>4. \/ pc'[t] = "setup" /\ state'[t] = state[t]
      \/ pc'[t] = "answer" /\ state'[t] = "get_buffer" /\ codec.buf /\ state[t] = "setting_up"
  BY <1>1, <1>2 DEF ThreadTypes
<1>5. ThreadTypes'
  BY <1>1, <1>3 DEF ThreadTypes
<1>6. Thread(t)'
  <2>1. Rests(t)'
    BY <1>1, <1>4 DEF Thread, Rests, AtRest, UserHolds, fctx, user
  <2>2. Works(t)' /\ Asks(t)'
    BY <1>1, <1>4 DEF Thread, Works, Asks, Finishing, Served, fctx, user
  <2>3. HoldsHw(t)'
    BY <1>1, <1>4 DEF Thread, HoldsHw, InSlices, AtRest
  <2>. QED BY <2>1, <2>2, <2>3 DEF Thread
<1>. QED BY <1>1, <1>3, <1>5, <1>6, LocalStep

LEMMA BufferAnsweredKeeps ==
    ASSUME IInv, NEW t \in Threads, BufferAnswered(t) PROVE IInv'
<1>. USE DEF locks, async, ptctx, serial, waits, worker, frames
<1>1. /\ UNCHANGED <<codec, fctx, locks, state, die, avpkt, out, ctx, released, serial,
                     outWait, frames, user, hist>>
      /\ LockTypes /\ ThreadTypes /\ Thread(t) /\ codec \in Codecs
      /\ pc[t] = "answer" /\ avpkt[t] # 0 /\ state[t] # "input_ready"
  BY DEF BufferAnswered, IInv, Types, UserTypes, Thread, Works, Rests, AtRest
<1>2. \/ /\ progWait' = [progWait EXCEPT ![t] = progWait[t] \union {t}] /\ UNCHANGED worker
      \/ /\ pc' = [pc EXCEPT ![t] = "got"] /\ UNCHANGED <<then, progWait>>
      \/ /\ ~codec.update /\ UNCHANGED progWait /\ then' = [then EXCEPT ![t] = "got"]
         /\ pc' = [pc EXCEPT ![t] = IF ctx[t].hw THEN "fs_hw" ELSE "fs_state"]
  BY <1>1 DEF BufferAnswered, SleepsOn, Finish, ThreadTypes
<1>3. /\ pc' \in [Threads -> WorkerPcs]
      /\ then' \in [Threads -> {"serialize", "parse", "got", "slices", "unlock"}]
      /\ progWait' \in [Threads -> SUBSET (Threads \union {User})]
      /\ \A u \in Threads \ {t} : pc'[u] = pc[u] /\ then'[u] = then[u]
  BY <1>1, <1>2 DEF ThreadTypes, WorkerPcs
<1>4. /\ pc'[t] \in {"answer", "got", "fs_hw", "fs_state"}
      /\ pc'[t] \in {"fs_hw", "fs_state"} => ~codec.update /\ then'[t] = "got"
      /\ pc'[t] = "fs_hw" => ctx[t].hw
  BY <1>1, <1>2 DEF ThreadTypes
<1>5. ThreadTypes'
  BY <1>1, <1>3 DEF ThreadTypes
<1>6. Thread(t)'
  <2>1. Rests(t)'
    BY <1>1, <1>4 DEF Thread, Rests, AtRest, UserHolds, fctx, user
  <2>2. Works(t)' /\ Asks(t)'
    BY <1>1, <1>4 DEF Thread, Works, Asks, Finishing, Served, fctx, user
  <2>3. HoldsHw(t)'
    BY <1>1, <1>4 DEF Thread, HoldsHw, InSlices, AtRest
  <2>. QED BY <2>1, <2>2, <2>3 DEF Thread
<1>. QED BY <1>1, <1>3, <1>5, <1>6, LocalStep DEF LockTypes

LEMMA GotBufferKeeps ==
    ASSUME IInv, NEW t \in Threads, GotBuffer(t) PROVE IInv'
<1>. USE DEF locks, async, ptctx, serial, waits, worker, frames
<1>1. /\ UNCHANGED <<codec, fctx, hwMutex, async, state, die, avpkt, released, serial, waits,
                     then, frames, user, hist>>
      /\ LockTypes /\ ThreadTypes /\ Thread(t) /\ bufferMutex' = User
      /\ pc[t] = "got" /\ avpkt[t] # 0 /\ avpkt[t] \in 0..MaxPackets /\ ctx[t] \in Contexts
  BY DEF GotBuffer, IInv, Types, ThreadTypes, Thread, Works
<1>2. \/ pc' = [pc EXCEPT ![t] = "setup"] /\ UNCHANGED <<out, ctx>>
      \/ /\ out' = [out EXCEPT ![t] = Error(avpkt[t])] /\ pc' = [pc EXCEPT ![t] = "unlock"]
         /\ ctx' = [ctx EXCEPT ![t] = [ctx[t] EXCEPT !.last = avpkt[t]]]
  BY <1>1 DEF GotBuffer, ThreadTypes
<1>3. /\ [ctx[t] EXCEPT !.last = avpkt[t]] \in Contexts
      /\ [ctx[t] EXCEPT !.last = avpkt[t]].hw = ctx[t].hw
  BY <1>1 DEF Contexts
<1>4. /\ out' \in [Threads -> Results] /\ ctx' \in [Threads -> Contexts]
      /\ pc' \in [Threads -> WorkerPcs] /\ pc'[t] \in {"setup", "unlock"}
      /\ ctx'[t].hw = ctx[t].hw
      /\ \A u \in Threads \ {t} : ctx'[u] = ctx[u] /\ pc'[u] = pc[u]
  <2>1. Error(avpkt[t]) \in Results
    BY <1>1, InResults
  <2>2. out' \in [Threads -> Results] /\ ctx' \in [Threads -> Contexts]
    BY <1>1, <1>2, <1>3, <2>1 DEF ThreadTypes
  <2>3. ctx'[t].hw = ctx[t].hw /\ \A u \in Threads \ {t} : ctx'[u] = ctx[u]
    BY <1>1, <1>2, <1>3 DEF ThreadTypes
  <2>4. /\ pc' \in [Threads -> WorkerPcs] /\ pc'[t] \in {"setup", "unlock"}
        /\ \A u \in Threads \ {t} : pc'[u] = pc[u]
    BY <1>1, <1>2 DEF ThreadTypes, WorkerPcs
  <2>. QED BY <2>2, <2>3, <2>4
<1>5. ThreadTypes'
  BY <1>1, <1>4 DEF ThreadTypes
<1>6. Thread(t)'
  <2>1. Rests(t)'
    BY <1>1, <1>4 DEF Thread, Rests, AtRest, UserHolds, fctx, user
  <2>2. Works(t)' /\ Asks(t)'
    BY <1>1, <1>4 DEF Thread, Works, Asks, Finishing, Served, fctx, user
  <2>3. HoldsHw(t)'
    BY <1>1, <1>4 DEF Thread, HoldsHw, InSlices, AtRest
  <2>. QED BY <2>1, <2>2, <2>3 DEF Thread
<1>. QED BY <1>1, <1>4, <1>5, <1>6, LocalStep DEF LockTypes

\* The codec with a hwaccel finishes its setup before it goes on.
LEMMA SetUpKeeps ==
    ASSUME IInv, NEW t \in Threads, SetUp(t) PROVE IInv'
<1>. USE DEF locks, async, ptctx, serial, waits, worker, frames
<1>1. /\ UNCHANGED <<codec, fctx, locks, state, die, avpkt, released, serial, waits,
                     frames, user, hist>>
      /\ LockTypes /\ ThreadTypes /\ Thread(t) /\ codec \in Codecs
      /\ pc[t] = "setup" /\ avpkt[t] # 0 /\ avpkt[t] \in 0..MaxPackets /\ ctx[t] \in Contexts
      /\ avpkt[t] \in Packets
  BY Numbers DEF SetUp, IInv, Types, ThreadTypes, UserTypes, Thread, Works, Packets
<1>2. /\ \/ /\ codec.update /\ then' = [then EXCEPT ![t] = "slices"]
            /\ pc' = [pc EXCEPT ![t] = IF ctx[t].hw THEN "fs_hw" ELSE "fs_state"]
         \/ ~ctx[t].hw /\ pc' = [pc EXCEPT ![t] = "slices"] /\ UNCHANGED then
  BY DEF SetUp, Finish
<1>3. /\ out' \in [Threads -> Results] /\ ctx' \in [Threads -> Contexts]
      /\ ctx'[t].hw = ctx[t].hw /\ \A u \in Threads \ {t} : ctx'[u] = ctx[u]
  <2>1. PICK ref \in {0, ctx[t].frame} :
          LET c == [Setup(t, ctx[t]) EXCEPT !.ref = IF codec.update THEN ref ELSE 0]
          IN  /\ out' = [out EXCEPT ![t] = Outputs(c, FALSE)]
              /\ ctx' = [ctx EXCEPT ![t] = AfterOutput(c, FALSE)]
    BY DEF SetUp
  <2>. DEFINE c == [Setup(t, ctx[t]) EXCEPT !.ref = IF codec.update THEN ref ELSE 0]
  <2>2. ref \in 0..MaxPackets /\ 0 \in 0..MaxPackets
    BY <1>1, Numbers DEF Contexts
  <2>3. Append(ctx[t].held, avpkt[t]) \in Seq(Packets)
    BY <1>1 DEF Contexts
  <2>4. c \in Contexts /\ c.hw = ctx[t].hw
    BY <1>1, <2>2, <2>3 DEF Contexts, Setup
  <2>5. /\ out' = [out EXCEPT ![t] = Outputs(c, FALSE)]
        /\ ctx' = [ctx EXCEPT ![t] = AfterOutput(c, FALSE)]
    BY <2>1
  <2>. HIDE DEF c
  <2>6. /\ Outputs(c, FALSE) \in Results /\ AfterOutput(c, FALSE) \in Contexts
        /\ AfterOutput(c, FALSE).hw = c.hw
    BY <1>1, <2>4, OutputIsTyped
  <2>. QED BY <1>1, <2>4, <2>5, <2>6 DEF ThreadTypes
<1>4. /\ pc' \in [Threads -> WorkerPcs]
      /\ then' \in [Threads -> {"serialize", "parse", "got", "slices", "unlock"}]
      /\ \A u \in Threads \ {t} : pc'[u] = pc[u] /\ then'[u] = then[u]
  BY <1>1, <1>2 DEF ThreadTypes, WorkerPcs
<1>5. \/ pc'[t] = "fs_hw" /\ ctx[t].hw /\ then'[t] = "slices"
      \/ pc'[t] \in {"fs_state", "slices"} /\ ~ctx[t].hw /\ (pc'[t] = "fs_state" => then'[t] = "slices")
  BY <1>1, <1>2 DEF ThreadTypes
<1>6. ThreadTypes'
  BY <1>1, <1>3, <1>4 DEF ThreadTypes
<1>7. Thread(t)'
  <2>1. Rests(t)'
    BY <1>1, <1>5 DEF Thread, Rests, AtRest, UserHolds, fctx, user
  <2>2. Works(t)' /\ Asks(t)'
    BY <1>1, <1>5 DEF Thread, Works, Asks, Finishing, Served, fctx, user
  <2>3. HoldsHw(t)'
    BY <1>1, <1>3, <1>5 DEF Thread, HoldsHw, InSlices, AtRest
  <2>. QED BY <2>1, <2>2, <2>3 DEF Thread
<1>. QED BY <1>1, <1>3, <1>4, <1>6, <1>7, LocalStep DEF LockTypes

\* While it decodes, a thread waits for others' frames, and wakes those that
\* wait for its own.
LEMMA SlicesKeep ==
    ASSUME IInv, NEW t \in Threads, ReleaseBuffer(t) \/ AwaitProgress(t) \/ ReportProgress(t)
    PROVE  IInv'
<1>. USE DEF locks, async, ptctx, serial, waits, worker, frames
<1>1. /\ UNCHANGED <<codec, fctx, locks, state, die, avpkt, out, ctx, serial, outWait, then,
                     user, hist>>
      /\ LockTypes /\ ThreadTypes /\ Thread(t) /\ pc[t] = "slices"
      /\ \/ released' = [released EXCEPT ![t] = TRUE] /\ UNCHANGED <<progWait, pc>>
         \/ /\ UNCHANGED <<released, pc>>
            /\ \E u : progWait' = [progWait EXCEPT ![u] = progWait[u] \union {t}]
         \/ /\ UNCHANGED released /\ pc' = [pc EXCEPT ![t] = "unlock"]
            /\ \E u : progWait' = [progWait EXCEPT ![u] = {}]
  BY DEF ReleaseBuffer, AwaitProgress, ReportProgress, SleepsOn, IInv, Types
<1>2. released' \in [Threads -> BOOLEAN]
  BY <1>1 DEF ThreadTypes
<1>3. progWait' \in [Threads -> SUBSET (Threads \union {User})]
  BY <1>1 DEF ThreadTypes
<1>4. /\ pc' \in [Threads -> WorkerPcs] /\ pc'[t] \in {"slices", "unlock"}
      /\ \A u \in Threads \ {t} : pc'[u] = pc[u]
  BY <1>1 DEF ThreadTypes, WorkerPcs
<1>5. ThreadTypes'
  BY <1>1, <1>2, <1>3, <1>4 DEF ThreadTypes
<1>6. Thread(t)'
  <2>1. Rests(t)'
    BY <1>1, <1>4 DEF Thread, Rests, AtRest, UserHolds, fctx, user
  <2>2. Works(t)' /\ Asks(t)'
    BY <1>1, <1>4 DEF Thread, Works, Asks, Finishing, Served, fctx, user
  <2>3. HoldsHw(t)'
    BY <1>1, <1>4 DEF Thread, HoldsHw, InSlices, HasAsync, AtRest
  <2>. QED BY <2>1, <2>2, <2>3 DEF Thread
<1>. QED BY <1>1, <1>4, <1>5, <1>6, LocalStep DEF LockTypes

\* ff_thread_finish_setup takes hwaccel_mutex, which nobody has then,
LEMMA FinishHwKeeps ==
    ASSUME IInv, NEW t \in Threads, FinishHw(t) PROVE IInv'
<1>. USE DEF locks, async, ptctx, serial, waits, worker, frames
<1>1. /\ UNCHANGED <<codec, fctx, bufferMutex, async, state, die, avpkt, out, ctx, released,
                     asyncSer, waits, then, frames, user, hist>>
      /\ LockTypes /\ ThreadTypes /\ Thread(t) /\ pc[t] = "fs_hw" /\ ctx[t].hw
      /\ codec.hw # "none"
      /\ pc' = [pc EXCEPT ![t] = IF codec.hw = "serial" THEN "fs_async" ELSE "fs_state"]
  BY DEF FinishHw, IInv, Types, Thread, HoldsHw
<1>2. \/ hwSer[t] /\ UNCHANGED <<hwMutex, hwSer>>
      \/ /\ ~hwSer[t] /\ hwMutex = User /\ hwMutex' = t
         /\ hwSer' = [hwSer EXCEPT ![t] = TRUE]
  BY DEF FinishHw
<1>3. /\ hwMutex' \in Threads \union {User} /\ hwSer' \in [Threads -> BOOLEAN]
      /\ \A u \in Threads \ {t} : hwSer'[u] = hwSer[u] /\ (hwSer[u] => hwMutex' = hwMutex)
      /\ hwSer'[t] /\ hwMutex' = t
  <2>1. CASE hwSer[t]
    BY <1>1, <1>2, <2>1 DEF ThreadTypes, LockTypes, Thread, HoldsHw
  <2>2. CASE ~hwSer[t]
    <3>1. \A u \in Threads : ~hwSer[u]
      BY <1>2, <2>2, Numbers DEF IInv, Thread, HoldsHw
    <3>. QED BY <1>1, <1>2, <2>2, <3>1 DEF ThreadTypes
  <2>. QED BY <2>1, <2>2
<1>4. /\ pc' \in [Threads -> WorkerPcs]
      /\ pc'[t] = IF codec.hw = "serial" THEN "fs_async" ELSE "fs_state"
      /\ \A u \in Threads \ {t} : pc'[u] = pc[u]
  BY <1>1 DEF ThreadTypes, WorkerPcs
<1>5. LockTypes' /\ ThreadTypes'
  BY <1>1, <1>3, <1>4 DEF LockTypes, ThreadTypes
<1>6. Thread(t)'
  <2>1. Rests(t)'
    BY <1>1, <1>4 DEF Thread, Rests, AtRest, UserHolds, fctx, user
  <2>2. Works(t)' /\ Asks(t)'
    BY <1>1, <1>4 DEF Thread, Works, Asks, Finishing, Served, fctx, user
  <2>3. HoldsHw(t)'
    BY <1>1, <1>3, <1>4 DEF Thread, HoldsHw, InSlices, AtRest
  <2>. QED BY <2>1, <2>2, <2>3 DEF Thread
<1>7. AsyncIsHeld'
  <2>1. \A u \in Threads : HasAsync(u)' => HasAsync(u)
    BY <1>1, <1>4 DEF HasAsync
  <2>. QED BY <1>1, <2>1, AsyncIsKept DEF user
<1>. QED BY <1>1, <1>3, <1>4, <1>5, <1>6, <1>7, WorkerStep

\* and async_lock when the user does not have it.
LEMMA FinishAsyncKeeps ==
    ASSUME IInv, NEW t \in Threads, FinishAsync(t) PROVE IInv'
<1>. USE DEF locks, ptctx, serial, waits, worker, frames
<1>1. /\ UNCHANGED <<codec, fctx, bufferMutex, hwMutex, state, die, avpkt, out, ctx, released,
                     hwSer, waits, then, frames, user, hist>>
      /\ LockTypes /\ ThreadTypes /\ Thread(t) /\ pc[t] = "fs_async"
      /\ asyncSer' = [asyncSer EXCEPT ![t] = TRUE]
      /\ \/ asyncWait' = asyncWait \union {t} /\ UNCHANGED <<asyncLock, pc>>
         \/ /\ ~asyncLock /\ asyncLock' = TRUE /\ UNCHANGED asyncWait
            /\ pc' = [pc EXCEPT ![t] = "fs_state"]
  BY DEF FinishAsync, AsyncSleeps, AsyncLock, IInv, Types
<1>2. /\ pc' \in [Threads -> WorkerPcs] /\ asyncSer' \in [Threads -> BOOLEAN] /\ asyncSer'[t]
      /\ pc'[t] \in {"fs_async", "fs_state"}
      /\ \A u \in Threads \ {t} : pc'[u] = pc[u] /\ asyncSer'[u] = asyncSer[u]
  BY <1>1 DEF ThreadTypes, WorkerPcs
<1>3. LockTypes' /\ ThreadTypes'
  BY <1>1, <1>2 DEF LockTypes, ThreadTypes
<1>4. Thread(t)'
  <2>1. Rests(t)'
    BY <1>1, <1>2 DEF Thread, Rests, AtRest, UserHolds, fctx, user
  <2>2. Works(t)' /\ Asks(t)'
    BY <1>1, <1>2 DEF Thread, Works, Asks, Finishing, Served, fctx, user
  <2>3. HoldsHw(t)'
    BY <1>1, <1>2 DEF Thread, HoldsHw, InSlices, HasAsync, AtRest
  <2>. QED BY <2>1, <2>2, <2>3 DEF Thread
<1>5. AsyncIsHeld'
  <2>1. CASE UNCHANGED <<asyncLock, pc>>
    <3>1. \A u \in Threads : HasAsync(u)' => HasAsync(u)
      BY <1>1, <1>2, <2>1 DEF HasAsync
    <3>. QED BY <1>1, <2>1, <3>1, AsyncIsKept DEF user
  <2>2. CASE ~asyncLock /\ asyncLock' = TRUE
    <3>1. upc \notin Outside /\ UNCHANGED upc /\ \A u \in Threads : ~HasAsync(u)
      BY <1>1, <2>2 DEF IInv, AsyncIsHeld, user
    <3>2. \A u \in Threads \ {t} : ~HasAsync(u)'
      BY <1>2, <3>1 DEF HasAsync
    <3>. QED BY <2>2, <3>1, <3>2 DEF AsyncIsHeld
  <2>. QED BY <1>1, <2>1, <2>2
<1>. QED BY <1>1, <1>2, <1>3, <1>4, <1>5, WorkerStep

LEMMA FinishStateKeeps ==
    ASSUME IInv, NEW t \in Threads, FinishState(t) PROVE IInv'
<1>. USE DEF locks, async, ptctx, serial, waits, worker, frames
<1>1. /\ UNCHANGED <<codec, fctx, locks, die, avpkt, out, ctx, released, serial, outWait,
                     then, frames, user, hist>>
      /\ LockTypes /\ ThreadTypes /\ Thread(t) /\ codec \in Codecs
      /\ pc[t] = "fs_state" /\ state[t] # "input_ready"
      /\ state' = [state EXCEPT ![t] = "setup_finished"]
      /\ progWait' = [progWait EXCEPT ![t] = {}] /\ pc' = [pc EXCEPT ![t] = then[t]]
      /\ then[t] \in {"serialize", "got", "slices", "unlock"}
      /\ then[t] = "serialize" => ~codec.update /\ ~codec.buf
      /\ then[t] = "got" => avpkt[t] # 0
  BY DEF FinishState, IInv, Types, ThreadTypes, UserTypes, Thread, Works, Finishing, Rests, AtRest
<1>2. /\ pc' \in [Threads -> WorkerPcs] /\ state' \in [Threads -> States]
      /\ progWait' \in [Threads -> SUBSET (Threads \union {User})]
      /\ pc'[t] = then[t] /\ state'[t] = "setup_finished"
      /\ \A u \in Threads \ {t} : pc'[u] = pc[u] /\ state'[u] = state[u]
  BY <1>1 DEF ThreadTypes, WorkerPcs, States
<1>3. ThreadTypes'
  BY <1>1, <1>2 DEF ThreadTypes
<1>4. Thread(t)'
  <2>1. Rests(t)'
    BY <1>1, <1>2 DEF Thread, Rests, AtRest, UserHolds, fctx, user
  <2>2. Works(t)' /\ Asks(t)'
    BY <1>1, <1>2 DEF Thread, Works, Asks, Finishing, Served, fctx, user
  <2>3. HoldsHw(t)'
    <3>1. then[t] = "serialize" => ~hwSer[t]
      BY <1>1, CodecFields DEF Thread, HoldsHw
    <3>. QED BY <1>1, <1>2, <3>1 DEF Thread, HoldsHw, InSlices, HasAsync, AtRest
  <2>. QED BY <2>1, <2>2, <2>3 DEF Thread
<1>. QED BY <1>1, <1>2, <1>3, <1>4, LocalStep DEF LockTypes

LEMMA FinishForCodecKeeps ==
    ASSUME IInv, NEW t \in Threads, FinishForCodec(t) PROVE IInv'
<1>. USE DEF locks, async, ptctx, serial, waits, worker, frames
<1>1. /\ UNCHANGED <<codec, fctx, locks, ptctx, frames, user, hist>>
      /\ LockTypes /\ ThreadTypes /\ Thread(t)
      /\ pc[t] = "unlock" /\ state[t] = "setting_up"
      /\ pc' = [pc EXCEPT ![t] = IF ctx[t].hw THEN "fs_hw" ELSE "fs_state"]
      /\ then' = [then EXCEPT ![t] = "unlock"]
  BY DEF FinishForCodec, Finish, IInv, Types
<1>2. /\ pc' \in [Threads -> WorkerPcs] /\ then'[t] = "unlock"
      /\ then' \in [Threads -> {"serialize", "parse", "got", "slices", "unlock"}]
      /\ pc'[t] \in {"fs_hw", "fs_state"} /\ (pc'[t] = "fs_hw" => ctx[t].hw)
      /\ \A u \in Threads \ {t} : pc'[u] = pc[u] /\ then'[u] = then[u]
  BY <1>1 DEF ThreadTypes, WorkerPcs
<1>3. ThreadTypes'
  BY <1>1, <1>2 DEF ThreadTypes
<1>4. Thread(t)'
  <2>1. Rests(t)'
    BY <1>1, <1>2 DEF Thread, Rests, AtRest, UserHolds, fctx, user
  <2>2. Works(t)' /\ Asks(t)'
    BY <1>1, <1>2 DEF Thread, Works, Asks, Finishing, Served, fctx, user
  <2>3. HoldsHw(t)'
    BY <1>1, <1>2 DEF Thread, HoldsHw, InSlices, AtRest
  <2>. QED BY <2>1, <2>2, <2>3 DEF Thread
<1>. QED BY <1>1, <1>2, <1>3, <1>4, LocalStep DEF LockTypes

\* A lock is given back by the thread that has it.
LEMMA UnlockKeeps ==
    ASSUME IInv, NEW t \in Threads, Unlock(t) PROVE IInv'
<1>. USE DEF locks, ptctx, serial, waits, worker, frames
<1>1. /\ UNCHANGED <<codec, fctx, bufferMutex, state, die, avpkt, out, ctx, released, waits,
                     then, frames, user, hist>>
      /\ LockTypes /\ ThreadTypes /\ Thread(t)
      /\ pc[t] = "unlock" /\ pc' = [pc EXCEPT ![t] = "ready"] /\ state[t] # "input_ready"
      /\ hwMutex' = IF hwSer[t] THEN User ELSE hwMutex
      /\ hwSer' = [hwSer EXCEPT ![t] = FALSE] /\ asyncSer' = [asyncSer EXCEPT ![t] = FALSE]
      /\ IF asyncSer[t] THEN asyncLock' = FALSE /\ asyncWait' = {}
                        ELSE UNCHANGED <<asyncLock, asyncWait>>
  BY DEF Unlock, AsyncUnlock, async, IInv, Types, Thread, Rests, AtRest
<1>2. /\ pc' \in [Threads -> WorkerPcs] /\ pc'[t] = "ready"
      /\ asyncSer' \in [Threads -> BOOLEAN] /\ ~asyncSer'[t]
      /\ \A u \in Threads \ {t} : pc'[u] = pc[u] /\ asyncSer'[u] = asyncSer[u]
  BY <1>1 DEF ThreadTypes, WorkerPcs
<1>3. /\ hwSer' \in [Threads -> BOOLEAN] /\ ~hwSer'[t] /\ hwMutex' \in Threads \union {User}
      /\ \A u \in Threads \ {t} : hwSer'[u] = hwSer[u] /\ (hwSer[u] => hwMutex' = hwMutex)
  <2>1. hwSer[t] => \A u \in Threads \ {t} : ~hwSer[u]
    BY DEF IInv, Thread, HoldsHw
  <2>. QED BY <1>1, <2>1 DEF ThreadTypes, LockTypes
<1>4. LockTypes' /\ ThreadTypes'
  <2>1. asyncLock' \in BOOLEAN /\ asyncWait' \subseteq Threads \union {User}
    BY <1>1 DEF LockTypes
  <2>. QED BY <1>1, <1>2, <1>3, <2>1 DEF LockTypes, ThreadTypes
<1>5. Thread(t)'
  <2>1. Rests(t)'
    BY <1>1, <1>2 DEF Thread, Rests, AtRest, UserHolds, fctx, user
  <2>2. Works(t)' /\ Asks(t)'
    BY <1>1, <1>2 DEF Thread, Works, Asks, Finishing, Served, fctx, user
  <2>3. HoldsHw(t)'
    BY <1>1, <1>2, <1>3 DEF Thread, HoldsHw, InSlices, AtRest
  <2>. QED BY <2>1, <2>2, <2>3 DEF Thread
<1>6. AsyncIsHeld'
  <2>1. ~HasAsync(t)' /\ \A u \in Threads \ {t} : HasAsync(u)' = HasAsync(u)
    BY <1>2 DEF HasAsync
  <2>2. CASE asyncSer[t]
    <3>1. HasAsync(t)
      BY <1>1, <2>2 DEF HasAsync
    <3>2. upc \notin Outside /\ UNCHANGED upc /\ \A u \in Threads \ {t} : ~HasAsync(u)
      BY <1>1, <3>1 DEF IInv, AsyncIsHeld, user
    <3>. QED BY <2>1, <3>2 DEF AsyncIsHeld
  <2>3. CASE ~asyncSer[t]
    <3>1. \A u \in Threads : HasAsync(u)' => HasAsync(u)
      BY <2>1
    <3>. QED BY <1>1, <2>3, <3>1, AsyncIsKept DEF user
  <2>. QED BY <2>2, <2>3
<1>. QED BY <1>1, <1>2, <1>3, <1>4, <1>5, <1>6, WorkerStep

LEMMA ReadyKeeps ==
    ASSUME IInv, NEW t \in Threads, Ready(t) PROVE IInv'
<1>. USE DEF locks, async, ptctx, serial, waits, worker, frames
<1>1. /\ UNCHANGED <<codec, fctx, locks, die, avpkt, out, ctx, released, serial, then,
                     frames, user, hist>>
      /\ LockTypes /\ ThreadTypes /\ Thread(t) /\ pc[t] = "ready"
      /\ state' = [state EXCEPT ![t] = "input_ready"] /\ pc' = [pc EXCEPT ![t] = "loop"]
      /\ progWait' = [progWait EXCEPT ![t] = {}] /\ outWait' = [outWait EXCEPT ![t] = FALSE]
  BY DEF Ready, OutputSignalled, IInv, Types
<1>2. /\ pc' \in [Threads -> WorkerPcs] /\ state' \in [Threads -> States]
      /\ progWait' \in [Threads -> SUBSET (Threads \union {User})]
      /\ outWait' \in [Threads -> BOOLEAN]
      /\ pc'[t] = "loop" /\ state'[t] = "input_ready"
      /\ \A u \in Threads \ {t} : pc'[u] = pc[u] /\ state'[u] = state[u]
  BY <1>1 DEF ThreadTypes, WorkerPcs, States
<1>3. ThreadTypes'
  BY <1>1, <1>2 DEF ThreadTypes
<1>4. Thread(t)'
  <2>1. Rests(t)'
    BY <1>1, <1>2 DEF Thread, Rests, AtRest, UserHolds, fctx, user
  <2>2. Works(t)' /\ Asks(t)'
    BY <1>1, <1>2 DEF Thread, Works, Asks, Finishing, Served, fctx, user
  <2>3. HoldsHw(t)'
    BY <1>1, <1>2 DEF Thread, HoldsHw, InSlices, AtRest
  <2>. QED BY <2>1, <2>2, <2>3 DEF Thread
<1>. QED BY <1>1, <1>2, <1>3, <1>4, LocalStep DEF LockTypes

LEMMA WorkerKeeps ==
    ASSUME IInv, NEW t \in Threads, Worker(t) PROVE IInv'
BY CheckInputKeeps, SerializeKeeps, ParseReturnsKeeps, GetFormatKeeps, GetBufferKeeps,
   BufferAnsweredKeeps, GotBufferKeeps, SetUpKeeps, SlicesKeep, FinishHwKeeps,
   FinishAsyncKeeps, FinishStateKeeps, FinishForCodecKeeps, UnlockKeeps, ReadyKeeps
   DEF Worker

-----------------------------------------------------------------------------
(* The steps of the user                                                   *)

\* pthread_cond_signal wakes a thread that waits for input.
LEMMA SignalledWakes ==
    ASSUME ThreadTypes, NEW x, pc' = Signalled(x)
    PROVE  /\ pc' \in [Threads -> WorkerPcs]
           /\ \A u \in Threads : pc'[u] = pc[u] \/ (pc[u] = "wait" /\ pc'[u] = "woken")
BY DEF ThreadTypes, WorkerPcs, Signalled

\* Most steps of the user leave the threads where they are, but for waking.
LEMMA UserStep ==
    ASSUME IInv, LockTypes', ThreadTypes', UserTypes', AsyncIsHeld', AreParked',
           UNCHANGED <<codec, hwMutex, state, then, avpkt, hwSer, asyncSer>>,
           \A u \in Threads : pc'[u] = pc[u] \/ (pc[u] = "wait" /\ pc'[u] = "woken"),
           \A u \in Threads : ctx'[u].hw = ctx[u].hw,
           upc = "serve" => UNCHANGED <<upc, nextDecoding>>,
           \A u \in Threads : UserHolds(u)' => UserHolds(u) \/ MutexFree(u)
    PROVE  IInv'
<1>. SUFFICES ASSUME NEW u \in Threads PROVE Thread(u)'
  BY DEF IInv, Types
<1>1. Thread(u) /\ (pc'[u] = pc[u] \/ (pc[u] = "wait" /\ pc'[u] = "woken"))
  BY DEF IInv
<1>2. Rests(u)'
  BY <1>1 DEF Thread, Rests, MutexFree, AtRest
<1>3. Works(u)' /\ Asks(u)'
  BY <1>1 DEF Thread, Works, Asks, Served, Finishing
<1>4. HoldsHw(u)'
  BY <1>1 DEF Thread, HoldsHw, InSlices, HasAsync, AtRest
<1>. QED BY <1>2, <1>3, <1>4 DEF Thread

\* The user takes async_lock, gives it back, or does neither.
LEMMA UserUnlocks ==
    ASSUME IInv, UNCHANGED <<pc, asyncSer>>, upc \in Outside, upc' \notin Outside, AsyncUnlock
    PROVE  AsyncIsHeld'
BY DEF IInv, AsyncIsHeld, HasAsync

LEMMA UserLocks ==
    ASSUME IInv, UNCHANGED <<pc, asyncSer>>, ~asyncLock, asyncLock' = TRUE
    PROVE  AsyncIsHeld'
BY DEF IInv, AsyncIsHeld, HasAsync

LEMMA UserGoesOn ==
    ASSUME IInv, UNCHANGED asyncLock, upc' \in Outside => upc \in Outside,
           upc \in Outside => upc' \in Outside,
           \A t \in Threads : HasAsync(t)' => HasAsync(t)
    PROVE  AsyncIsHeld'
BY DEF IInv, AsyncIsHeld

LEMMA DelaysIsBoolean ==
    ASSUME NEW nd PROVE Delays(nd) \in BOOLEAN
BY Zenon DEF Delays

LEMMA DecodeKeeps ==
    ASSUME IInv, NEW n \in 0..MaxPackets, n \in {0, sent + 1}, Decode(n) PROVE IInv'
<1>. USE DEF locks, async, ptctx, serial, waits, worker, frames, fctx, user, hist
<1>1. /\ UNCHANGED <<codec, prev, nextFinished, bufferMutex, hwMutex, ptctx, worker, frames, hist>>
      /\ LockTypes /\ ThreadTypes /\ UserTypes /\ upc = "idle" /\ AsyncUnlock
      /\ upkt' = n /\ fin' = nextFinished /\ ret' = Nothing
      /\ draining' \in {"no", "yes", "done"}
      /\ \/ upc' = "output" /\ nextDecoding' = nextDecoding /\ delaying' = Delays(nextDecoding)
         \/ upc' = "lock" /\ UNCHANGED <<nextDecoding, delaying>>
  BY DEF Decode, Submitted, IInv, Types, UserTypes
<1>2. LockTypes' /\ ThreadTypes'
  BY <1>1 DEF LockTypes, ThreadTypes, AsyncUnlock
<1>3. UserTypes'
  <2>1. fin' \in Threads /\ fin' \in 0..NThreads
    BY <1>1, Numbers DEF UserTypes, Threads
  <2>2. nextDecoding' \in Threads /\ nextDecoding' \in 0..NThreads
    BY <1>1, Numbers DEF UserTypes, Threads
  <2>3. delaying' \in BOOLEAN
    BY <1>1, DelaysIsBoolean DEF UserTypes
  <2>. QED BY <1>1, <2>1, <2>2, <2>3, InResults DEF UserTypes, Calling
<1>4. AsyncIsHeld'
  BY <1>1, UserUnlocks DEF Outside
<1>5. AreParked'
  BY <1>1 DEF AreParked
<1>6. \A u \in Threads : ~UserHolds(u)'
  BY <1>1 DEF UserHolds
<1>. QED BY <1>1, <1>2, <1>3, <1>4, <1>5, <1>6, UserStep

LEMMA ParkKeeps ==
    ASSUME IInv, NEW call \in {"flush", "close"}, Park(call) PROVE IInv'
<1>. USE DEF locks, async, ptctx, serial, waits, worker, frames, fctx, user, hist
<1>1. /\ UNCHANGED <<codec, fctx, bufferMutex, hwMutex, ptctx, worker, frames, upkt, fin, ret,
                     draining, hist>>
      /\ LockTypes /\ ThreadTypes /\ UserTypes /\ upc = "idle" /\ AsyncUnlock /\ upc' = call
      /\ fin = 0
  BY DEF Park, IInv, Types, UserTypes
<1>2. LockTypes' /\ ThreadTypes'
  BY <1>1 DEF LockTypes, ThreadTypes, AsyncUnlock
<1>3. UserTypes'
  BY <1>1 DEF UserTypes, Calling
<1>4. AsyncIsHeld'
  BY <1>1, UserUnlocks DEF Outside
<1>5. AreParked'
  <2>1. \A t \in Threads : ~(t < 0)
    BY Numbers DEF Threads
  <2>. QED BY <1>1, <2>1 DEF AreParked
<1>6. \A u \in Threads : ~UserHolds(u)'
  BY <1>1 DEF UserHolds
<1>. QED BY <1>1, <1>2, <1>3, <1>4, <1>5, <1>6, UserStep

\* The thread whose mutex the user takes waits for input.
LEMMA LockKeeps ==
    ASSUME IInv, Lock PROVE IInv'
<1>. USE DEF locks, async, ptctx, serial, waits, worker, frames, fctx, user, hist
<1>1. /\ UNCHANGED <<codec, fctx, locks, ptctx, worker, frames, upkt, fin, ret, draining, hist>>
      /\ LockTypes /\ ThreadTypes /\ UserTypes /\ upc = "lock" /\ upc' = "release"
      /\ MutexFree(nextDecoding)
  BY DEF Lock, IInv, Types
<1>2. LockTypes' /\ ThreadTypes' /\ UserTypes'
  BY <1>1 DEF LockTypes, ThreadTypes, UserTypes, Calling
<1>3. AsyncIsHeld'
  BY <1>1, UserGoesOn DEF Outside, HasAsync
<1>4. AreParked'
  BY <1>1 DEF AreParked
<1>5. \A u \in Threads : UserHolds(u)' => MutexFree(u)
  BY <1>1 DEF UserHolds
<1>. QED BY <1>1, <1>2, <1>3, <1>4, <1>5, UserStep

LEMMA ReleaseDelayedBuffersKeeps ==
    ASSUME IInv, ReleaseDelayedBuffers PROVE IInv'
<1>. USE DEF locks, async, ptctx, serial, waits, worker, frames, fctx, user, hist
<1>1. /\ UNCHANGED <<codec, fctx, locks, state, die, avpkt, out, ctx, serial, waits, worker,
                     frames, upkt, fin, draining, hist>>
      /\ LockTypes /\ ThreadTypes /\ UserTypes /\ upc = "release"
      /\ \/ ret' = Error(0) /\ upc' = "finish" /\ UNCHANGED released
         \/ released' = [released EXCEPT ![nextDecoding] = FALSE] /\ upc' = "prev" /\ UNCHANGED ret
  BY DEF ReleaseDelayedBuffers, Fails, IInv, Types
<1>2. LockTypes' /\ ThreadTypes'
  <2>1. released' \in [Threads -> BOOLEAN]
    BY <1>1 DEF ThreadTypes
  <2>. QED BY <1>1, <2>1 DEF LockTypes, ThreadTypes
<1>3. UserTypes'
  BY <1>1, InResults DEF UserTypes, Calling
<1>4. AsyncIsHeld'
  BY <1>1, UserGoesOn DEF Outside, HasAsync
<1>5. AreParked'
  BY <1>1 DEF AreParked
<1>6. \A u \in Threads : UserHolds(u)' => UserHolds(u)
  BY <1>1 DEF UserHolds
<1>. QED BY <1>1, <1>2, <1>3, <1>4, <1>5, <1>6, UserStep

LEMMA AwaitsKeep ==
    ASSUME IInv, AwaitPrev \/ AwaitOutput PROVE IInv'
<1>. USE DEF locks, async, ptctx, serial, waits, worker, frames, fctx, user, hist
<1>1. /\ UNCHANGED <<codec, fctx, locks, state, die, avpkt, out, ctx, released, serial, worker,
                     frames, user, hist>>
      /\ LockTypes /\ ThreadTypes /\ UserTypes
      /\ upc # "serve"
      /\ \/ /\ progWait' = [progWait EXCEPT ![prev] = progWait[prev] \union {User}]
            /\ UNCHANGED outWait
         \/ outWait' = [outWait EXCEPT ![fin] = TRUE] /\ UNCHANGED progWait
  BY DEF AwaitPrev, AwaitOutput, SleepsOn, IInv, Types
<1>2. LockTypes' /\ ThreadTypes' /\ UserTypes'
  <2>1. progWait' \in [Threads -> SUBSET (Threads \union {User})]
    BY <1>1 DEF ThreadTypes
  <2>2. outWait' \in [Threads -> BOOLEAN]
    BY <1>1 DEF ThreadTypes
  <2>. QED BY <1>1, <2>1, <2>2 DEF LockTypes, ThreadTypes, UserTypes
<1>3. AsyncIsHeld'
  BY <1>1, UserGoesOn DEF Outside, HasAsync
<1>4. AreParked'
  BY <1>1 DEF IInv, AreParked
<1>5. \A u \in Threads : UserHolds(u)' => UserHolds(u)
  BY <1>1 DEF UserHolds
<1>. QED BY <1>1, <1>2, <1>3, <1>4, <1>5, UserStep

LEMMA ContextIsUpdated ==
    ASSUME ThreadTypes, NEW dst \in Threads, NEW src \in Threads \union {User}
    PROVE  /\ UpdateContext(dst, src) \in [Threads -> Contexts]
           /\ \A u \in Threads : \E v \in Threads : UpdateContext(dst, src)[u] = ctx[v]
           /\ \A u \in Threads \ {dst} : UpdateContext(dst, src)[u] = ctx[u]
<1>1. CASE src # User /\ dst # src /\ codec.update
  <2>1. UpdateContext(dst, src) = [ctx EXCEPT ![dst] = ctx[src]] /\ src \in Threads
    BY <1>1 DEF UpdateContext
  <2>. QED BY <2>1 DEF ThreadTypes
<1>2. CASE ~(src # User /\ dst # src /\ codec.update)
  <2>1. UpdateContext(dst, src) = ctx
    BY <1>2 DEF UpdateContext
  <2>. QED BY <2>1 DEF ThreadTypes
<1>. QED BY <1>1, <1>2

\* The thread that gets the packet was waiting; it is served if it may ask.
LEMMA SubmitKeeps ==
    ASSUME IInv, Submit PROVE IInv'
<1>. USE DEF locks, async, ptctx, serial, waits, worker, frames, fctx, user, hist
<1>0. PICK nd \in Threads : nd = nextDecoding
  BY DEF Submit, IInv, Types, UserTypes
<1>1. /\ UNCHANGED <<codec, nextFinished, locks, die, out, released, serial, waits, then, frames,
                     upkt, fin, draining, base, delivered>>
      /\ LockTypes /\ ThreadTypes /\ UserTypes /\ upc = "prev" /\ nd = nextDecoding
      /\ ctx' = UpdateContext(nd, prev) /\ prev \in Threads \union {User}
      /\ upkt \in 0..MaxPackets /\ upkt \in {0, sent + 1}
  BY <1>0 DEF Submit, IInv, Types, UserTypes
<1>2. pc[nd] \in {"wait", "woken"} /\ pc[nd] \in AtRest
  <2>1. UserHolds(nd)
    BY <1>1 DEF UserHolds
  <2>. QED BY <1>1, <2>1 DEF IInv, Thread, Rests, AtRest
<1>3. /\ ctx' \in [Threads -> Contexts] /\ \A u \in Threads \ {nd} : ctx'[u] = ctx[u]
      /\ ctx'[nd].hw => codec.hw # "none"
  <2>1. PICK v \in Threads : ctx'[nd] = ctx[v]
    BY <1>1, ContextIsUpdated
  <2>2. ctx[v].hw => codec.hw # "none"
    BY DEF IInv, Thread, HoldsHw
  <2>. QED BY <1>1, <2>1, <2>2, ContextIsUpdated
<1>4. CASE Fails /\ UNCHANGED <<fctx, avpkt, state, pc, sent>>
  <2>1. upc' = "finish" /\ ret' = Error(0)
    BY <1>4 DEF Fails
  <2>2. LockTypes' /\ ThreadTypes'
    BY <1>1, <1>3, <1>4 DEF LockTypes, ThreadTypes
  <2>3. UserTypes'
    BY <1>1, <1>4, <2>1, InResults DEF UserTypes, Calling
  <2>4. AsyncIsHeld'
    BY <1>1, <1>4, <2>1, UserGoesOn DEF Outside, HasAsync
  <2>5. AreParked'
    BY <2>1 DEF AreParked
  <2>6. ASSUME NEW u \in Threads PROVE Thread(u)'
    <3>1. Thread(u) /\ ~UserHolds(u)' /\ (u = nd => pc[u] \in {"wait", "woken"})
      BY <1>2, <2>1 DEF IInv, UserHolds
    <3>2. Rests(u)'
      BY <1>1, <1>4, <3>1 DEF Thread, Rests
    <3>3. Works(u)' /\ Asks(u)'
      BY <1>1, <1>4, <2>1, <3>1 DEF Thread, Works, Asks, Served
    <3>4. HoldsHw(u)'
      BY <1>1, <1>3, <1>4, <3>1 DEF Thread, HoldsHw, InSlices, HasAsync, AtRest
    <3>. QED BY <3>2, <3>3, <3>4 DEF Thread
  <2>. QED BY <2>2, <2>3, <2>4, <2>5, <2>6 DEF IInv, Types
<1>5. CASE /\ avpkt' = [avpkt EXCEPT ![nd] = upkt]
           /\ state' = [state EXCEPT ![nd] = "setting_up"] /\ pc' = Signalled(nd)
           /\ sent' = IF upkt = 0 THEN sent ELSE upkt
           /\ IF Served
              THEN upc' = "serve" /\ UNCHANGED <<prev, nextDecoding, delaying>>
              ELSE prev' = nd /\ Submitted(nd + 1, upkt)
           /\ UNCHANGED <<nextFinished, ret>>
  <2>1. /\ pc' \in [Threads -> WorkerPcs] /\ pc'[nd] \in {"wait", "woken"}
        /\ state' \in [Threads -> States] /\ state'[nd] = "setting_up"
        /\ avpkt' \in [Threads -> 0..MaxPackets]
        /\ \A u \in Threads \ {nd} : avpkt'[u] = avpkt[u] /\ state'[u] = state[u]
        /\ \A u \in Threads : pc'[u] = pc[u] \/ (pc[u] = "wait" /\ pc'[u] = "woken")
    BY <1>1, <1>2, <1>5, SignalledWakes DEF ThreadTypes, States
  <2>2. /\ upc' \in {"serve", "finish", "output"}
        /\ Served => upc' = "serve" /\ nextDecoding' = nd
    <3>1. CASE Served
      BY <1>0, <1>5, <3>1
    <3>2. CASE ~Served
      <4>1. upc' = IF Delays(nd + 1) /\ upkt # 0 THEN "finish" ELSE "output"
        BY <1>5, <3>2 DEF Submitted
      <4>. QED BY <3>2, <4>1
    <3>. QED BY <3>1, <3>2
  <2>3. LockTypes' /\ ThreadTypes'
    BY <1>1, <1>3, <2>1 DEF LockTypes, ThreadTypes
  <2>4. UserTypes'
    <3>1. sent' \in 0..MaxPackets /\ base' \in 0..sent'
      BY <1>1, <1>5, Numbers DEF UserTypes
    <3>2. CASE Served
      BY <1>1, <1>5, <2>2, <3>1, <3>2 DEF UserTypes, Calling
    <3>3. CASE ~Served
      <4>1. /\ prev' = nd /\ nextDecoding' = nd + 1 /\ delaying' = Delays(nd + 1)
            /\ upc' = IF Delays(nd + 1) /\ upkt # 0 THEN "finish" ELSE "output"
        BY <1>5, <3>3 DEF Submitted
      <4>2. nd + 1 \in 0..NThreads /\ delaying' \in BOOLEAN
        BY <1>1, <4>1, Numbers, DelaysIsBoolean DEF Threads
      <4>3. upc' # "output" => nextDecoding' \in Threads
        <5>1. Delays(nd + 1) => nd + 1 <= NThreads - 1
          <6>1. Delays(nd + 1) => nd + 1 <= NThreads - 1 - (IF codec.ffv1 THEN 1 ELSE 0)
            BY DEF Delays
          <6>. QED BY <4>2, <6>1, Numbers
        <5>. QED BY <4>1, <4>2, <5>1, Numbers DEF Threads
      <4>. QED BY <1>1, <1>5, <2>2, <3>1, <4>1, <4>2, <4>3 DEF UserTypes, Calling
    <3>. QED BY <3>2, <3>3
  <2>5. AsyncIsHeld'
    <3>1. \A u \in Threads : HasAsync(u)' => HasAsync(u)
      BY <1>1, <2>1 DEF HasAsync
    <3>. QED BY <1>1, <2>2, <3>1, UserGoesOn DEF Outside
  <2>6. AreParked'
    BY <2>2 DEF AreParked
  <2>7. Thread(nd)'
    <3>1. Thread(nd) /\ ~UserHolds(nd)'
      BY <1>1, <2>2 DEF IInv, UserHolds
    <3>2. Rests(nd)'
      BY <2>1, <3>1 DEF Rests, AtRest
    <3>3. Works(nd)' /\ Asks(nd)'
      BY <1>1, <2>1, <2>2 DEF Works, Asks, Served, Finishing
    <3>4. HoldsHw(nd)'
      BY <1>1, <1>2, <1>3, <2>1, <3>1 DEF Thread, HoldsHw, InSlices
    <3>. QED BY <3>2, <3>3, <3>4 DEF Thread
  <2>8. ASSUME NEW u \in Threads, u # nd PROVE Thread(u)'
    <3>1. /\ Thread(u) /\ ~UserHolds(u)' /\ ctx'[u] = ctx[u]
          /\ avpkt'[u] = avpkt[u] /\ state'[u] = state[u]
          /\ pc'[u] = pc[u] \/ (pc[u] = "wait" /\ pc'[u] = "woken")
      BY <1>3, <2>1, <2>2, <2>8 DEF IInv, UserHolds
    <3>2. Rests(u)'
      BY <3>1 DEF Thread, Rests, AtRest
    <3>3. Works(u)' /\ Asks(u)'
      BY <1>1, <3>1 DEF Thread, Works, Asks, Served, Finishing
    <3>4. HoldsHw(u)'
      BY <1>1, <3>1 DEF Thread, HoldsHw, InSlices, HasAsync, AtRest
    <3>. QED BY <3>2, <3>3, <3>4 DEF Thread
  <2>. QED BY <2>3, <2>4, <2>5, <2>6, <2>7, <2>8 DEF IInv, Types
<1>. QED BY <1>0, <1>4, <1>5 DEF Submit

\* The user answers the thread, until it needs no more.
LEMMA ServeKeeps ==
    ASSUME IInv, Serve PROVE IInv'
<1>. USE DEF locks, async, ptctx, serial, waits, worker, frames, fctx, user, hist
<1>0. PICK p \in Threads : p = nextDecoding
  BY DEF Serve, IInv, Types, UserTypes
<1>1. /\ UNCHANGED <<codec, nextFinished, locks, die, avpkt, ctx, released, serial, outWait,
                     worker, frames, upkt, fin, ret, draining, hist>>
      /\ LockTypes /\ ThreadTypes /\ UserTypes /\ upc = "serve"
      /\ \/ /\ progWait' = [progWait EXCEPT ![p] = progWait[p] \union {User}]
            /\ UNCHANGED <<state, out, prev, nextDecoding, delaying, upc>>
         \/ /\ state[p] \in {"get_buffer", "get_format"}
            /\ out' = out \/ \E r \in {Nothing, Error(0)} : out' = [out EXCEPT ![p] = r]
            /\ state' = [state EXCEPT ![p] = "setting_up"]
            /\ progWait' = progWait
               \/ \E w \in progWait[p] : progWait' = [progWait EXCEPT ![p] = progWait[p] \ {w}]
            /\ UNCHANGED <<prev, nextDecoding, delaying, upc>>
         \/ /\ state[p] \in {"setup_finished", "input_ready"}
            /\ prev' = p /\ Submitted(p + 1, upkt) /\ UNCHANGED <<state, out, progWait>>
  BY <1>0 DEF Serve, SleepsOn, IInv, Types
<1>2. /\ progWait' \in [Threads -> SUBSET (Threads \union {User})]
      /\ out' \in [Threads -> Results] /\ state' \in [Threads -> States]
  <2>1. progWait' \in [Threads -> SUBSET (Threads \union {User})]
    BY <1>1 DEF ThreadTypes
  <2>2. out' \in [Threads -> Results]
    BY <1>1, InResults DEF ThreadTypes
  <2>3. state' \in [Threads -> States]
    BY <1>1 DEF ThreadTypes, States
  <2>. QED BY <2>1, <2>2, <2>3
<1>3. LockTypes' /\ ThreadTypes'
  BY <1>1, <1>2 DEF LockTypes, ThreadTypes
<1>4. \/ /\ UNCHANGED <<prev, nextDecoding, delaying, upc>>
         /\ \A u \in Threads : \/ state'[u] = state[u]
                               \/ /\ u = p /\ state'[u] = "setting_up"
                                  /\ state[u] \in {"get_buffer", "get_format"}
      \/ /\ state[p] \in {"setup_finished", "input_ready"} /\ UNCHANGED state
         /\ prev' = p /\ nextDecoding' = p + 1 /\ delaying' = Delays(p + 1)
         /\ upc' = IF Delays(p + 1) /\ upkt # 0 THEN "finish" ELSE "output"
  BY <1>1 DEF Submitted, ThreadTypes
<1>5. UserTypes'
  <2>1. CASE UNCHANGED <<prev, nextDecoding, delaying, upc>>
    BY <1>1, <2>1 DEF UserTypes
  <2>2. CASE /\ prev' = p /\ nextDecoding' = p + 1 /\ delaying' = Delays(p + 1)
             /\ upc' = IF Delays(p + 1) /\ upkt # 0 THEN "finish" ELSE "output"
    <3>1. p + 1 \in 0..NThreads /\ delaying' \in BOOLEAN
      BY <2>2, Numbers, DelaysIsBoolean DEF Threads
    <3>2. Delays(p + 1) => p + 1 \in Threads
      <4>1. Delays(p + 1) => p + 1 <= NThreads - 1 - (IF codec.ffv1 THEN 1 ELSE 0)
        BY DEF Delays
      <4>. QED BY <3>1, <4>1, Numbers DEF Threads
    <3>. QED BY <1>1, <2>2, <3>1, <3>2 DEF UserTypes, Calling
  <2>. QED BY <1>4, <2>1, <2>2
<1>6. upc' \in {"serve", "finish", "output"}
  BY <1>1, <1>4
<1>7. AsyncIsHeld'
  BY <1>1, <1>6, UserGoesOn DEF Outside, HasAsync
<1>8. AreParked'
  BY <1>6 DEF AreParked
<1>9. ASSUME NEW u \in Threads PROVE Thread(u)'
  <2>1. Thread(u) /\ ~UserHolds(u)'
    BY <1>6 DEF IInv, UserHolds
  <2>2. Served' = Served
    BY <1>1 DEF Served
  <2>3. CASE /\ UNCHANGED <<prev, nextDecoding, delaying, upc>>
             /\ \/ state'[u] = state[u]
                \/ /\ u = p /\ state'[u] = "setting_up"
                   /\ state[u] \in {"get_buffer", "get_format"}
    <3>1. Rests(u)'
      BY <1>1, <2>1, <2>3 DEF Thread, Rests
    <3>2. Works(u)' /\ Asks(u)'
      BY <1>0, <1>1, <2>1, <2>2, <2>3 DEF Thread, Works, Asks
    <3>. QED BY <1>1, <2>1, <3>1, <3>2 DEF Thread, HoldsHw, InSlices, HasAsync
  <2>4. CASE state[p] \in {"setup_finished", "input_ready"} /\ UNCHANGED state
    <3>1. Rests(u)'
      BY <1>1, <2>1, <2>4 DEF Thread, Rests
    <3>2. Served => state[u] \notin {"setting_up", "get_buffer", "get_format"}
      BY <1>0, <2>1, <2>4 DEF Thread, Asks
    <3>3. Works(u)' /\ Asks(u)'
      BY <1>1, <2>1, <2>2, <2>4, <3>2 DEF Thread, Works, Asks
    <3>. QED BY <1>1, <2>1, <3>1, <3>3 DEF Thread, HoldsHw, InSlices, HasAsync
  <2>. QED BY <1>4, <2>3, <2>4
<1>. QED BY <1>3, <1>5, <1>7, <1>8, <1>9 DEF IInv, Types

LEMMA NextThread ==
    ASSUME NEW i \in 0..NThreads
    PROVE  i % NThreads \in Threads
BY Numbers DEF Threads

LEMMA TakeOutputKeeps ==
    ASSUME IInv, TakeOutput PROVE IInv'
<1>. USE DEF locks, async, ptctx, serial, waits, worker, frames, fctx, user, hist
<1>. DEFINE f == (fin + 1) % NThreads
<1>1. /\ UNCHANGED <<codec, prev, delaying, locks, state, die, avpkt, ctx, released, serial,
                     waits, worker, frames, upkt, draining, hist>>
      /\ LockTypes /\ ThreadTypes /\ UserTypes /\ upc = "output" /\ fin \in Threads
      /\ ret' = out[fin] /\ fin' = f /\ out' = [out EXCEPT ![fin] = Nothing]
      /\ \/ UNCHANGED <<nextDecoding, nextFinished, upc>>
         \/ nextDecoding' = nextDecoding % NThreads /\ nextFinished' = f /\ upc' = "finish"
  BY DEF TakeOutput, Reset, Wrapped, IInv, Types, UserTypes, Calling
<1>2. f \in Threads /\ f \in 0..NThreads
  <2>1. fin + 1 \in 0..NThreads
    BY <1>1, Numbers DEF Threads
  <2>2. f \in Threads
    BY <2>1, NextThread
  <2>. HIDE DEF f
  <2>. QED BY <2>2, Numbers DEF Threads
<1>. HIDE DEF f
<1>3. nextDecoding % NThreads \in Threads /\ nextDecoding % NThreads \in 0..NThreads
  <2>1. nextDecoding % NThreads \in Threads
    BY <1>1, NextThread DEF UserTypes
  <2>. QED BY <2>1, Numbers DEF Threads
<1>4. LockTypes' /\ ThreadTypes'
  <2>1. out' \in [Threads -> Results]
    BY <1>1, InResults DEF ThreadTypes
  <2>. QED BY <1>1, <2>1 DEF LockTypes, ThreadTypes
<1>5. UserTypes'
  <2>1. ret' \in Results
    BY <1>1 DEF ThreadTypes
  <2>2. CASE UNCHANGED <<nextDecoding, nextFinished, upc>>
    BY <1>1, <1>2, <2>1, <2>2 DEF UserTypes
  <2>3. CASE nextDecoding' = nextDecoding % NThreads /\ nextFinished' = f /\ upc' = "finish"
    BY <1>1, <1>2, <1>3, <2>1, <2>3 DEF UserTypes, Calling
  <2>. QED BY <1>1, <2>2, <2>3
<1>6. upc' \in {"output", "finish"}
  BY <1>1
<1>7. AsyncIsHeld'
  BY <1>1, <1>6, UserGoesOn DEF Outside, HasAsync
<1>8. AreParked'
  BY <1>6 DEF AreParked
<1>9. \A u \in Threads : ~UserHolds(u)'
  BY <1>6 DEF UserHolds
<1>. QED BY <1>1, <1>4, <1>5, <1>7, <1>8, <1>9, UserStep

LEMMA ReturnKeeps ==
    ASSUME IInv, Return PROVE IInv'
<1>. USE DEF locks, async, ptctx, serial, waits, worker, frames, fctx, user, hist
<1>1. /\ UNCHANGED <<codec, fctx, bufferMutex, hwMutex, ptctx, worker, frames, sent, base>>
      /\ LockTypes /\ ThreadTypes /\ UserTypes /\ upc = "finish"
      /\ \/ AsyncSleeps(User) /\ UNCHANGED <<upc, upkt, fin, ret, draining, delivered>>
         \/ /\ AsyncLock(User) /\ draining' \in {"no", "yes", "done"}
            /\ upc' = "idle" /\ upkt' = 0 /\ fin' = 0 /\ ret' = Nothing
  BY DEF Return, IInv, Types, UserTypes
<1>2. LockTypes' /\ ThreadTypes'
  BY <1>1 DEF LockTypes, ThreadTypes, AsyncSleeps, AsyncLock
<1>3. UserTypes'
  <2>1. CASE UNCHANGED <<upc, upkt, fin, ret, draining>>
    BY <1>1, <2>1 DEF UserTypes
  <2>2. CASE /\ draining' \in {"no", "yes", "done"}
             /\ upc' = "idle" /\ upkt' = 0 /\ fin' = 0 /\ ret' = Nothing
    BY <1>1, <2>2, Numbers, InResults DEF UserTypes, Calling
  <2>. QED BY <1>1, <2>1, <2>2
<1>4. AsyncIsHeld'
  <2>1. CASE AsyncSleeps(User) /\ UNCHANGED upc
    BY <1>1, <2>1, UserGoesOn DEF HasAsync, AsyncSleeps
  <2>2. CASE AsyncLock(User)
    BY <1>1, <2>2, UserLocks DEF AsyncLock
  <2>. QED BY <1>1, <2>1, <2>2
<1>5. AreParked'
  BY <1>1 DEF AreParked
<1>6. \A u \in Threads : ~UserHolds(u)'
  BY <1>1 DEF UserHolds
<1>. QED BY <1>1, <1>2, <1>3, <1>4, <1>5, <1>6, UserStep

LEMMA ParkThreadKeeps ==
    ASSUME IInv, ParkThread PROVE IInv'
<1>. USE DEF locks, async, ptctx, serial, waits, worker, frames, fctx, user, hist
<1>1. /\ UNCHANGED <<codec, fctx, locks, state, die, avpkt, ctx, released, serial, waits, worker,
                     frames, upc, upkt, ret, draining, hist>>
      /\ LockTypes /\ ThreadTypes /\ UserTypes /\ upc \in {"flush", "close"}
      /\ fin \in 0..NThreads /\ fin < NThreads /\ state[fin] = "input_ready" /\ fin' = fin + 1
      /\ out' = [out EXCEPT ![fin] = Nothing] \/ UNCHANGED out
  <2>1. /\ UNCHANGED <<codec, fctx, locks, state, die, avpkt, ctx, released, serial, waits, worker,
                       frames, upc, upkt, ret, draining, hist>>
        /\ LockTypes /\ ThreadTypes /\ UserTypes /\ upc \in {"flush", "close"}
        /\ fin \in 0..NThreads /\ fin < NThreads /\ state[fin] = "input_ready" /\ fin' = fin + 1
        /\ out' = [out EXCEPT ![fin] = IF out[fin].kind = "frame" THEN Nothing ELSE out[fin]]
    BY DEF ParkThread, HasOutput, IInv, Types, UserTypes
  <2>2. out \in [Threads -> Results]
    BY <2>1 DEF ThreadTypes
  <2>. QED BY <2>1, <2>2
<1>2. LockTypes' /\ ThreadTypes'
  <2>1. out' \in [Threads -> Results]
    BY <1>1, InResults DEF ThreadTypes
  <2>. QED BY <1>1, <2>1 DEF LockTypes, ThreadTypes
<1>3. UserTypes'
  BY <1>1, Numbers DEF UserTypes, Calling
<1>4. AsyncIsHeld'
  BY <1>1, UserGoesOn DEF Outside, HasAsync
<1>5. AreParked'
  <2>1. ASSUME NEW t \in Threads, t < fin' PROVE state[t] = "input_ready"
    <3>1. t < fin \/ t = fin
      BY <1>1, <2>1, Numbers
    <3>. QED BY <1>1, <3>1 DEF IInv, AreParked
  <2>. QED BY <1>1, <2>1 DEF AreParked
<1>6. \A u \in Threads : ~UserHolds(u)'
  BY <1>1 DEF UserHolds
<1>. QED BY <1>1, <1>2, <1>3, <1>4, <1>5, <1>6, UserStep

\* When all are parked, their contexts can change.
LEMMA AllAtRest ==
    ASSUME IInv, NEW call \in {"flush", "close"}, Parked(call)
    PROVE  \A t \in Threads : state[t] = "input_ready" /\ pc[t] \in AtRest
<1>1. \A t \in Threads : t < fin
  BY Numbers DEF Parked, Threads
<1>. QED BY <1>1 DEF Parked, IInv, AreParked, Thread, Rests

LEMMA ParkedStep ==
    ASSUME IInv, \A t \in Threads : state[t] = "input_ready" /\ pc[t] \in AtRest,
           LockTypes', ThreadTypes', UserTypes', AsyncIsHeld', AreParked',
           UNCHANGED <<codec, hwMutex, state, then, avpkt, pc, hwSer, asyncSer>>,
           \A u \in Threads : ctx'[u].hw => codec.hw # "none",
           \A u \in Threads : ~UserHolds(u)'
    PROVE  IInv'
<1>. SUFFICES ASSUME NEW u \in Threads PROVE Thread(u)'
  BY DEF IInv, Types
<1>1. Thread(u)
  BY DEF IInv
<1>2. Rests(u)'
  BY <1>1 DEF Thread, Rests
<1>3. Works(u)' /\ Asks(u)'
  BY <1>1 DEF Thread, Works, Asks, Served, AtRest
<1>4. HoldsHw(u)'
  BY <1>1 DEF Thread, HoldsHw, InSlices, AtRest
<1>. QED BY <1>2, <1>3, <1>4 DEF Thread

LEMMA NewIsTyped == NewContext \in Contexts
<1>1. 0 \in 0..MaxPackets
  BY Numbers
<1>2. <<>> \in Seq(Packets)
  OBVIOUS
<1>. QED BY <1>1, <1>2 DEF NewContext, Contexts

LEMMA FlushedIsTyped ==
    ASSUME NEW x \in Contexts
    PROVE  Flushed(x) \in Contexts /\ Flushed(x).hw = x.hw
<1>1. x.last \in 0..MaxPackets /\ x.hw \in BOOLEAN
  BY DEF Contexts
<1>2. NewContext \in Contexts
  BY NewIsTyped
<1>. QED BY <1>1, <1>2 DEF Flushed, Contexts

LEMMA FlushKeeps ==
    ASSUME IInv, Flush PROVE IInv'
<1>. USE DEF locks, async, ptctx, serial, waits, worker, frames, fctx, user, hist
<1>1. /\ UNCHANGED <<codec, bufferMutex, hwMutex, state, die, avpkt, serial, waits, worker, frames,
                     upkt, ret, sent>>
      /\ LockTypes /\ ThreadTypes /\ UserTypes /\ Parked("flush") /\ upc = "flush"
      /\ prev \in Threads \union {User}
  BY DEF Flush, Parked, IInv, Types, UserTypes
<1>2. \A t \in Threads : state[t] = "input_ready" /\ pc[t] \in AtRest
  BY <1>1, AllAtRest
<1>3. CASE AsyncSleeps(User) /\ UNCHANGED <<fctx, out, ctx, released, upc, fin, draining, base,
                                            delivered>>
  <2>1. LockTypes' /\ ThreadTypes' /\ UserTypes'
    BY <1>1, <1>3 DEF LockTypes, ThreadTypes, UserTypes, AsyncSleeps
  <2>2. AsyncIsHeld'
    BY <1>1, <1>3, UserGoesOn DEF HasAsync, AsyncSleeps
  <2>3. AreParked'
    BY <1>1, <1>3 DEF IInv, AreParked
  <2>4. \A u \in Threads : ~UserHolds(u)'
    BY <1>1, <1>3 DEF UserHolds
  <2>. QED BY <1>1, <1>3, <2>1, <2>2, <2>3, <2>4, UserStep
<1>4. CASE ~(AsyncSleeps(User) /\ UNCHANGED <<fctx, out, ctx, released, upc, fin, draining, base,
                                              delivered>>)
  <2>. DEFINE c == UpdateContext(0, prev)
  <2>1. /\ AsyncLock(User) /\ ctx' = [t \in Threads |-> Flushed(c[t])]
        /\ prev' = User /\ nextDecoding' = 0 /\ nextFinished' = 0 /\ delaying' = TRUE
        /\ out' = [t \in Threads |-> Nothing] /\ released' = [t \in Threads |-> FALSE]
        /\ upc' = "idle" /\ fin' = 0 /\ draining' = "no" /\ base' = sent /\ delivered' = <<>>
    BY <1>4 DEF Flush
  <2>2. /\ c \in [Threads -> Contexts]
        /\ \A t \in Threads : \E v \in Threads : c[t] = ctx[v]
    BY <1>1, Numbers, ContextIsUpdated
  <2>. HIDE DEF c
  <2>3. ASSUME NEW t \in Threads PROVE Flushed(c[t]) \in Contexts /\ Flushed(c[t]).hw = c[t].hw
    <3>1. c[t] \in Contexts
      BY <2>2
    <3>. QED BY <3>1, FlushedIsTyped
  <2>4. ctx' \in [Threads -> Contexts]
    BY <2>1, <2>3
  <2>5. ASSUME NEW u \in Threads, ctx'[u].hw PROVE codec.hw # "none"
    <3>1. PICK v \in Threads : c[u] = ctx[v]
      BY <2>2
    <3>2. ctx[v].hw
      BY <2>1, <2>3, <2>5, <3>1
    <3>. QED BY <3>2 DEF IInv, Thread, HoldsHw
  <2>6. LockTypes' /\ ThreadTypes'
    BY <1>1, <2>1, <2>4, InResults DEF LockTypes, ThreadTypes, AsyncLock
  <2>7. UserTypes'
    BY <1>1, <2>1, Numbers DEF UserTypes, Calling
  <2>8. AsyncIsHeld'
    BY <1>1, <2>1, UserLocks DEF AsyncLock
  <2>9. AreParked' /\ \A u \in Threads : ~UserHolds(u)'
    BY <2>1 DEF AreParked, UserHolds
  <2>. QED BY <1>1, <1>2, <2>5, <2>6, <2>7, <2>8, <2>9, ParkedStep
<1>. QED BY <1>3, <1>4

LEMMA CloseKeeps ==
    ASSUME IInv, Close PROVE IInv'
<1>. USE DEF locks, async, ptctx, serial, waits, worker, frames, fctx, user, hist
<1>1. /\ UNCHANGED <<codec, fctx, bufferMutex, hwMutex, state, die, avpkt, out, released, serial,
                     waits, worker, frames, upkt, ret, draining, hist>>
      /\ LockTypes /\ ThreadTypes /\ UserTypes /\ Parked("close") /\ upc = "close"
      /\ prev \in Threads \union {User}
  BY DEF Close, Parked, IInv, Types, UserTypes
<1>2. \A t \in Threads : state[t] = "input_ready" /\ pc[t] \in AtRest
  BY <1>1, AllAtRest
<1>3. CASE AsyncSleeps(User) /\ UNCHANGED <<ctx, upc, fin>>
  <2>1. LockTypes' /\ ThreadTypes' /\ UserTypes'
    BY <1>1, <1>3 DEF LockTypes, ThreadTypes, UserTypes, AsyncSleeps
  <2>2. AsyncIsHeld'
    BY <1>1, <1>3, UserGoesOn DEF HasAsync, AsyncSleeps
  <2>3. AreParked'
    BY <1>1, <1>3 DEF IInv, AreParked
  <2>4. \A u \in Threads : ~UserHolds(u)'
    BY <1>1, <1>3 DEF UserHolds
  <2>. QED BY <1>1, <1>3, <2>1, <2>2, <2>3, <2>4, UserStep
<1>4. CASE AsyncLock(User) /\ ctx' = UpdateContext(0, prev) /\ upc' = "kill" /\ fin' = 0
  <2>1. /\ ctx' \in [Threads -> Contexts]
        /\ \A t \in Threads : \E v \in Threads : ctx'[t] = ctx[v]
    <3>. DEFINE c == UpdateContext(0, prev)
    <3>1. /\ c \in [Threads -> Contexts]
          /\ \A t \in Threads : \E v \in Threads : c[t] = ctx[v]
      BY <1>1, Numbers, ContextIsUpdated
    <3>2. ctx' = c
      BY <1>4
    <3>. HIDE DEF c
    <3>. QED BY <3>1, <3>2
  <2>2. ASSUME NEW u \in Threads, ctx'[u].hw PROVE codec.hw # "none"
    BY <2>1, <2>2 DEF IInv, Thread, HoldsHw
  <2>3. LockTypes' /\ ThreadTypes'
    BY <1>1, <1>4, <2>1 DEF LockTypes, ThreadTypes, AsyncLock
  <2>4. UserTypes'
    BY <1>1, <1>4, Numbers DEF UserTypes, Calling
  <2>5. AsyncIsHeld'
    BY <1>1, <1>4, UserLocks DEF AsyncLock
  <2>6. AreParked' /\ \A u \in Threads : ~UserHolds(u)'
    BY <1>4 DEF AreParked, UserHolds
  <2>. QED BY <1>1, <1>2, <2>2, <2>3, <2>4, <2>5, <2>6, ParkedStep
<1>. QED BY <1>3, <1>4 DEF Close

LEMMA KillKeeps ==
    ASSUME IInv, Kill PROVE IInv'
<1>. USE DEF locks, async, ptctx, serial, waits, worker, frames, fctx, user, hist
<1>1. /\ UNCHANGED <<codec, fctx, locks, state, avpkt, out, ctx, released, serial, waits, then,
                     frames, upkt, fin, ret, draining, hist>>
      /\ LockTypes /\ ThreadTypes /\ UserTypes /\ upc = "kill" /\ upc' = "join"
      /\ die' = [die EXCEPT ![fin] = TRUE] /\ pc' = Signalled(fin)
  BY DEF Kill, IInv, Types
<1>2. /\ pc' \in [Threads -> WorkerPcs] /\ die' \in [Threads -> BOOLEAN]
      /\ \A u \in Threads : pc'[u] = pc[u] \/ (pc[u] = "wait" /\ pc'[u] = "woken")
  BY <1>1, SignalledWakes DEF ThreadTypes
<1>3. LockTypes' /\ ThreadTypes' /\ UserTypes'
  BY <1>1, <1>2 DEF LockTypes, ThreadTypes, UserTypes, Calling
<1>4. AsyncIsHeld'
  <2>1. \A u \in Threads : HasAsync(u)' => HasAsync(u)
    BY <1>1, <1>2 DEF HasAsync
  <2>. QED BY <1>1, <2>1, UserGoesOn DEF Outside
<1>5. AreParked' /\ \A u \in Threads : ~UserHolds(u)'
  BY <1>1 DEF AreParked, UserHolds
<1>. QED BY <1>1, <1>2, <1>3, <1>4, <1>5, UserStep

LEMMA JoinKeeps ==
    ASSUME IInv, Join PROVE IInv'
<1>. USE DEF locks, async, ptctx, serial, waits, worker, frames, fctx, user, hist
<1>1. /\ UNCHANGED <<codec, fctx, locks, state, die, avpkt, out, ctx, serial, waits, worker,
                     frames, upkt, ret, draining, hist>>
      /\ LockTypes /\ ThreadTypes /\ UserTypes /\ upc = "join" /\ fin \in Threads
      /\ released' = [released EXCEPT ![fin] = FALSE]
      /\ upc' \in {"closed", "kill"} /\ fin' = (fin + 1) % NThreads
  BY DEF Join, IInv, Types, UserTypes
<1>2. fin' \in Threads /\ fin' \in 0..NThreads
  <2>1. fin + 1 \in 0..NThreads
    BY <1>1, Numbers DEF Threads
  <2>2. fin' \in Threads
    BY <1>1, <2>1, NextThread
  <2>. QED BY <2>2, Numbers DEF Threads
<1>3. released' \in [Threads -> BOOLEAN]
  BY <1>1 DEF ThreadTypes
<1>4. LockTypes' /\ ThreadTypes' /\ UserTypes'
  BY <1>1, <1>2, <1>3 DEF LockTypes, ThreadTypes, UserTypes, Calling
<1>5. AsyncIsHeld'
  BY <1>1, UserGoesOn DEF Outside, HasAsync
<1>6. AreParked' /\ \A u \in Threads : ~UserHolds(u)'
  BY <1>1 DEF AreParked, UserHolds
<1>. QED BY <1>1, <1>4, <1>5, <1>6, UserStep

LEMMA SpuriousWakeupKeeps ==
    ASSUME IInv, SpuriousWakeup PROVE IInv'
<1>. USE DEF locks, async, ptctx, serial, waits, worker, frames, fctx, user, hist
<1>1. /\ UNCHANGED <<codec, fctx, bufferMutex, hwMutex, asyncLock, state, die, avpkt, out, ctx,
                     released, serial, then, frames, user, hist>>
      /\ LockTypes /\ ThreadTypes /\ UserTypes
  BY DEF SpuriousWakeup, IInv, Types
<1>2. /\ asyncWait' \subseteq Threads \union {User}
      /\ progWait' \in [Threads -> SUBSET (Threads \union {User})]
      /\ outWait' \in [Threads -> BOOLEAN]
  <2>1. asyncWait' = asyncWait \/ \E w \in asyncWait : asyncWait' = asyncWait \ {w}
    BY DEF SpuriousWakeup
  <2>2. progWait' = progWait \/ \E t \in Threads : \E w \in progWait[t] :
                                  progWait' = [progWait EXCEPT ![t] = progWait[t] \ {w}]
    BY DEF SpuriousWakeup
  <2>3. outWait' = outWait \/ \E t \in Threads : outWait' = [outWait EXCEPT ![t] = FALSE]
    BY DEF SpuriousWakeup
  <2>4. asyncWait' \subseteq Threads \union {User}
    BY <1>1, <2>1 DEF LockTypes
  <2>5. progWait' \in [Threads -> SUBSET (Threads \union {User})]
    BY <1>1, <2>2 DEF ThreadTypes
  <2>6. outWait' \in [Threads -> BOOLEAN]
    BY <1>1, <2>3 DEF ThreadTypes
  <2>. QED BY <2>4, <2>5, <2>6
<1>3. /\ pc' \in [Threads -> WorkerPcs]
      /\ \A u \in Threads : pc'[u] = pc[u] \/ (pc[u] = "wait" /\ pc'[u] = "woken")
  <2>1. pc' = pc \/ \E t \in Threads : pc' = Signalled(t)
    BY DEF SpuriousWakeup
  <2>2. CASE pc' = pc
    BY <1>1, <2>2 DEF ThreadTypes
  <2>3. CASE \E t \in Threads : pc' = Signalled(t)
    BY <1>1, <2>3, SignalledWakes
  <2>. QED BY <2>1, <2>2, <2>3
<1>4. LockTypes' /\ ThreadTypes' /\ UserTypes'
  BY <1>1, <1>2, <1>3 DEF LockTypes, ThreadTypes, UserTypes
<1>5. AsyncIsHeld'
  <2>1. \A u \in Threads : HasAsync(u)' => HasAsync(u)
    BY <1>1, <1>3 DEF HasAsync
  <2>. QED BY <1>1, <2>1, UserGoesOn DEF Outside
<1>6. AreParked'
  BY <1>1 DEF IInv, AreParked
<1>7. \A u \in Threads : UserHolds(u)' => UserHolds(u)
  BY <1>1 DEF UserHolds
<1>. QED BY <1>1, <1>3, <1>4, <1>5, <1>6, <1>7, UserStep

LEMMA StutterKeeps == ASSUME IInv, UNCHANGED vars PROVE IInv'
<1>. USE DEF vars, locks, async, ptctx, serial, waits, worker, frames, fctx, user, hist
<1>1. Types'
  BY DEF IInv, Types, LockTypes, ThreadTypes, UserTypes
<1>2. AsyncIsHeld' /\ AreParked'
  BY DEF IInv, AsyncIsHeld, AreParked, HasAsync
<1>3. \A u \in Threads : Thread(u)'
  BY ThreadIsKept DEF IInv
<1>. QED BY <1>1, <1>2, <1>3 DEF IInv

-----------------------------------------------------------------------------
(* The theorems                                                            *)

LEMMA Initially == Init => IInv
<1>. SUFFICES ASSUME Init PROVE IInv
  OBVIOUS
<1>1. LockTypes
  BY Numbers DEF Init, LockTypes
<1>2. ThreadTypes
  <2>1. NewContext \in Contexts
    BY NewIsTyped
  <2>2. 0 \in 0..MaxPackets
    BY Numbers
  <2>. QED BY <2>1, <2>2, InResults DEF Init, ThreadTypes, States, WorkerPcs
<1>3. UserTypes
  BY Numbers, InResults DEF Init, UserTypes
<1>4. ASSUME NEW t \in Threads PROVE Thread(t)
  <2>1. /\ state[t] = "input_ready" /\ pc[t] = "woken" /\ then[t] = "parse" /\ upc = "idle"
        /\ ~hwSer[t] /\ ~ctx[t].hw
    BY <1>4 DEF Init, NewContext
  <2>2. Rests(t) /\ Works(t) /\ Asks(t)
    BY <2>1 DEF Rests, Works, Asks, AtRest, Finishing, UserHolds
  <2>3. HoldsHw(t)
    BY <2>1 DEF HoldsHw, InSlices, AtRest
  <2>. QED BY <2>2, <2>3 DEF Thread
<1>5. AsyncIsHeld /\ AreParked
  BY DEF Init, AsyncIsHeld, HasAsync, AreParked
<1>. QED BY <1>1, <1>2, <1>3, <1>4, <1>5 DEF IInv, Types

\* The calls of the user, for a packet that is the next
LEMMA CallsKeep ==
    ASSUME IInv, Calls PROVE IInv'
<1>1. sent \in 0..MaxPackets
  BY DEF IInv, Types, UserTypes
<1>2. CASE sent < MaxPackets /\ Decode(sent + 1)
  <2>1. sent + 1 \in 0..MaxPackets
    BY <1>1, <1>2, Numbers
  <2>. QED BY <1>2, <2>1, DecodeKeeps
<1>3. CASE Decode(0)
  <2>1. 0 \in 0..MaxPackets
    BY Numbers
  <2>. QED BY <1>3, <2>1, DecodeKeeps
<1>4. CASE Park("flush") \/ Park("close")
  BY <1>4, ParkKeeps
<1>. QED BY <1>2, <1>3, <1>4 DEF Calls

\* Whatever thread takes a step, each stays where its locks say it is.
THEOREM Invariant == Spec => []IInv
<1>1. Init => IInv
  BY Initially
<1>2. IInv /\ [Next]_vars => IInv'
  <2>. SUFFICES ASSUME IInv, [Next]_vars PROVE IInv'
    OBVIOUS
  <2>1. CASE Calls
    BY <2>1, CallsKeep
  <2>2. CASE InCall
    BY <2>2, LockKeeps, ReleaseDelayedBuffersKeeps, AwaitsKeep, SubmitKeeps, ServeKeeps,
       TakeOutputKeeps, ReturnKeeps, ParkThreadKeeps, FlushKeeps, CloseKeeps, KillKeeps,
       JoinKeeps DEF InCall
  <2>3. CASE \E t \in Threads : Worker(t)
    BY <2>3, WorkerKeeps
  <2>4. CASE SpuriousWakeup
    BY <2>4, SpuriousWakeupKeeps
  <2>5. CASE Closed \/ UNCHANGED vars
    BY <2>5, StutterKeeps DEF Closed
  <2>. QED BY <2>1, <2>2, <2>3, <2>4, <2>5 DEF Next
<1>. QED BY <1>1, <1>2, PTL DEF Spec

\* What submit_packet and ff_thread_decode_frame index is a thread of the
\* array, and every field has its type.
THEOREM Typing == Spec => []TypeOK
<1>1. IInv => TypeOK
  BY Implies
<1>. QED BY <1>1, Invariant, PTL

\* The threads of a hwaccel run one at a time, and an unsafe one never while
\* the user is out of the decoder (frame_worker_thread, ff_thread_finish_setup).
THEOREM HwaccelRunsAlone == Spec => []HwaccelIsSerial
<1>1. IInv => HwaccelIsSerial
  BY Implies
<1>. QED BY <1>1, Invariant, PTL

\* A thread asks for get_buffer2 or get_format only while submit_packet serves it.
THEOREM CallbacksHaveTheUser == Spec => []CallbacksAreServed
<1>1. IInv => CallbacksAreServed
  BY Implies
<1>. QED BY <1>1, Invariant, PTL

\* "av_assert0(!p->hwaccel_serializing)" before a thread takes hwaccel_mutex,
\* "av_assert0(fctx->async_lock)" when async_lock is given back, by a thread
\* (async_unlock in frame_worker_thread) or by the user who comes in.
AssertionsHold ==
    /\ \A t \in Threads : pc[t] = "serialize" => ~hwSer[t]
    /\ \A t \in Threads : pc[t] = "unlock" /\ asyncSer[t] => asyncLock
    /\ upc = "idle" => asyncLock

\* The assertions of the code about its locks are never violated.
THEOREM Assertions == Spec => []AssertionsHold
<1>1. IInv => AssertionsHold
  BY DEF IInv, Thread, HoldsHw, AsyncIsHeld, HasAsync, Outside, AssertionsHold
<1>. QED BY <1>1, Invariant, PTL

-----------------------------------------------------------------------------
(* What contexts know, for a codec with update_thread_context              *)

\* The thread that has the newest packet, or the context of the newest
Latest == IF upc = "serve" THEN nextDecoding ELSE prev

\* It has a packet that its context does not know of yet.
Parses(t) ==
    /\ state[t] # "input_ready"
    /\ pc[t] \in AtRest \union {"serialize", "parse", "format", "buffer", "answer", "got", "setup"}

\* Only the latest thread does, and until then its context knows of the packet
\* before.  While there is none the next packet goes to the first thread.
Known ==
    codec.update =>
        /\ \A t \in Threads : Parses(t) =>
              /\ t = Latest /\ state[t] # "setup_finished" /\ avpkt[t] \in {0, sent}
              /\ ctx[t].last = IF avpkt[t] = 0 THEN sent ELSE avpkt[t] - 1
        /\ Latest # User /\ ~Parses(Latest) => ctx[Latest].last = sent
        /\ Latest = User => nextDecoding = 0 /\ ctx[0].last = sent

LEMMA KnownImplies ==
    ASSUME IInv, Known PROVE ContextIsCurrent
BY DEF IInv, Thread, Rests, AtRest, Known, Parses, ContextIsCurrent

\* A worker's context knows of the packet when it is no longer parsed.
LEMMA WorkerKnows ==
    ASSUME IInv, Known, codec.update, NEW t \in Threads,
           UNCHANGED <<codec, fctx, user, sent, avpkt>>,
           \A u \in Threads \ {t} :
              UNCHANGED <<state[u], pc[u]>> /\ ctx'[u].last = ctx[u].last,
           Parses(t)' => Parses(t) /\ ctx'[t].last = ctx[t].last /\ state'[t] # "setup_finished",
           ~Parses(t)' =>
              ctx'[t].last = IF Parses(t) /\ avpkt[t] # 0 THEN avpkt[t] ELSE ctx[t].last
    PROVE  Known'
<1>1. /\ Latest' = Latest /\ codec'.update /\ UNCHANGED <<avpkt, sent, nextDecoding>>
      /\ Latest \in Threads \union {User} \/ upc = "serve"
  BY DEF Latest, fctx, user, IInv, Types, UserTypes
<1>2. \A u \in Threads \ {t} : Parses(u)' <=> Parses(u)
  BY DEF Parses
<1>3. ASSUME NEW u \in Threads, Parses(u)'
      PROVE  /\ u = Latest' /\ state'[u] # "setup_finished" /\ avpkt'[u] \in {0, sent'}
             /\ ctx'[u].last = IF avpkt'[u] = 0 THEN sent' ELSE avpkt'[u] - 1
  BY <1>1, <1>2, <1>3 DEF Known
<1>4. ASSUME Latest' # User, ~Parses(Latest)' PROVE ctx'[Latest'].last = sent'
  <2>1. Latest \in Threads
    BY <1>1, <1>4 DEF Latest, IInv, Types, UserTypes
  <2>2. CASE Latest = t
    <3>1. ~Parses(t)'
      BY <1>1, <1>4, <2>2
    <3>. QED BY <1>1, <1>4, <2>2, <3>1 DEF Known
  <2>3. CASE Latest # t
    <3>1. ~Parses(Latest)
      BY <1>1, <1>4, <2>1, <2>3, <1>2
    <3>. QED BY <1>1, <1>4, <2>1, <2>3, <3>1 DEF Known
  <2>. QED BY <2>2, <2>3
<1>5. ASSUME Latest' = User PROVE nextDecoding' = 0 /\ ctx'[0].last = sent'
  <2>1. ~Parses(t)
    BY <1>1, <1>5, Numbers DEF Known
  <2>. QED BY <1>1, <1>5, <2>1, Numbers DEF Known
<1>. QED BY <1>3, <1>4, <1>5 DEF Known

\* Steps that leave the contexts alone, and parse nothing
LEMMA QuietWorkerKnows ==
    ASSUME IInv, Known, codec.update, NEW t \in Threads,
           \/ CheckInput(t) \/ Serialize(t) \/ ReleaseBuffer(t) \/ AwaitProgress(t)
           \/ ReportProgress(t) \/ FinishHw(t) \/ FinishAsync(t) \/ FinishForCodec(t) \/ Unlock(t)
    PROVE  Known'
<1>. USE DEF locks, async, ptctx, serial, waits, worker, frames, fctx, user, hist
<1>1. /\ UNCHANGED <<codec, fctx, user, sent, state, avpkt, ctx>>
      /\ ThreadTypes /\ Thread(t)
  BY DEF CheckInput, Serialize, ReleaseBuffer, AwaitProgress, ReportProgress, FinishHw,
         FinishAsync, FinishForCodec, Unlock, IInv, Types
<1>2. /\ \A u \in Threads \ {t} : pc'[u] = pc[u]
      /\ \/ pc[t] \in AtRest \union {"serialize"}
            /\ pc'[t] \in AtRest \union {"serialize", "parse"}
         \/ pc[t] \in Finishing \union {"slices", "unlock"}
            /\ pc'[t] \in Finishing \union {"slices", "unlock", "ready"}
  <2>1. CASE CheckInput(t)
    BY <1>1, <2>1 DEF CheckInput, Finish, ThreadTypes, AtRest
  <2>2. CASE Serialize(t)
    BY <1>1, <2>2 DEF Serialize, ThreadTypes, AtRest
  <2>3. CASE ReleaseBuffer(t) \/ AwaitProgress(t) \/ ReportProgress(t)
    BY <1>1, <2>3 DEF ReleaseBuffer, AwaitProgress, ReportProgress, ThreadTypes
  <2>4. CASE FinishHw(t) \/ FinishAsync(t)
    BY <1>1, <2>4 DEF FinishHw, FinishAsync, ThreadTypes, Finishing
  <2>5. CASE FinishForCodec(t) \/ Unlock(t)
    BY <1>1, <2>5 DEF FinishForCodec, Finish, Unlock, ThreadTypes, Finishing
  <2>. QED BY <2>1, <2>2, <2>3, <2>4, <2>5
<1>3. Parses(t)' <=> Parses(t)
  BY <1>1, <1>2 DEF Parses, AtRest, Finishing
<1>4. Parses(t) => state[t] # "setup_finished"
  BY DEF Known
<1>. QED BY <1>1, <1>2, <1>3, <1>4, WorkerKnows

\* The state changes, but it was not parsing before, or it still is.
LEMMA ReadyKnows ==
    ASSUME IInv, Known, codec.update, NEW t \in Threads, FinishState(t) \/ Ready(t)
    PROVE  Known'
<1>. USE DEF locks, async, ptctx, serial, waits, worker, frames, fctx, user, hist
<1>1. /\ UNCHANGED <<codec, fctx, user, sent, avpkt, ctx>> /\ ThreadTypes /\ Thread(t)
      /\ \A u \in Threads \ {t} : pc'[u] = pc[u] /\ state'[u] = state[u]
  BY DEF FinishState, Ready, IInv, Types, ThreadTypes
<1>2. /\ pc[t] \in {"fs_state", "ready"}
      /\ pc'[t] \in {"slices", "unlock"} \/ state'[t] = "input_ready"
  <2>1. CASE FinishState(t)
    BY <1>1, <2>1 DEF FinishState, ThreadTypes, Thread, Works, Finishing
  <2>2. CASE Ready(t)
    BY <1>1, <2>2 DEF Ready, ThreadTypes
  <2>. QED BY <2>1, <2>2
<1>3. ~Parses(t) /\ ~Parses(t)'
  BY <1>2 DEF Parses, AtRest
<1>. QED BY <1>1, <1>3, WorkerKnows

LEMMA GetFormatKnows ==
    ASSUME IInv, Known, codec.update, NEW t \in Threads, GetFormat(t) \/ FormatAnswered(t)
    PROVE  Known'
<1>. USE DEF locks, async, ptctx, serial, waits, worker, frames, fctx, user, hist
<1>1. /\ UNCHANGED <<codec, fctx, user, sent, avpkt>> /\ ThreadTypes /\ Thread(t)
      /\ ctx[t] \in Contexts
      /\ \A u \in Threads \ {t} : pc'[u] = pc[u] /\ state'[u] = state[u]
  BY DEF GetFormat, FormatAnswered, IInv, Types, ThreadTypes
<1>2. /\ pc[t] \in {"parse", "format"} /\ pc'[t] \in {"format", "buffer"}
      /\ state'[t] \in {state[t], "get_format"}
  <2>1. CASE GetFormat(t)
    BY <1>1, <2>1 DEF GetFormat, ThreadTypes
  <2>2. CASE FormatAnswered(t)
    BY <1>1, <2>2 DEF FormatAnswered, ThreadTypes
  <2>. QED BY <2>1, <2>2
<1>3. \A u \in Threads : ctx'[u].last = ctx[u].last
  <2>1. CASE UNCHANGED ctx
    BY <2>1
  <2>2. CASE \E hw \in Formats : ctx' = [ctx EXCEPT ![t] = [ctx[t] EXCEPT !.hw = hw]]
    <3>1. PICK hw \in Formats : ctx' = [ctx EXCEPT ![t] = [ctx[t] EXCEPT !.hw = hw]]
      BY <2>2
    <3>2. [ctx[t] EXCEPT !.hw = hw].last = ctx[t].last
      BY <1>1 DEF Contexts
    <3>. QED BY <1>1, <3>1, <3>2 DEF ThreadTypes
  <2>. QED BY <1>1, <2>1, <2>2 DEF GetFormat, FormatAnswered, ThreadTypes
<1>4. Parses(t) /\ Parses(t)' /\ state'[t] # "setup_finished"
  <2>1. Parses(t)
    BY <1>1, <1>2 DEF Parses, Thread, Rests, AtRest
  <2>. QED BY <1>2, <2>1 DEF Parses, Known
<1>. QED BY <1>1, <1>3, <1>4, WorkerKnows

LEMMA GetBufferKnows ==
    ASSUME IInv, Known, codec.update, NEW t \in Threads, GetBuffer(t) \/ BufferAnswered(t)
    PROVE  Known'
<1>. USE DEF locks, async, ptctx, serial, waits, worker, frames, fctx, user, hist
<1>1. /\ UNCHANGED <<codec, fctx, user, sent, avpkt, ctx>> /\ ThreadTypes /\ Thread(t)
      /\ \A u \in Threads \ {t} : pc'[u] = pc[u] /\ state'[u] = state[u]
  BY DEF GetBuffer, BufferAnswered, IInv, Types, ThreadTypes
<1>2. /\ pc[t] \in {"parse", "buffer", "answer"} /\ pc'[t] \in {"setup", "answer", "got"}
      /\ state'[t] \in {state[t], "get_buffer"}
  <2>1. CASE GetBuffer(t)
    BY <1>1, <2>1 DEF GetBuffer, ThreadTypes
  <2>2. CASE BufferAnswered(t)
    BY <1>1, <2>2 DEF BufferAnswered, ThreadTypes
  <2>. QED BY <2>1, <2>2
<1>3. Parses(t) /\ Parses(t)' /\ state'[t] # "setup_finished"
  <2>1. Parses(t)
    BY <1>1, <1>2 DEF Parses, Thread, Rests, AtRest
  <2>. QED BY <1>2, <2>1 DEF Parses, Known
<1>. QED BY <1>1, <1>3, WorkerKnows

LEMMA OutputKeepsLast ==
    ASSUME codec \in Codecs, NEW c \in Contexts, NEW drain \in BOOLEAN
    PROVE  AfterOutput(c, drain).last = c.last
BY DEF AfterOutput, Contexts

LEMMA ParseReturnsKnows ==
    ASSUME IInv, Known, codec.update, NEW t \in Threads, ParseReturns(t)
    PROVE  Known'
<1>. USE DEF locks, async, ptctx, serial, waits, worker, frames, fctx, user, hist
<1>1. /\ UNCHANGED <<codec, fctx, user, sent, avpkt, state>> /\ ThreadTypes /\ Thread(t)
      /\ ctx[t] \in Contexts /\ codec \in Codecs /\ avpkt[t] \in 0..MaxPackets
      /\ pc[t] = "parse" /\ pc' = [pc EXCEPT ![t] = "unlock"]
  BY DEF ParseReturns, IInv, Types, ThreadTypes, UserTypes
<1>2. /\ \A u \in Threads \ {t} : ctx'[u] = ctx[u]
      /\ ctx'[t].last = IF avpkt[t] # 0 THEN avpkt[t] ELSE ctx[t].last
  <2>1. CASE avpkt[t] = 0
    <3>1. ctx' = [ctx EXCEPT ![t] = AfterOutput(ctx[t], TRUE)]
      BY <1>1, <2>1 DEF ParseReturns, ThreadTypes
    <3>2. AfterOutput(ctx[t], TRUE).last = ctx[t].last
      BY <1>1, OutputKeepsLast
    <3>. QED BY <1>1, <2>1, <3>1, <3>2 DEF ThreadTypes
  <2>2. CASE avpkt[t] # 0
    <3>1. ctx' = [ctx EXCEPT ![t] = [ctx[t] EXCEPT !.last = avpkt[t]]]
      BY <1>1, <2>2 DEF ParseReturns, ThreadTypes
    <3>2. [ctx[t] EXCEPT !.last = avpkt[t]].last = avpkt[t]
      BY <1>1 DEF Contexts
    <3>. QED BY <1>1, <2>2, <3>1, <3>2 DEF ThreadTypes
  <2>. QED BY <2>1, <2>2
<1>3. Parses(t) /\ ~Parses(t)' /\ \A u \in Threads \ {t} : pc'[u] = pc[u]
  BY <1>1 DEF Parses, Thread, Rests, AtRest, ThreadTypes
<1>. QED BY <1>1, <1>2, <1>3, WorkerKnows

LEMMA GotBufferKnows ==
    ASSUME IInv, Known, codec.update, NEW t \in Threads, GotBuffer(t)
    PROVE  Known'
<1>. USE DEF locks, async, ptctx, serial, waits, worker, frames, fctx, user, hist
<1>1. /\ UNCHANGED <<codec, fctx, user, sent, avpkt, state>> /\ ThreadTypes /\ Thread(t)
      /\ ctx[t] \in Contexts /\ avpkt[t] \in 0..MaxPackets /\ avpkt[t] # 0 /\ pc[t] = "got"
  BY DEF GotBuffer, IInv, Types, ThreadTypes, Thread, Works
<1>2. [ctx[t] EXCEPT !.last = avpkt[t]].last = avpkt[t]
  BY <1>1 DEF Contexts
<1>3. /\ \A u \in Threads \ {t} : ctx'[u] = ctx[u] /\ pc'[u] = pc[u]
      /\ \/ pc'[t] = "setup" /\ ctx'[t] = ctx[t]
         \/ pc'[t] = "unlock" /\ ctx'[t].last = avpkt[t]
  <2>1. CASE pc' = [pc EXCEPT ![t] = "setup"] /\ UNCHANGED ctx
    BY <1>1, <2>1 DEF ThreadTypes
  <2>2. CASE /\ pc' = [pc EXCEPT ![t] = "unlock"]
             /\ ctx' = [ctx EXCEPT ![t] = [ctx[t] EXCEPT !.last = avpkt[t]]]
    BY <1>1, <1>2, <2>2 DEF ThreadTypes
  <2>. QED BY <1>1, <2>1, <2>2 DEF GotBuffer, ThreadTypes
<1>4. Parses(t)
  BY <1>1 DEF Parses, Thread, Rests, AtRest
<1>5. state'[t] # "setup_finished"
  BY <1>1, <1>4 DEF Known
<1>6. Parses(t)' <=> pc'[t] = "setup"
  BY <1>1, <1>3, <1>4 DEF Parses, AtRest
<1>. QED BY <1>1, <1>3, <1>4, <1>5, <1>6, WorkerKnows

LEMMA SetUpKnows ==
    ASSUME IInv, Known, codec.update, NEW t \in Threads, SetUp(t)
    PROVE  Known'
<1>. USE DEF locks, async, ptctx, serial, waits, worker, frames, fctx, user, hist
<1>1. /\ UNCHANGED <<codec, fctx, user, sent, avpkt, state>> /\ ThreadTypes /\ Thread(t)
      /\ ctx[t] \in Contexts /\ codec \in Codecs /\ avpkt[t] \in Packets /\ avpkt[t] # 0
      /\ avpkt[t] \in 0..MaxPackets /\ pc[t] = "setup"
  BY Numbers DEF SetUp, IInv, Types, ThreadTypes, UserTypes, Thread, Works, Packets
<1>2. /\ \A u \in Threads \ {t} : ctx'[u] = ctx[u]
      /\ ctx'[t].last = avpkt[t]
  <2>1. PICK ref \in {0, ctx[t].frame} :
          LET c == [Setup(t, ctx[t]) EXCEPT !.ref = IF codec.update THEN ref ELSE 0]
          IN  /\ out' = [out EXCEPT ![t] = Outputs(c, FALSE)]
              /\ ctx' = [ctx EXCEPT ![t] = AfterOutput(c, FALSE)]
    BY DEF SetUp
  <2>. DEFINE c == [Setup(t, ctx[t]) EXCEPT !.ref = IF codec.update THEN ref ELSE 0]
  <2>2. ref \in 0..MaxPackets /\ 0 \in 0..MaxPackets
    BY <1>1, Numbers DEF Contexts
  <2>3. Append(ctx[t].held, avpkt[t]) \in Seq(Packets)
    BY <1>1 DEF Contexts
  <2>4. c \in Contexts /\ c.last = avpkt[t]
    BY <1>1, <2>2, <2>3 DEF Contexts, Setup
  <2>5. ctx' = [ctx EXCEPT ![t] = AfterOutput(c, FALSE)]
    BY <2>1
  <2>. HIDE DEF c
  <2>6. AfterOutput(c, FALSE).last = c.last
    BY <1>1, <2>4, OutputKeepsLast
  <2>. QED BY <1>1, <2>4, <2>5, <2>6 DEF ThreadTypes
<1>3. /\ pc'[t] \in {"fs_hw", "fs_state", "slices"}
      /\ \A u \in Threads \ {t} : pc'[u] = pc[u]
  BY <1>1 DEF SetUp, Finish, ThreadTypes
<1>4. Parses(t) /\ ~Parses(t)'
  BY <1>1, <1>3 DEF Parses, Thread, Rests, AtRest
<1>. QED BY <1>1, <1>2, <1>3, <1>4, WorkerKnows

LEMMA WorkersKnow ==
    ASSUME IInv, Known, codec.update, NEW t \in Threads, Worker(t) PROVE Known'
BY QuietWorkerKnows, ReadyKnows, GetFormatKnows, GetBufferKnows, ParseReturnsKnows,
   GotBufferKnows, SetUpKnows DEF Worker

\* Most steps of the user hand nothing to a thread.
LEMMA UserKnows ==
    ASSUME IInv, Known, codec.update,
           UNCHANGED <<codec, prev, state, avpkt, sent>>,
           \A u \in Threads : pc'[u] = pc[u] \/ (pc[u] = "wait" /\ pc'[u] = "woken"),
           \A u \in Threads : ctx'[u].last = ctx[u].last,
           upc' = "serve" <=> upc = "serve",
           \/ nextDecoding' = nextDecoding
           \/ upc # "serve" /\ nextDecoding' = nextDecoding % NThreads
    PROVE  Known'
<1>1. /\ Latest \in Threads \union {User}
      /\ upc = "serve" \/ Latest = prev
  BY DEF Latest, IInv, Types, UserTypes
<1>2. Latest' = Latest
  BY DEF Latest
<1>3. \A u \in Threads : Parses(u)' <=> Parses(u)
  BY DEF Parses, AtRest
<1>4. nextDecoding = 0 => nextDecoding' = 0
  BY Numbers
<1>. QED BY <1>1, <1>2, <1>3, <1>4, Numbers DEF Known

\* Those that leave the contexts as well
LEMMA QuietUserKnows ==
    ASSUME IInv, Known, codec.update,
           \/ \E n \in 0..MaxPackets : Decode(n)
           \/ Park("flush") \/ Park("close") \/ Lock \/ ReleaseDelayedBuffers
           \/ AwaitPrev \/ AwaitOutput \/ TakeOutput \/ Return \/ ParkThread \/ Kill \/ Join
           \/ SpuriousWakeup
    PROVE  Known'
<1>. USE DEF locks, async, ptctx, serial, waits, worker, frames, fctx, user, hist
<1>1. UNCHANGED <<codec, prev, state, avpkt, sent, ctx>> /\ ThreadTypes
  BY DEF Decode, Park, Lock, ReleaseDelayedBuffers, AwaitPrev, AwaitOutput, TakeOutput, Return,
         ParkThread, Kill, Join, SpuriousWakeup, IInv, Types
<1>2. upc' = "serve" <=> upc = "serve"
  <2>1. CASE \E n \in 0..MaxPackets : Decode(n)
    BY <2>1 DEF Decode, Submitted
  <2>2. CASE Park("flush") \/ Park("close") \/ Lock \/ ReleaseDelayedBuffers
    BY <2>2 DEF Park, Lock, ReleaseDelayedBuffers, Fails
  <2>3. CASE AwaitPrev \/ AwaitOutput \/ TakeOutput \/ Return
    BY <2>3 DEF AwaitPrev, AwaitOutput, TakeOutput, Return
  <2>4. CASE ParkThread \/ Kill \/ Join \/ SpuriousWakeup
    BY <2>4 DEF ParkThread, Kill, Join, SpuriousWakeup
  <2>. QED BY <2>1, <2>2, <2>3, <2>4
<1>3. \/ nextDecoding' = nextDecoding
      \/ upc # "serve" /\ nextDecoding' = nextDecoding % NThreads
  <2>1. CASE \E n \in 0..MaxPackets : Decode(n)
    BY <2>1 DEF Decode, Submitted
  <2>2. CASE TakeOutput
    BY <2>2 DEF TakeOutput, Wrapped
  <2>. QED BY <2>1, <2>2 DEF Park, Lock, ReleaseDelayedBuffers, AwaitPrev, AwaitOutput, Return,
                             ParkThread, Kill, Join, SpuriousWakeup
<1>4. \A u \in Threads : pc'[u] = pc[u] \/ (pc[u] = "wait" /\ pc'[u] = "woken")
  <2>1. pc' = pc \/ \E x \in 0..NThreads : pc' = Signalled(x)
    <3>1. CASE Kill
      BY <3>1 DEF Kill, IInv, Types, UserTypes
    <3>2. CASE SpuriousWakeup
      BY <3>2, Numbers DEF SpuriousWakeup, Threads
    <3>. QED BY <3>1, <3>2 DEF Decode, Park, Lock, ReleaseDelayedBuffers, AwaitPrev, AwaitOutput,
                               TakeOutput, Return, ParkThread, Join
  <2>2. CASE pc' = pc
    BY <2>2
  <2>3. CASE \E x \in 0..NThreads : pc' = Signalled(x)
    BY <1>1, <2>3, SignalledWakes
  <2>. QED BY <2>1, <2>2, <2>3
<1>. QED BY <1>1, <1>2, <1>3, <1>4, UserKnows

\* The thread gets a context that knows of all packets before.
LEMMA SubmitKnows ==
    ASSUME IInv, Known, codec.update, Submit PROVE Known'
<1>. USE DEF locks, async, ptctx, serial, waits, worker, frames, fctx, user, hist
<1>0. PICK nd \in Threads : nd = nextDecoding
  BY DEF Submit, IInv, Types, UserTypes
<1>1. /\ codec' = codec /\ ThreadTypes /\ upc = "prev" /\ nd = nextDecoding
      /\ ctx' = UpdateContext(nd, prev) /\ prev \in Threads \union {User}
      /\ sent \in 0..MaxPackets /\ upkt \in {0, sent + 1} /\ Latest = prev
      /\ ~PrevSetsUp
  BY <1>0 DEF Submit, IInv, Types, UserTypes, Latest
<1>2. \A u \in Threads : ~Parses(u)
  <2>1. SUFFICES ASSUME NEW u \in Threads, Parses(u) PROVE FALSE
    OBVIOUS
  <2>2. u = prev /\ state[u] # "setup_finished" /\ state[u] # "input_ready"
    BY <1>1, <2>1 DEF Known, Parses
  <2>3. state[u] \notin {"get_buffer", "get_format"}
    BY <1>1, <2>1 DEF IInv, Thread, Asks
  <2>4. state[u] # "setting_up"
    BY <1>1, <2>2, Numbers DEF PrevSetsUp
  <2>. QED BY <1>1, <2>2, <2>3, <2>4 DEF ThreadTypes, States
<1>3. /\ \A u \in Threads \ {nd} : ctx'[u] = ctx[u]
      /\ ctx'[nd].last = sent
  <2>1. CASE prev = User
    <3>1. ctx' = ctx /\ nd = 0
      BY <1>1, <2>1 DEF UpdateContext, Known
    <3>. QED BY <1>1, <2>1, <3>1 DEF Known
  <2>2. CASE prev = nd
    <3>1. ctx' = ctx
      BY <1>1, <2>2 DEF UpdateContext
    <3>. QED BY <1>0, <1>1, <1>2, <2>2, <3>1, Numbers DEF Known
  <2>3. CASE prev \in Threads /\ prev # nd
    <3>1. ctx' = [ctx EXCEPT ![nd] = ctx[prev]]
      BY <1>1, <2>3, Numbers DEF UpdateContext
    <3>2. ctx[prev].last = sent
      BY <1>1, <1>2, <2>3, Numbers DEF Known
    <3>. QED BY <1>1, <2>3, <3>1, <3>2 DEF ThreadTypes
  <2>. QED BY <1>1, <2>1, <2>2, <2>3
<1>4. CASE Fails /\ UNCHANGED <<fctx, avpkt, state, pc, sent>>
  <2>1. upc' = "finish" /\ Latest' = prev
    BY <1>4 DEF Fails, Latest
  <2>2. \A u \in Threads : ~Parses(u)'
    BY <1>2, <1>4 DEF Parses
  <2>3. ASSUME prev # User PROVE ctx'[prev].last = sent
    <3>1. ctx[prev].last = sent
      BY <1>1, <1>2, <2>3 DEF Known
    <3>. QED BY <1>1, <1>3, <2>3, <3>1
  <2>4. ASSUME prev = User PROVE nextDecoding' = 0 /\ ctx'[0].last = sent
    BY <1>1, <1>3, <1>4, <2>4 DEF Known
  <2>. QED BY <1>1, <1>4, <2>1, <2>2, <2>3, <2>4 DEF Known
<1>5. CASE /\ avpkt' = [avpkt EXCEPT ![nd] = upkt]
           /\ state' = [state EXCEPT ![nd] = "setting_up"] /\ pc' = Signalled(nd)
           /\ sent' = IF upkt = 0 THEN sent ELSE upkt
           /\ IF Served
              THEN upc' = "serve" /\ UNCHANGED <<prev, nextDecoding, delaying>>
              ELSE prev' = nd /\ Submitted(nd + 1, upkt)
  <2>1. pc[nd] \in {"wait", "woken"}
    <3>1. UserHolds(nd)
      BY <1>1 DEF UserHolds
    <3>. QED BY <3>1 DEF IInv, Thread, Rests
  <2>2. \A u \in Threads : pc'[u] = pc[u] \/ (pc[u] = "wait" /\ pc'[u] = "woken")
    BY <1>1, <1>5, SignalledWakes
  <2>3. /\ \A u \in Threads \ {nd} : state'[u] = state[u]
        /\ state'[nd] = "setting_up" /\ avpkt'[nd] = upkt
    BY <1>1, <1>5 DEF ThreadTypes
  <2>4. Latest' = nd
    <3>1. CASE Served
      BY <1>0, <1>5, <3>1 DEF Latest
    <3>2. CASE ~Served
      BY <1>5, <3>2 DEF Latest, Submitted
    <3>. QED BY <3>1, <3>2
  <2>5. \A u \in Threads \ {nd} : ~Parses(u)'
    BY <1>2, <2>2, <2>3 DEF Parses, AtRest
  <2>6. Parses(nd)'
    BY <2>1, <2>2, <2>3 DEF Parses, AtRest
  <2>7. avpkt'[nd] \in {0, sent'} /\ ctx'[nd].last = IF avpkt'[nd] = 0 THEN sent' ELSE avpkt'[nd] - 1
    BY <1>1, <1>3, <1>5, <2>3
  <2>. QED BY <2>3, <2>4, <2>5, <2>6, <2>7, Numbers DEF Known
<1>. QED BY <1>0, <1>1, <1>4, <1>5 DEF Submit

\* Who is served goes on to be the thread before.
LEMMA ServeKnows ==
    ASSUME IInv, Known, codec.update, Serve PROVE Known'
<1>. USE DEF locks, async, ptctx, serial, waits, worker, frames, fctx, user, hist
<1>0. PICK p \in Threads : p = nextDecoding
  BY DEF Serve, IInv, Types, UserTypes
<1>1. /\ UNCHANGED <<codec, avpkt, ctx, pc, sent>> /\ ThreadTypes /\ upc = "serve"
      /\ \/ UNCHANGED <<state, prev, nextDecoding, upc>>
         \/ /\ state[p] \in {"get_buffer", "get_format"}
            /\ state' = [state EXCEPT ![p] = "setting_up"]
            /\ UNCHANGED <<prev, nextDecoding, upc>>
         \/ prev' = p /\ Submitted(p + 1, upkt) /\ UNCHANGED state
  BY <1>0 DEF Serve, IInv, Types
<1>2. Latest = p /\ Latest' = p /\ codec'.update
  BY <1>0, <1>1 DEF Latest, Submitted
<1>3. /\ \A u \in Threads : Parses(u)' <=> Parses(u)
      /\ \A u \in Threads : state'[u] = "setup_finished" => state[u] = "setup_finished"
  BY <1>1 DEF Parses, ThreadTypes
<1>. QED BY <1>0, <1>1, <1>2, <1>3, Numbers DEF Known

\* When all threads are parked the first gets the newest context.
LEMMA FlushKnows ==
    ASSUME IInv, Known, codec.update, Flush \/ Close PROVE Known'
<1>. USE DEF locks, async, ptctx, serial, waits, worker, frames, fctx, user, hist
<1>1. /\ UNCHANGED <<codec, pc, state, avpkt, sent>> /\ ThreadTypes /\ UserTypes
      /\ (Parked("flush") \/ Parked("close")) /\ Latest = prev /\ prev \in Threads \union {User}
      /\ upc # "serve" /\ upc' # "serve"
  BY DEF Flush, Close, Parked, IInv, Types, UserTypes, Latest
<1>2. \A u \in Threads : ~Parses(u) /\ ~Parses(u)'
  BY <1>1, AllAtRest DEF Parses
<1>3. CASE UNCHANGED <<prev, nextDecoding, ctx>>
  BY <1>1, <1>2, <1>3, Numbers DEF Known, Latest
<1>4. CASE ~UNCHANGED <<prev, nextDecoding, ctx>>
  <2>. DEFINE c == UpdateContext(0, prev)
  <2>1. /\ \/ ctx' = [t \in Threads |-> Flushed(c[t])] /\ prev' = User /\ nextDecoding' = 0
           \/ ctx' = c /\ UNCHANGED <<prev, nextDecoding>>
    BY <1>4 DEF Flush, Close
  <2>2. c \in [Threads -> Contexts]
    BY <1>1, Numbers, ContextIsUpdated
  <2>3. c[0].last = sent /\ (prev # User => c[prev].last = sent)
    <3>1. CASE prev \in Threads /\ prev # 0
      <4>1. c = [ctx EXCEPT ![0] = ctx[prev]]
        BY <3>1, Numbers DEF UpdateContext
      <4>2. ctx[prev].last = sent
        BY <1>1, <1>2, <3>1, Numbers DEF Known
      <4>. QED BY <1>1, <3>1, <4>1, <4>2, Numbers DEF ThreadTypes
    <3>2. CASE prev = User \/ prev = 0
      <4>1. c = ctx
        BY <3>2 DEF UpdateContext
      <4>2. ctx[0].last = sent
        BY <1>1, <1>2, <3>2, Numbers DEF Known
      <4>. QED BY <3>2, <4>1, <4>2
    <3>. QED BY <1>1, <3>1, <3>2
  <2>. HIDE DEF c
  <2>4. CASE ctx' = [t \in Threads |-> Flushed(c[t])] /\ prev' = User /\ nextDecoding' = 0
    <3>1. ctx'[0] = Flushed(c[0]) /\ c[0] \in Contexts
      BY <2>2, <2>4, Numbers
    <3>2. ctx'[0].last = sent
      BY <2>3, <3>1 DEF Flushed, NewContext
    <3>. QED BY <1>1, <1>2, <2>4, <3>2 DEF Known, Latest
  <2>5. CASE ctx' = c /\ UNCHANGED <<prev, nextDecoding>>
    BY <1>1, <1>2, <2>3, <2>5, Numbers DEF Known, Latest
  <2>. QED BY <2>1, <2>4, <2>5
<1>. QED BY <1>3, <1>4

LEMMA KnownInitially == Init => Known
BY Numbers DEF Init, Known, Latest, Parses, NewContext

LEMMA CodecStays == ASSUME [Next]_vars PROVE codec' = codec
<1>1. CASE Calls
  BY <1>1 DEF Calls, Decode, Park
<1>2. CASE InCall
  BY <1>2 DEF InCall, Lock, ReleaseDelayedBuffers, AwaitPrev, Submit, Serve, AwaitOutput,
              TakeOutput, Return, ParkThread, Flush, Close, Kill, Join
<1>3. ASSUME NEW t \in Threads, Worker(t) PROVE codec' = codec
  BY <1>3 DEF Worker, CheckInput, Serialize, ParseReturns, GetFormat, FormatAnswered,
              GetBuffer, BufferAnswered, GotBuffer, SetUp, ReleaseBuffer, AwaitProgress,
              ReportProgress, FinishHw, FinishAsync, FinishState, FinishForCodec, Unlock, Ready
<1>4. CASE SpuriousWakeup \/ Closed \/ UNCHANGED vars
  BY <1>4 DEF SpuriousWakeup, Closed, vars
<1>. QED BY <1>1, <1>2, <1>3, <1>4 DEF Next

LEMMA AllKnow ==
    ASSUME IInv, Known, [Next]_vars PROVE Known'
<1>1. CASE ~codec.update
  <2>1. codec' = codec
    BY CodecStays
  <2>. QED BY <1>1, <2>1 DEF Known
<1>2. CASE codec.update
  <2>1. CASE Calls
    <3>1. CASE Park("flush") \/ Park("close")
      BY <1>2, <3>1, QuietUserKnows
    <3>2. CASE Decode(0)
      <4>1. 0 \in 0..MaxPackets
        BY Numbers
      <4>. QED BY <1>2, <3>2, <4>1, QuietUserKnows
    <3>3. CASE sent < MaxPackets /\ Decode(sent + 1)
      <4>1. sent + 1 \in 0..MaxPackets
        BY <3>3, Numbers DEF IInv, Types, UserTypes
      <4>. QED BY <1>2, <3>3, <4>1, QuietUserKnows
    <3>. QED BY <2>1, <3>1, <3>2, <3>3 DEF Calls
  <2>2. CASE InCall
    BY <1>2, <2>2, QuietUserKnows, SubmitKnows, ServeKnows, FlushKnows DEF InCall
  <2>3. CASE \E t \in Threads : Worker(t)
    BY <1>2, <2>3, WorkersKnow
  <2>4. CASE SpuriousWakeup
    BY <1>2, <2>4, QuietUserKnows
  <2>5. CASE Closed \/ UNCHANGED vars
    <3>1. UNCHANGED <<codec, prev, state, avpkt, sent, pc, ctx, upc, nextDecoding>>
      BY <2>5 DEF Closed, vars, fctx, ptctx, worker, user, hist
    <3>. QED BY <1>2, <3>1, UserKnows
  <2>. QED BY <2>1, <2>2, <2>3, <2>4, <2>5 DEF Next
<1>. QED BY <1>1, <1>2

\* A thread decodes a packet with a context that knows of the packet before,
\* copied from the thread that has it when that has finished its setup
\* (submit_packet, update_context_from_thread), also after a flush.
THEOREM ContextsAreCurrent == Spec => []ContextIsCurrent
<1>1. Init => Known
  BY KnownInitially
<1>2. IInv /\ Known /\ [Next]_vars => Known'
  BY AllKnow
<1>3. IInv /\ Known => ContextIsCurrent
  BY KnownImplies
<1>. QED BY <1>1, <1>2, <1>3, Invariant, PTL DEF Spec
-----------------------------------------------------------------------------
(* The order of the output                                                 *)

\* How far a thread is from the one whose output is next
Rank(t) == IF t >= nextFinished THEN t - nextFinished ELSE t - nextFinished + NThreads

\* It works, or has output that was not taken.
Active(t) == state[t] # "input_ready" \/ out[t] # Nothing

\* It works, and has not said yet what it outputs.
Undecided(t) ==
    /\ state[t] # "input_ready"
    /\ \/ pc[t] \in AtRest \union {"serialize", "parse", "format", "buffer", "answer", "got", "setup"}
       \/ pc[t] \in Finishing /\ then[t] \in {"serialize", "got"}

\* The packet that its output is of, or will be if the codec holds none back
Item(t) == IF Undecided(t) THEN avpkt[t] ELSE out[t].pkt

\* The frames that are held back by the context of the newest packet
Newest == IF Latest = User THEN 0 ELSE Latest
Held   == ctx[Newest].held

\* A call for a packet, or for an empty one of a codec with delay, submits it.
Submits == upkt # 0 \/ codec.delay > 0
Limit   == NThreads - 1 - (IF codec.ffv1 THEN 1 ELSE 0)

\* Threads follow each other in the ring; the search for output starts with
\* the oldest.
Ring ==
    /\ prev = User => nextDecoding = 0
    /\ prev # User => nextDecoding = prev + 1 \/ (prev = NThreads - 1 /\ nextDecoding = 0)
    /\ upc \in {"lock", "release", "prev", "serve"} => fin = nextFinished /\ Submits
    /\ upc = "output" /\ upkt # 0 => fin = nextFinished /\ ~delaying
    /\ delaying /\ draining = "no" => nextFinished = 0
    /\ upc \in Calling => (upkt = 0 <=> draining = "yes") /\ draining # "done"
    /\ upc \notin Calling => upkt = 0 /\ ret = Nothing
    /\ upc \in Calling \ {"finish"} => ret = Nothing
    /\ upc \in {"serve", "output"} /\ Submits => Latest # User /\ avpkt[Latest] = upkt

\* Nothing more is to be output.
Empty == draining = "done" \/ (upc = "finish" /\ upkt = 0 /\ ret = Nothing)

\* Active threads are between the oldest and the latest, and do not reach
\* around the ring to the next.
Room ==
    /\ \A t \in Threads : Active(t) => Latest # User /\ Rank(t) <= Rank(Latest)
    /\ \A t \in Threads : Active(t) /\ (upc = "output" => ~Submits) /\ upc # "serve" =>
          Rank(t) < Rank(nextDecoding)
    /\ upc = "output" => \A t \in Threads : Rank(t) < Rank(fin) => ~Active(t)
    /\ upc = "output" /\ Submits => Rank(prev) <= Limit
    /\ ~(upc = "output" /\ Submits) => Empty \/ upc = "closed" \/ Rank(nextDecoding) <= Limit
    /\ Empty => \A t \in Threads : ~Active(t)

\* What a thread outputs, and what its callbacks return before
Outcomes ==
    /\ \A t \in Threads :
          /\ Undecided(t) => out[t] \in {Nothing, Error(0)}
          /\ ~Undecided(t) => out[t] # Error(0)
          /\ state[t] = "get_buffer" => pc[t] = "answer"
          /\ Len(ctx[t].held) <= codec.delay
    /\ \A t \in Threads : Item(t) # 0 => base < Item(t) /\ Item(t) <= sent

\* Results that must be in order: of one kind, or one of them is not known.
Alike(t, u) == Undecided(t) \/ Undecided(u) \/ out[t].kind = out[u].kind

Threaded ==
    /\ \A t, u \in Threads :
          Item(t) # 0 /\ Item(u) # 0 /\ t # u =>
             /\ Item(t) # Item(u)
             /\ Rank(t) < Rank(u) /\ Alike(t, u) => Item(t) < Item(u)

\* What the user has, then what he is about to be given, then the threads'
Precedes(r, t) ==
    r.pkt # 0 /\ Item(t) # 0 =>
        /\ Item(t) # r.pkt
        /\ Undecided(t) \/ out[t].kind = r.kind => r.pkt < Item(t)

Follows(i, r) ==
    /\ delivered[i].pkt # r.pkt
    /\ delivered[i].kind = r.kind => delivered[i].pkt < r.pkt

Past ==
    /\ delivered \in Seq(Results)
    /\ \A i \in DOMAIN delivered : base < delivered[i].pkt /\ delivered[i].pkt <= sent
    /\ \A i, j \in DOMAIN delivered : i < j => Follows(i, delivered[j])
    /\ ret.pkt # 0 => base < ret.pkt /\ ret.pkt <= sent
    /\ ret.pkt # 0 => \A i \in DOMAIN delivered : Follows(i, ret)
    /\ \A i \in DOMAIN delivered, t \in Threads : Precedes(delivered[i], t)
    /\ \A t \in Threads : Precedes(ret, t)

\* The frames held back come last, and before what is decoded.
IsBefore(r, k) == r.pkt # Held[k] /\ (r.kind = "frame" => r.pkt < Held[k])

Late ==
    /\ \A k \in DOMAIN Held : base < Held[k] /\ Held[k] <= sent
    /\ \A j, k \in DOMAIN Held : j < k => Held[j] < Held[k]
    /\ \A i \in DOMAIN delivered, k \in DOMAIN Held : IsBefore(delivered[i], k)
    /\ \A k \in DOMAIN Held : IsBefore(ret, k)
    /\ \A t \in Threads, k \in DOMAIN Held :
          /\ IsBefore(out[t], k)
          /\ Undecided(t) /\ avpkt[t] # 0 => Held[k] < avpkt[t]

\* Every packet is somewhere.
Conserved ==
    upc \in Calling \union {"idle"} =>
        \A n \in base + 1 .. sent :
            \/ n \in Given \/ ret.pkt = n
            \/ \E k \in DOMAIN Held : Held[k] = n
            \/ \E t \in Threads : Item(t) = n

\* The end
Ends ==
    /\ upc \in {"serve", "output"} /\ upkt = 0 /\ Submits /\ ~Undecided(Latest)
       /\ out[Latest] = Nothing => Held = <<>>
    /\ upc = "finish" /\ upkt = 0 /\ ret = Nothing => Held = <<>>
    /\ EofComplete

\* A picture that is output is complete, or a thread that is no younger
\* decodes into it.
Decodes(s, n) == /\ avpkt[s] = n
                 /\ pc[s] = "slices" \/ (pc[s] \in Finishing /\ then[s] = "slices")
Complete ==
    /\ \A i \in Indices("frame") : delivered[i].pkt \in progress
    /\ ret.kind = "frame" => ret.pkt \in progress
    /\ \A t \in Threads : out[t].kind = "frame" =>
          out[t].pkt \in progress \/ \E s \in Threads : Decodes(s, out[t].pkt) /\ Rank(s) <= Rank(t)
    /\ \A k \in DOMAIN Held : Held[k] \in progress \/ \E s \in Threads : Decodes(s, Held[k])

Line == Ring /\ Room /\ Outcomes /\ Threaded /\ Past /\ Late /\ Conserved /\ Ends /\ Complete

-----------------------------------------------------------------------------
(* Ranks                                                                   *)

LEMMA Ranks ==
    ASSUME IInv
    PROVE  /\ nextFinished \in Threads /\ NThreads \in Nat /\ NThreads > 1
           /\ \A t \in Threads : Rank(t) \in 0 .. NThreads - 1 /\ t \in Int
           /\ \A t, u \in Threads : Rank(t) = Rank(u) => t = u
           /\ Rank(nextFinished) = 0
BY Numbers DEF IInv, Types, UserTypes, Rank, Threads

\* The thread that follows in the ring
After(t) == IF t = NThreads - 1 THEN 0 ELSE t + 1

LEMMA RankAfter ==
    ASSUME IInv, NEW t \in Threads
    PROVE  /\ After(t) \in Threads
           /\ Rank(After(t)) = IF Rank(t) = NThreads - 1 THEN 0 ELSE Rank(t) + 1
<1>1. After(t) \in Threads
  BY Numbers DEF After, Threads
<1>2. CASE t = NThreads - 1
  BY <1>2, Ranks DEF After, Rank, Threads
<1>3. CASE t # NThreads - 1
  BY <1>3, Ranks DEF After, Rank, Threads
<1>. QED BY <1>1, <1>2, <1>3

LEMMA Wraps ==
    ASSUME NEW t \in Threads
    PROVE  (t + 1) % NThreads = After(t) /\ t % NThreads = t /\ NThreads % NThreads = 0
<1>1. t \in Int /\ 0 <= t /\ t < NThreads /\ NThreads \in Nat /\ NThreads > 1
  BY Numbers DEF Threads
<1>2. t % NThreads = t /\ NThreads % NThreads = 0
  BY ONLY <1>1
<1>3. CASE t = NThreads - 1
  BY <1>1, <1>2, <1>3 DEF After
<1>4. CASE t # NThreads - 1
  <2>1. (t + 1) % NThreads = t + 1
    BY ONLY <1>1, <1>4
  <2>. QED BY <1>1, <1>4, <2>1 DEF After
<1>. QED BY <1>2, <1>3, <1>4

LEMMA ResultFields ==
    \A r \in Results : /\ r.pkt \in 0 .. MaxPackets /\ r.pkt \in Nat
                       /\ r.kind = "frame" => r.pkt \in Packets
                       /\ r.kind \in {"none", "frame", "error"}
                       /\ r.kind = "none" <=> r = Nothing
BY Numbers DEF Results, Packets, Nothing, Error, Frame

LEMMA HeldTypes ==
    ASSUME IInv
    PROVE  /\ Newest \in Threads /\ Held \in Seq(Packets)
           /\ \A k \in DOMAIN Held : Held[k] \in Packets /\ Held[k] \in Nat
<1>1. Newest \in Threads
  BY Numbers DEF IInv, Types, UserTypes, Newest, Latest
<1>2. Held \in Seq(Packets)
  BY <1>1 DEF IInv, Types, ThreadTypes, Contexts, Held
<1>. QED BY <1>1, <1>2, Numbers DEF Packets

\* The steps that change nothing of the order
LEMMA OrderIsKept ==
    ASSUME IInv, Line,
           UNCHANGED <<codec, nextFinished, avpkt, sent, base, delivered>>,
           ret' = ret \/ (ret.pkt = 0 /\ ret.kind # "frame" /\ ret' \in {Nothing, Error(0)}),
           Held' = Held, \A u \in Threads : Len(ctx'[u].held) <= codec.delay,
           \A u \in Threads : Undecided(u)' <=> Undecided(u),
           \A u \in Threads :
              out'[u] = out[u] \/ (Undecided(u) /\ out'[u] \in {Nothing, Error(0)}),
           \A u \in Threads : state'[u] = "get_buffer" => pc'[u] = "answer",
           progress \subseteq progress',
           \A s \in Threads, n \in Nat : Decodes(s, n) => Decodes(s, n)' \/ n \in progress',
           upc' \in Calling \union {"idle"} => upc \in Calling \union {"idle"}
    PROVE  Outcomes' /\ Threaded' /\ Past' /\ Late' /\ Conserved' /\ Complete'
<1>1. \A u \in Threads : /\ Item(u)' = Item(u) /\ Rank(u)' = Rank(u)
                         /\ out'[u].pkt = out[u].pkt
                         /\ out'[u].kind = "frame" <=> out[u].kind = "frame"
                         /\ ~Undecided(u) => out'[u] = out[u]
  <2>1. \A u \in Threads : Undecided(u) => out[u] \in {Nothing, Error(0)}
    BY DEF Line, Outcomes
  <2>. QED BY <2>1 DEF Item, Rank, Nothing, Error
<1>2. /\ ret'.pkt = ret.pkt /\ (ret'.kind = "frame" <=> ret.kind = "frame")
      /\ ret.pkt # 0 => ret' = ret
  BY DEF Nothing, Error
<1>3. Outcomes'
  BY <1>1 DEF Line, Outcomes
<1>4. Threaded'
  <2>1. \A t, u \in Threads : Alike(t, u)' <=> Alike(t, u)
    BY <1>1 DEF Alike
  <2>. QED BY <1>1, <2>1 DEF Line, Threaded
<1>5. Past'
  <2>1. \A i \in DOMAIN delivered, t \in Threads : Precedes(delivered[i], t)'
    BY <1>1 DEF Line, Past, Precedes
  <2>2. \A t \in Threads : Precedes(ret, t)'
    BY <1>1, <1>2 DEF Line, Past, Precedes
  <2>3. ret'.pkt # 0 => \A i \in DOMAIN delivered : Follows(i, ret)'
    BY <1>2 DEF Line, Past, Follows
  <2>4. \A i, j \in DOMAIN delivered : i < j => Follows(i, delivered[j])'
    BY DEF Line, Past, Follows
  <2>. QED BY <1>2, <2>1, <2>2, <2>3, <2>4 DEF Line, Past
<1>6. Late'
  <2>1. \A i \in DOMAIN delivered, k \in DOMAIN Held : IsBefore(delivered[i], k)'
    BY DEF Line, Late, IsBefore
  <2>2. \A k \in DOMAIN Held : IsBefore(ret, k)'
    BY <1>2 DEF Line, Late, IsBefore
  <2>3. \A t \in Threads, k \in DOMAIN Held : IsBefore(out[t], k)'
    BY <1>1 DEF Line, Late, IsBefore
  <2>. QED BY <2>1, <2>2, <2>3 DEF Line, Late
<1>7. Conserved'
  BY <1>1, <1>2 DEF Line, Conserved, Given
<1>8. Complete'
  <2>2. \A t \in Threads : out[t].pkt \in Nat
    BY ResultFields DEF IInv, Types, ThreadTypes
  <2>3. \A t \in Threads : out'[t].kind = "frame" =>
          out[t].pkt \in progress' \/ \E s \in Threads : Decodes(s, out[t].pkt)' /\ Rank(s)' <= Rank(t)'
    <3>. SUFFICES ASSUME NEW t \in Threads, out'[t].kind = "frame"
                  PROVE  out[t].pkt \in progress'
                         \/ \E s \in Threads : Decodes(s, out[t].pkt)' /\ Rank(s)' <= Rank(t)'
      OBVIOUS
    <3>1. out[t].pkt \in progress \/ \E s \in Threads : Decodes(s, out[t].pkt) /\ Rank(s) <= Rank(t)
      BY <1>1 DEF Line, Complete
    <3>. QED BY <1>1, <2>2, <3>1
  <2>4. \A k \in DOMAIN Held : Held[k] \in Nat
    BY HeldTypes
  <2>5. \A k \in DOMAIN Held : Held[k] \in progress' \/ \E s \in Threads : Decodes(s, Held[k])'
    BY <2>4 DEF Line, Complete
  <2>6. \A i \in Indices("frame")' : delivered'[i].pkt \in progress'
    BY DEF Line, Complete, Indices
  <2>7. ret'.kind = "frame" => ret'.pkt \in progress'
    BY <1>2 DEF Line, Complete
  <2>8. \A t \in Threads : out'[t].kind = "frame" =>
          out'[t].pkt \in progress' \/ \E s \in Threads : Decodes(s, out[t].pkt)' /\ Rank(s)' <= Rank(t)'
    BY <1>1, <2>3
  <2>. QED BY <1>1, <2>5, <2>6, <2>7, <2>8 DEF Complete, Decodes
<1>. QED BY <1>3, <1>4, <1>5, <1>6, <1>7, <1>8

-----------------------------------------------------------------------------
(* The steps of a worker                                                   *)

LEMMA RoomIsKept ==
    ASSUME Line, UNCHANGED <<codec, fctx, user, avpkt>>,
           \A u \in Threads : Active(u)' => Active(u)
    PROVE  Ring' /\ Room'
<1>. USE DEF fctx, user
<1>1. Latest' = Latest /\ (Submits' <=> Submits) /\ (Empty' <=> Empty) /\ Limit' = Limit
  BY DEF Latest, Submits, Empty, Limit
<1>2. \A x : Rank(x)' = Rank(x)
  BY DEF Rank
<1>3. Ring'
  BY <1>1 DEF Line, Ring
<1>4. Room'
  BY <1>1, <1>2 DEF Line, Room
<1>. QED BY <1>3, <1>4

\* The steps that decide nothing about the output
LEMMA WorkerGoesOn ==
    ASSUME IInv, Line, NEW t \in Threads,
           UNCHANGED <<codec, fctx, user, hist, avpkt>>,
           \A u \in Threads \ {t} : UNCHANGED <<state[u], pc[u], then[u], out[u], ctx[u]>>,
           Undecided(t)' <=> Undecided(t), Active(t)' => Active(t),
           out'[t] = out[t] \/ (Undecided(t) /\ out'[t] = Nothing),
           ctx'[t].held = ctx[t].held,
           state'[t] = "get_buffer" => pc'[t] = "answer",
           progress \subseteq progress',
           \A n \in Nat : Decodes(t, n) => Decodes(t, n)' \/ n \in progress'
    PROVE  Line'
<1>. USE DEF user, hist, fctx
<1>1. \A u \in Threads : Active(u)' => Active(u)
  BY DEF Active
<1>2. Ring' /\ Room'
  BY <1>1, RoomIsKept
<1>3. Newest' = Newest /\ Latest' = Latest /\ Newest \in Threads
  BY HeldTypes DEF Newest, Latest
<1>4. Held' = Held /\ \A u \in Threads : Len(ctx'[u].held) <= codec.delay
  <2>1. \A u \in Threads : ctx'[u].held = ctx[u].held
    OBVIOUS
  <2>. QED BY <1>3, <2>1 DEF Held, Line, Outcomes
<1>5. \A u \in Threads : Undecided(u)' <=> Undecided(u)
  BY DEF Undecided
<1>6. \A s \in Threads, n \in Nat : Decodes(s, n) => Decodes(s, n)' \/ n \in progress'
  BY DEF Decodes
<1>7. \A u \in Threads : state'[u] = "get_buffer" => pc'[u] = "answer"
  BY DEF Line, Outcomes
<1>8. \A u \in Threads :
         out'[u] = out[u] \/ (Undecided(u) /\ out'[u] \in {Nothing, Error(0)})
  OBVIOUS
<1>9. Outcomes' /\ Threaded' /\ Past' /\ Late' /\ Conserved' /\ Complete'
  BY <1>4, <1>5, <1>6, <1>7, <1>8, OrderIsKept
<1>10. Ends'
  <2>1. Submits' <=> Submits
    BY DEF Submits
  <2>2. EofComplete'
    BY DEF Line, Ends, EofComplete, Given
  <2>3. ASSUME upc' \in {"serve", "output"}, upkt' = 0, Submits', ~Undecided(Latest)',
               out'[Latest] = Nothing
        PROVE  Held' = <<>>
    <3>1. Latest \in Threads
      BY <2>1, <2>3 DEF Line, Ring, IInv, Types, UserTypes, Latest, Calling
    <3>2. ~Undecided(Latest) /\ out[Latest] = Nothing
      BY <1>3, <1>5, <1>8, <2>3, <3>1
    <3>. QED BY <1>4, <2>1, <2>3, <3>2 DEF Line, Ends
  <2>4. upc' = "finish" /\ upkt' = 0 /\ ret' = Nothing => Held' = <<>>
    BY <1>4 DEF Line, Ends
  <2>. QED BY <1>3, <2>2, <2>3, <2>4 DEF Ends
<1>. QED BY <1>2, <1>9, <1>10 DEF Line

LEMMA CheckInputOrders ==
    ASSUME IInv, Line, NEW t \in Threads, CheckInput(t) PROVE Line'
<1>. USE DEF locks, async, ptctx, serial, waits, worker, frames
<1>1. /\ UNCHANGED <<codec, fctx, user, hist, state, avpkt, out, ctx, progress>>
      /\ ThreadTypes /\ Thread(t) /\ pc[t] \in {"loop", "woken"}
  BY DEF CheckInput, IInv, Types
<1>2. \/ pc' = [pc EXCEPT ![t] = "dead"] /\ UNCHANGED then
      \/ pc' = [pc EXCEPT ![t] = "wait"] /\ UNCHANGED then /\ state[t] = "input_ready"
      \/ /\ pc' = [pc EXCEPT ![t] = IF ctx[t].hw THEN "fs_hw" ELSE "fs_state"]
         /\ then' = [then EXCEPT ![t] = "serialize"]
      \/ pc' = [pc EXCEPT ![t] = "serialize"] /\ UNCHANGED then
  BY DEF CheckInput, Finish
<1>3. /\ \A u \in Threads \ {t} : pc'[u] = pc[u] /\ then'[u] = then[u]
      /\ \/ pc'[t] \in {"dead", "wait", "serialize"}
         \/ pc'[t] \in {"fs_hw", "fs_state"} /\ then'[t] = "serialize"
  BY <1>1, <1>2 DEF ThreadTypes
<1>4. Undecided(t)' <=> Undecided(t)
  BY <1>1, <1>3 DEF Undecided, AtRest, Finishing
<1>5. (Active(t)' => Active(t)) /\ state[t] # "get_buffer"
  BY <1>1 DEF Active, Thread, Rests
<1>6. \A n \in Nat : ~Decodes(t, n)
  BY <1>1 DEF Decodes, Finishing
<1>. QED BY <1>1, <1>3, <1>4, <1>5, <1>6, WorkerGoesOn

LEMMA SerializeOrders ==
    ASSUME IInv, Line, NEW t \in Threads, Serialize(t) PROVE Line'
<1>. USE DEF locks, async, ptctx, serial, waits, worker, frames
<1>1. /\ UNCHANGED <<codec, fctx, user, hist, state, avpkt, ctx, then, progress>>
      /\ ThreadTypes /\ Thread(t) /\ pc[t] = "serialize"
      /\ pc' = [pc EXCEPT ![t] = "parse"] /\ out' = [out EXCEPT ![t] = Nothing]
  BY DEF Serialize, IInv, Types
<1>2. /\ \A u \in Threads \ {t} : pc'[u] = pc[u] /\ out'[u] = out[u]
      /\ pc'[t] = "parse" /\ out'[t] = Nothing /\ state[t] # "input_ready"
  BY <1>1 DEF ThreadTypes, Thread, Rests, AtRest
<1>3. Undecided(t) /\ Undecided(t)'
  BY <1>1, <1>2 DEF Undecided
<1>4. (Active(t)' => Active(t)) /\ state[t] # "get_buffer"
  BY <1>1, <1>2 DEF Active, Line, Outcomes
<1>5. \A n \in Nat : ~Decodes(t, n)
  BY <1>1 DEF Decodes, Finishing
<1>. QED BY <1>1, <1>2, <1>3, <1>4, <1>5, WorkerGoesOn

LEMMA GetFormatOrders ==
    ASSUME IInv, Line, NEW t \in Threads, GetFormat(t) \/ FormatAnswered(t) PROVE Line'
<1>. USE DEF locks, async, ptctx, serial, waits, worker, frames
<1>1. /\ UNCHANGED <<codec, fctx, user, hist, avpkt, out, then, progress>>
      /\ ThreadTypes /\ Thread(t) /\ ctx[t] \in Contexts
      /\ \A u \in Threads \ {t} : UNCHANGED <<state[u], pc[u], ctx[u]>>
  BY DEF GetFormat, FormatAnswered, IInv, Types, ThreadTypes
<1>2. /\ pc[t] \in {"parse", "format"} /\ pc'[t] \in {"format", "buffer"}
      /\ state'[t] \in {state[t], "get_format"} /\ state[t] # "input_ready"
  <2>1. CASE GetFormat(t)
    BY <1>1, <2>1 DEF GetFormat, ThreadTypes
  <2>2. CASE FormatAnswered(t)
    BY <1>1, <2>2 DEF FormatAnswered, ThreadTypes, Thread, Rests, AtRest
  <2>. QED BY <2>1, <2>2
<1>3. ctx'[t].held = ctx[t].held
  <2>1. CASE UNCHANGED ctx
    BY <2>1
  <2>2. CASE \E hw \in Formats : ctx' = [ctx EXCEPT ![t] = [ctx[t] EXCEPT !.hw = hw]]
    <3>1. PICK hw \in Formats : ctx' = [ctx EXCEPT ![t] = [ctx[t] EXCEPT !.hw = hw]]
      BY <2>2
    <3>2. [ctx[t] EXCEPT !.hw = hw].held = ctx[t].held
      BY <1>1 DEF Contexts
    <3>. QED BY <1>1, <3>1, <3>2 DEF ThreadTypes
  <2>. QED BY <1>1, <2>1, <2>2 DEF GetFormat, FormatAnswered, ThreadTypes
<1>4. Undecided(t) /\ Undecided(t)'
  BY <1>1, <1>2 DEF Undecided
<1>5. (Active(t)' => Active(t)) /\ state'[t] # "get_buffer"
  BY <1>1, <1>2 DEF Active, Line, Outcomes
<1>6. \A n \in Nat : ~Decodes(t, n)
  BY <1>2 DEF Decodes, Finishing
<1>. QED BY <1>1, <1>3, <1>4, <1>5, <1>6, WorkerGoesOn

LEMMA GetBufferOrders ==
    ASSUME IInv, Line, NEW t \in Threads, GetBuffer(t) \/ BufferAnswered(t) PROVE Line'
<1>. USE DEF locks, async, ptctx, serial, waits, worker, frames
<1>1. /\ UNCHANGED <<codec, fctx, user, hist, avpkt, out, ctx, progress>>
      /\ ThreadTypes /\ Thread(t)
      /\ \A u \in Threads \ {t} : UNCHANGED <<state[u], pc[u], then[u]>>
  BY DEF GetBuffer, BufferAnswered, Finish, IInv, Types, ThreadTypes
<1>2. /\ pc[t] \in {"parse", "buffer", "answer"} /\ state[t] # "input_ready"
      /\ state'[t] \in {state[t], "get_buffer"}
      /\ \/ pc'[t] \in {"setup", "answer", "got"}
         \/ pc'[t] \in Finishing /\ then'[t] = "got"
      /\ state'[t] = "get_buffer" => pc'[t] = "answer"
  <2>1. CASE GetBuffer(t)
    BY <1>1, <2>1 DEF GetBuffer, ThreadTypes, Thread, Rests, AtRest, Line, Outcomes
  <2>2. CASE BufferAnswered(t)
    <3>1. pc[t] = "answer" /\ state'[t] = state[t]
      BY <2>2 DEF BufferAnswered
    <3>2. CASE state[t] # "setting_up"
      BY <1>1, <2>2, <3>1, <3>2 DEF BufferAnswered, Thread, Rests, AtRest
    <3>3. CASE state[t] = "setting_up"
      BY <1>1, <2>2, <3>1, <3>3 DEF BufferAnswered, Finish, ThreadTypes, Finishing
    <3>. QED BY <3>2, <3>3
  <2>. QED BY <2>1, <2>2
<1>3. Undecided(t) /\ Undecided(t)'
  BY <1>1, <1>2 DEF Undecided
<1>4. Active(t)' => Active(t)
  BY <1>1, <1>2 DEF Active
<1>5. \A n \in Nat : ~Decodes(t, n)
  BY <1>2 DEF Decodes, Finishing
<1>. QED BY <1>1, <1>2, <1>3, <1>4, <1>5, WorkerGoesOn

\* The packet has been parsed: the output is known.
LEMMA LaterOrders ==
    ASSUME IInv, Line, NEW t \in Threads,
           \/ ReleaseBuffer(t) \/ AwaitProgress(t) \/ ReportProgress(t)
           \/ FinishHw(t) \/ FinishAsync(t) \/ FinishForCodec(t) \/ Unlock(t)
    PROVE  Line'
<1>. USE DEF locks, async, ptctx, serial, waits, worker, frames
<1>1. /\ UNCHANGED <<codec, fctx, user, hist, state, avpkt, out, ctx>>
      /\ ThreadTypes /\ Thread(t)
      /\ \A u \in Threads \ {t} : UNCHANGED <<pc[u], then[u]>>
  BY DEF ReleaseBuffer, AwaitProgress, ReportProgress, FinishHw, FinishAsync, FinishForCodec,
         Finish, Unlock, IInv, Types, ThreadTypes
<1>2. \/ UNCHANGED <<pc, then, progress>> /\ pc[t] = "slices"
      \/ /\ pc[t] \in Finishing /\ pc'[t] \in Finishing
         /\ UNCHANGED <<then, progress>>
      \/ /\ pc[t] = "slices" /\ pc'[t] = "unlock" /\ progress' = progress \union {avpkt[t]}
      \/ /\ pc[t] = "unlock" /\ UNCHANGED progress
         /\ pc'[t] = "ready" \/ (pc'[t] \in Finishing /\ then'[t] = "unlock")
  <2>1. CASE ReleaseBuffer(t) \/ AwaitProgress(t)
    BY <2>1 DEF ReleaseBuffer, AwaitProgress
  <2>2. CASE ReportProgress(t)
    BY <1>1, <2>2 DEF ReportProgress, ThreadTypes
  <2>3. CASE FinishHw(t) \/ FinishAsync(t)
    BY <1>1, <2>3 DEF FinishHw, FinishAsync, ThreadTypes, Finishing
  <2>4. CASE FinishForCodec(t) \/ Unlock(t)
    BY <1>1, <2>4 DEF FinishForCodec, Finish, Unlock, ThreadTypes, Finishing
  <2>. QED BY <2>1, <2>2, <2>3, <2>4
<1>3. Undecided(t)' <=> Undecided(t)
  BY <1>1, <1>2 DEF Undecided, Finishing, AtRest
<1>4. (Active(t)' => Active(t)) /\ state'[t] # "get_buffer"
  BY <1>1, <1>2 DEF Active, Line, Outcomes, Finishing
<1>5. progress \subseteq progress'
  BY <1>2
<1>6. \A n \in Nat : Decodes(t, n) => Decodes(t, n)' \/ n \in progress'
  BY <1>1, <1>2 DEF Decodes, Finishing
<1>. QED BY <1>1, <1>3, <1>4, <1>5, <1>6, WorkerGoesOn

LEMMA StatesOrder ==
    ASSUME IInv, Line, NEW t \in Threads, FinishState(t) \/ Ready(t) PROVE Line'
<1>. USE DEF locks, async, ptctx, serial, waits, worker, frames
<1>1. /\ UNCHANGED <<codec, fctx, user, hist, avpkt, out, ctx, then, progress>>
      /\ ThreadTypes /\ Thread(t)
      /\ \A u \in Threads \ {t} : UNCHANGED <<state[u], pc[u]>>
  BY DEF FinishState, Ready, IInv, Types, ThreadTypes
<1>2. \/ /\ pc[t] = "fs_state" /\ state[t] # "input_ready"
         /\ pc'[t] = then[t] /\ state'[t] = "setup_finished" /\ then[t] # "parse"
      \/ /\ pc[t] = "ready" /\ pc'[t] = "loop" /\ state'[t] = "input_ready"
         /\ state[t] # "input_ready"
  BY <1>1 DEF FinishState, Ready, ThreadTypes, Thread, Rests, Works, AtRest, Finishing
<1>3. Undecided(t)' <=> Undecided(t)
  BY <1>1, <1>2 DEF Undecided, Finishing, AtRest, ThreadTypes
<1>4. (Active(t)' => Active(t)) /\ state'[t] # "get_buffer"
  BY <1>1, <1>2 DEF Active
<1>5. \A n \in Nat : Decodes(t, n) => Decodes(t, n)'
  BY <1>1, <1>2 DEF Decodes, Finishing
<1>. QED BY <1>1, <1>3, <1>4, <1>5, WorkerGoesOn

\* The output of a thread becomes known: it is of the thread's own packet,
LEMMA DecidesOwn ==
    ASSUME IInv, Line, NEW t \in Threads,
           UNCHANGED <<codec, fctx, user, hist, state, avpkt, progress>>,
           \A u \in Threads \ {t} : UNCHANGED <<pc[u], then[u], out[u], ctx[u]>>,
           Undecided(t), ~Undecided(t)', state[t] # "get_buffer",
           ctx'[t].held = ctx[t].held,
           \/ avpkt[t] # 0 /\ out'[t] = Error(avpkt[t])
           \/ avpkt[t] # 0 /\ out'[t] = Frame(avpkt[t]) /\ codec.delay = 0 /\ Decodes(t, avpkt[t])'
           \/ avpkt[t] = 0 /\ out'[t] = Nothing /\ ctx[t].held = <<>>
    PROVE  Line'
<1>. USE DEF user, hist, fctx
<1>1. Ring' /\ Room'
  <2>1. \A u \in Threads : Active(u)' => Active(u)
    BY DEF Active, Undecided
  <2>. QED BY <2>1, RoomIsKept
<1>2. /\ Newest' = Newest /\ Latest' = Latest /\ Newest \in Threads
      /\ Submits' <=> Submits
  BY HeldTypes DEF Newest, Latest, Submits
<1>3. Held' = Held /\ \A u \in Threads : ctx'[u].held = ctx[u].held
  BY <1>2 DEF Held
<1>4. /\ \A u \in Threads \ {t} : Undecided(u)' <=> Undecided(u)
      /\ \A u \in Threads : Item(u)' = Item(u) /\ Rank(u)' = Rank(u)
      /\ \A u \in Threads \ {t} : out'[u] = out[u]
  <2>1. \A u \in Threads \ {t} : Undecided(u)' <=> Undecided(u)
    BY DEF Undecided
  <2>2. out'[t].pkt = avpkt[t]
    BY DEF Nothing, Error, Frame
  <2>. QED BY <2>1, <2>2 DEF Item, Rank
<1>5. out'[t].kind = "frame" => Held = <<>>
  <2>1. Len(Held) <= codec.delay /\ Held \in Seq(Packets)
    BY <1>2, HeldTypes DEF Held, Line, Outcomes
  <2>2. codec.delay = 0 => Held = <<>>
    BY <2>1
  <2>. QED BY <2>2 DEF Nothing, Error
<1>6. Outcomes'
  <2>1. out'[t] # Error(0)
    BY DEF Nothing, Error, Frame
  <2>2. \A u \in Threads : state'[u] = "get_buffer" => pc'[u] = "answer"
    BY DEF Line, Outcomes
  <2>. QED BY <1>3, <1>4, <2>1, <2>2 DEF Line, Outcomes
<1>7. Threaded'
  <2>1. \A u, v \in Threads : Alike(u, v)' => Alike(u, v)
    BY <1>4 DEF Alike
  <2>. QED BY <1>4, <2>1 DEF Line, Threaded
<1>8. Past'
  <2>1. \A i \in DOMAIN delivered, u \in Threads : Precedes(delivered[i], u)'
    BY <1>4 DEF Line, Past, Precedes
  <2>2. \A u \in Threads : Precedes(ret, u)'
    BY <1>4 DEF Line, Past, Precedes
  <2>3. ret.pkt # 0 => \A i \in DOMAIN delivered : Follows(i, ret)'
    BY DEF Line, Past, Follows
  <2>4. \A i, j \in DOMAIN delivered : i < j => Follows(i, delivered[j])'
    BY DEF Line, Past, Follows
  <2>. QED BY <2>1, <2>2, <2>3, <2>4 DEF Line, Past
<1>9. Late'
  <2>1. \A i \in DOMAIN delivered, k \in DOMAIN Held : IsBefore(delivered[i], k)'
    BY <1>3 DEF Line, Late, IsBefore
  <2>2. \A k \in DOMAIN Held : IsBefore(ret, k)'
    BY <1>3 DEF Line, Late, IsBefore
  <2>3. \A u \in Threads \ {t}, k \in DOMAIN Held : IsBefore(out[u], k)'
    BY <1>3, <1>4 DEF Line, Late, IsBefore
  <2>4. \A k \in DOMAIN Held : IsBefore(out[t], k)'
    <3>. SUFFICES ASSUME NEW k \in DOMAIN Held PROVE IsBefore(out[t], k)'
      OBVIOUS
    <3>1. base < Held[k] /\ base \in Nat /\ Held[k] \in Nat
      BY HeldTypes, Numbers DEF Line, Late, IInv, Types, UserTypes
    <3>2. avpkt[t] # 0 => Held[k] < avpkt[t] /\ avpkt[t] \in Nat
      BY Numbers DEF Line, Late, IInv, Types, ThreadTypes
    <3>3. out'[t].pkt # Held[k]
      BY <3>1, <3>2 DEF Nothing, Error, Frame
    <3>. QED BY <1>3, <1>5, <3>3 DEF IsBefore
  <2>5. \A k \in DOMAIN Held : base < Held[k] /\ Held[k] <= sent
    BY DEF Line, Late
  <2>6. \A j, k \in DOMAIN Held : j < k => Held[j] < Held[k]
    BY DEF Line, Late
  <2>7. \A u \in Threads, k \in DOMAIN Held : Undecided(u)' /\ avpkt[u] # 0 => Held[k] < avpkt[u]
    BY <1>4 DEF Line, Late
  <2>8. \A u \in Threads, k \in DOMAIN Held : IsBefore(out[u], k)'
    BY <2>3, <2>4
  <2>. QED BY <1>3, <2>1, <2>2, <2>5, <2>6, <2>7, <2>8 DEF Late
<1>10. Conserved'
  BY <1>3, <1>4 DEF Line, Conserved, Given
<1>11. Ends'
  <2>1. EofComplete'
    BY DEF Line, Ends, EofComplete, Given
  <2>2. ASSUME upc' \in {"serve", "output"}, upkt' = 0, Submits', ~Undecided(Latest)',
               out'[Latest] = Nothing
        PROVE  Held' = <<>>
    <3>1. Latest \in Threads
      BY <1>2, <2>2 DEF Line, Ring, IInv, Types, UserTypes, Latest, Calling
    <3>2. CASE Latest = t
      <4>1. Newest = t
        BY <3>1, <3>2, Numbers DEF Newest
      <4>2. avpkt[t] = 0
        BY <2>2, <3>2 DEF Nothing, Error, Frame
      <4>. QED BY <1>3, <4>1, <4>2 DEF Held
    <3>3. CASE Latest # t
      BY <1>2, <1>3, <1>4, <2>2, <3>1, <3>3 DEF Line, Ends
    <3>. QED BY <3>2, <3>3
  <2>3. upc' = "finish" /\ upkt' = 0 /\ ret' = Nothing => Held' = <<>>
    BY <1>3 DEF Line, Ends
  <2>. QED BY <1>2, <2>1, <2>2, <2>3 DEF Ends
<1>12. Complete'
  <2>1. \A n \in Nat : ~Decodes(t, n)
    BY DEF Decodes, Undecided, AtRest, Finishing
  <2>2. \A s \in Threads \ {t}, n \in Nat : Decodes(s, n) => Decodes(s, n)'
    BY DEF Decodes
  <2>3. \A s \in Threads, n \in Nat : Decodes(s, n) => Decodes(s, n)'
    BY <2>1, <2>2
  <2>4. \A u \in Threads \ {t} : out'[u].kind = "frame" =>
           out[u].pkt \in progress' \/ \E s \in Threads : Decodes(s, out[u].pkt)' /\ Rank(s)' <= Rank(u)'
    <3>. SUFFICES ASSUME NEW u \in Threads \ {t}, out[u].kind = "frame"
                  PROVE  out[u].pkt \in progress
                         \/ \E s \in Threads : Decodes(s, out[u].pkt)' /\ Rank(s)' <= Rank(u)'
      BY <1>4
    <3>1. out[u].pkt \in Nat
      BY ResultFields DEF IInv, Types, ThreadTypes
    <3>2. out[u].pkt \in progress \/ \E s \in Threads : Decodes(s, out[u].pkt) /\ Rank(s) <= Rank(u)
      BY DEF Line, Complete
    <3>. QED BY <1>4, <2>3, <3>1, <3>2
  <2>5. out'[t].kind = "frame" => Decodes(t, avpkt[t])' /\ out'[t].pkt = avpkt[t]
    BY DEF Nothing, Error, Frame
  <2>6. Rank(t)' <= Rank(t)'
    BY <1>4, Ranks
  <2>7. \A k \in DOMAIN Held : Held[k] \in progress \/ \E s \in Threads : Decodes(s, Held[k])'
    <3>. SUFFICES ASSUME NEW k \in DOMAIN Held
                  PROVE  Held[k] \in progress \/ \E s \in Threads : Decodes(s, Held[k])'
      OBVIOUS
    <3>1. Held[k] \in Nat
      BY HeldTypes
    <3>2. Held[k] \in progress \/ \E s \in Threads : Decodes(s, Held[k])
      BY DEF Line, Complete
    <3>. QED BY <1>3, <2>3, <3>1, <3>2
  <2>8. \A i \in Indices("frame")' : delivered'[i].pkt \in progress'
    BY DEF Line, Complete, Indices
  <2>9. ret'.kind = "frame" => ret'.pkt \in progress'
    BY DEF Line, Complete
  <2>10. out'[t].kind = "frame" => Decodes(t, out[t].pkt)'
    BY <2>5 DEF Decodes
  <2>11. \A u \in Threads : out'[u].kind = "frame" =>
            out'[u].pkt \in progress'
            \/ \E s \in Threads : Decodes(s, out[u].pkt)' /\ Rank(s)' <= Rank(u)'
    BY <1>4, <2>4, <2>6, <2>10
  <2>. QED BY <1>3, <2>7, <2>8, <2>9, <2>11 DEF Complete, Decodes
<1>. QED BY <1>1, <1>6, <1>7, <1>8, <1>9, <1>10, <1>11, <1>12 DEF Line

LEMMA OnlyLatestParses ==
    ASSUME IInv, Line, Known, codec.update, NEW t \in Threads, Undecided(t)
    PROVE  /\ t = Latest /\ t = Newest /\ Held = ctx[t].held
           /\ \A u \in Threads \ {t} : ~Undecided(u)
           /\ \A u \in Threads \ {t} : Active(u) => Rank(u) < Rank(t)
<1>1. \A u \in Threads : Undecided(u) => Parses(u)
  BY DEF IInv, Thread, Works, Undecided, Parses
<1>2. t = Latest /\ \A u \in Threads \ {t} : ~Undecided(u)
  BY <1>1 DEF Known
<1>3. t = Newest /\ Held = ctx[t].held
  BY <1>2, Numbers DEF Newest, Held
<1>4. \A u \in Threads \ {t} : Active(u) => Rank(u) < Rank(t)
  <2>. SUFFICES ASSUME NEW u \in Threads \ {t}, Active(u) PROVE Rank(u) < Rank(t)
    OBVIOUS
  <2>1. Rank(u) <= Rank(t)
    BY <1>2 DEF Line, Room
  <2>2. Rank(u) \in Int /\ Rank(t) \in Int /\ Rank(u) # Rank(t)
    BY Ranks
  <2>. QED BY <2>1, <2>2
<1>. QED BY <1>2, <1>3, <1>4

\* What the context holds back when the packet is parsed
Holds(t) == IF avpkt[t] = 0 THEN ctx[t].held ELSE Append(ctx[t].held, avpkt[t])

\* A result comes before a packet that is held back.
Leads(r, n) == r.pkt # n /\ (r.kind = "frame" => r.pkt < n)

LEMMA HoldsInOrder ==
    ASSUME IInv, Line, Known, codec.update, NEW t \in Threads, Undecided(t)
    PROVE  /\ Holds(t) \in Seq(Packets)
           /\ \A k \in DOMAIN Holds(t) : base < Holds(t)[k] /\ Holds(t)[k] <= sent
           /\ \A j, k \in DOMAIN Holds(t) : j < k => Holds(t)[j] < Holds(t)[k]
           /\ \A k \in DOMAIN Holds(t) :
                 /\ \A i \in DOMAIN delivered : Leads(delivered[i], Holds(t)[k])
                 /\ Leads(ret, Holds(t)[k])
                 /\ \A u \in Threads \ {t} : Leads(out[u], Holds(t)[k])
                 /\ \/ Holds(t)[k] \in progress \/ Holds(t)[k] = avpkt[t]
                    \/ \E s \in Threads : Decodes(s, Holds(t)[k])
           /\ \A k \in DOMAIN Held : \E j \in DOMAIN Holds(t) : Holds(t)[j] = Held[k]
           /\ avpkt[t] # 0 => \E j \in DOMAIN Holds(t) : Holds(t)[j] = avpkt[t]
<1>. DEFINE q == Holds(t)
<1>1. /\ t = Latest /\ Held = ctx[t].held
      /\ \A u \in Threads \ {t} : ~Undecided(u)
      /\ \A u \in Threads \ {t} : Active(u) => Rank(u) < Rank(t)
  BY OnlyLatestParses
<1>2. /\ Held \in Seq(Packets) /\ avpkt[t] \in Nat
      /\ avpkt[t] # 0 => avpkt[t] \in Packets
      /\ \A k \in DOMAIN Held : Held[k] \in Nat
  <2>1. avpkt[t] \in 0..MaxPackets /\ MaxPackets \in Nat
    BY Numbers DEF IInv, Types, ThreadTypes
  <2>2. avpkt[t] \in Nat /\ (avpkt[t] # 0 => avpkt[t] \in Packets)
    BY ONLY <2>1 DEF Packets
  <2>3. Held \in Seq(Packets) /\ \A k \in DOMAIN Held : Held[k] \in Nat
    BY HeldTypes
  <2>. QED BY <2>2, <2>3
<1>14. q = IF avpkt[t] = 0 THEN Held ELSE Append(Held, avpkt[t])
  BY <1>1 DEF Holds
<1>15. q = Holds(t)
  BY DEF q
<1>. HIDE DEF q
<1>3. q \in Seq(Packets)
  <2>1. CASE avpkt[t] = 0
    BY <1>2, <1>14, <2>1
  <2>2. CASE avpkt[t] # 0
    <3>1. q = Append(Held, avpkt[t]) /\ avpkt[t] \in Packets
      BY <1>2, <1>14, <2>2
    <3>. QED BY ONLY <1>2, <3>1
  <2>. QED BY <2>1, <2>2
<1>4. \A k \in DOMAIN q : /\ k \in DOMAIN Held => q[k] = Held[k]
                          /\ k \notin DOMAIN Held => avpkt[t] # 0 /\ q[k] = avpkt[t] /\ k = Len(Held) + 1
  <2>1. CASE avpkt[t] = 0
    BY <1>2, <1>14, <2>1
  <2>2. CASE avpkt[t] # 0
    <3>1. q = Append(Held, avpkt[t])
      BY <1>14, <2>2
    <3>. QED BY ONLY <1>2, <2>2, <3>1
  <2>. QED BY <2>1, <2>2
<1>5. avpkt[t] # 0 => /\ Item(t) = avpkt[t] /\ base < avpkt[t] /\ avpkt[t] <= sent
                      /\ \A k \in DOMAIN Held : Held[k] < avpkt[t]
  <2>1. Item(t) = avpkt[t]
    BY DEF Item
  <2>2. Item(t) # 0 => base < Item(t) /\ Item(t) <= sent
    BY DEF Line, Outcomes
  <2>3. avpkt[t] # 0 => \A k \in DOMAIN Held : Held[k] < avpkt[t]
    BY DEF Line, Late
  <2>. QED BY <2>1, <2>2, <2>3
<1>6. \A k \in DOMAIN q : base < q[k] /\ q[k] <= sent
  BY <1>4, <1>5 DEF Line, Late
<1>7. \A j, k \in DOMAIN q : j < k => q[j] < q[k]
  <2>. SUFFICES ASSUME NEW j \in DOMAIN q, NEW k \in DOMAIN q, j < k PROVE q[j] < q[k]
    OBVIOUS
  <2>1. CASE j \in DOMAIN Held /\ k \in DOMAIN Held
    BY <1>4, <2>1 DEF Line, Late
  <2>2. CASE j \in DOMAIN Held /\ k \notin DOMAIN Held
    BY <1>4, <1>5, <2>2
  <2>3. CASE j \notin DOMAIN Held
    <3>1. j = Len(Held) + 1 /\ k \in 1..Len(q) /\ Len(q) <= Len(Held) + 1
      BY <1>2, <1>3, <1>4, <1>14, <2>3
    <3>2. FALSE
      BY <1>2, <3>1
    <3>. QED BY <3>2
  <2>. QED BY <2>1, <2>2, <2>3
<1>8. avpkt[t] # 0 =>
         /\ \A i \in DOMAIN delivered : Leads(delivered[i], avpkt[t])
         /\ Leads(ret, avpkt[t])
         /\ \A u \in Threads \ {t} : Leads(out[u], avpkt[t])
  <2>. SUFFICES ASSUME avpkt[t] # 0
                PROVE  /\ \A i \in DOMAIN delivered : Leads(delivered[i], avpkt[t])
                       /\ Leads(ret, avpkt[t])
                       /\ \A u \in Threads \ {t} : Leads(out[u], avpkt[t])
    OBVIOUS
  <2>1. \A i \in DOMAIN delivered : Leads(delivered[i], avpkt[t])
    <3>. SUFFICES ASSUME NEW i \in DOMAIN delivered PROVE Leads(delivered[i], avpkt[t])
      OBVIOUS
    <3>1. delivered[i].pkt # 0
      <4>1. base < delivered[i].pkt /\ base \in Nat
        BY Numbers DEF Line, Past, IInv, Types, UserTypes
      <4>. QED BY <4>1
    <3>2. Precedes(delivered[i], t)
      BY DEF Line, Past
    <3>. QED BY <1>5, <3>1, <3>2 DEF Precedes, Leads
  <2>2. Leads(ret, avpkt[t])
    <3>1. ret.kind = "frame" => ret.pkt # 0
      BY Numbers, ResultFields DEF IInv, Types, UserTypes, Packets
    <3>2. Precedes(ret, t)
      BY DEF Line, Past
    <3>. QED BY <1>5, <3>1, <3>2 DEF Precedes, Leads
  <2>3. \A u \in Threads \ {t} : Leads(out[u], avpkt[t])
    <3>. SUFFICES ASSUME NEW u \in Threads \ {t} PROVE Leads(out[u], avpkt[t])
      OBVIOUS
    <3>1. CASE out[u].pkt = 0
      <4>1. out[u].kind # "frame"
        BY <3>1, Numbers, ResultFields DEF IInv, Types, ThreadTypes, Packets
      <4>. QED BY <3>1, <4>1 DEF Leads
    <3>2. CASE out[u].pkt # 0
      <4>1. Active(u) /\ Item(u) = out[u].pkt
        BY <1>1, <3>2 DEF Active, Item, Nothing
      <4>2. Rank(u) < Rank(t) /\ Alike(u, t)
        BY <1>1, <4>1 DEF Alike
      <4>3. Item(u) # Item(t) /\ Item(u) < Item(t)
        BY <1>5, <3>2, <4>1, <4>2 DEF Line, Threaded
      <4>. QED BY <1>5, <4>1, <4>3 DEF Leads
    <3>. QED BY <3>1, <3>2
  <2>. QED BY <2>1, <2>2, <2>3
<1>9. \A k \in DOMAIN Held :
         /\ \A i \in DOMAIN delivered : Leads(delivered[i], Held[k])
         /\ Leads(ret, Held[k])
         /\ \A u \in Threads \ {t} : Leads(out[u], Held[k])
         /\ Held[k] \in progress \/ \E s \in Threads : Decodes(s, Held[k])
  BY DEF Line, Late, IsBefore, Leads, Complete
<1>10. ASSUME NEW k \in DOMAIN q
       PROVE  /\ \A i \in DOMAIN delivered : Leads(delivered[i], q[k])
              /\ Leads(ret, q[k])
              /\ \A u \in Threads \ {t} : Leads(out[u], q[k])
              /\ \/ q[k] \in progress \/ q[k] = avpkt[t]
                 \/ \E s \in Threads : Decodes(s, q[k])
  <2>1. CASE k \in DOMAIN Held
    <3>1. q[k] = Held[k]
      BY <1>4, <2>1
    <3>. QED BY ONLY <1>9, <2>1, <3>1
  <2>2. CASE k \notin DOMAIN Held
    <3>1. q[k] = avpkt[t] /\ avpkt[t] # 0
      BY <1>4, <2>2
    <3>. QED BY ONLY <1>8, <3>1
  <2>. QED BY <2>1, <2>2
<1>11. \A k \in DOMAIN Held : k \in DOMAIN q
  BY <1>2, <1>14
<1>12. \A k \in DOMAIN Held : \E j \in DOMAIN q : q[j] = Held[k]
  BY <1>4, <1>11
<1>13. avpkt[t] # 0 => \E j \in DOMAIN q : q[j] = avpkt[t]
  <2>1. avpkt[t] # 0 => Len(Held) + 1 \in DOMAIN q /\ q[Len(Held) + 1] = avpkt[t]
    BY <1>2, <1>14
  <2>. QED BY <2>1
<1>. QED BY <1>3, <1>6, <1>7, <1>10, <1>12, <1>13, <1>15

\* or of the oldest packet that is held back, if there are too many or it is
\* drained.
LEMMA DecidesLate ==
    ASSUME IInv, Line, Known, codec.update, NEW t \in Threads,
           UNCHANGED <<codec, fctx, user, hist, state, avpkt, progress>>,
           \A u \in Threads \ {t} : UNCHANGED <<pc[u], then[u], out[u], ctx[u]>>,
           Undecided(t), ~Undecided(t)', state[t] # "get_buffer",
           avpkt[t] # 0 => Decodes(t, avpkt[t])',
           \/ /\ out'[t] = Nothing /\ ctx'[t].held = Holds(t) /\ Len(Holds(t)) <= codec.delay
              /\ avpkt[t] = 0 => Holds(t) = <<>>
           \/ /\ Holds(t) # <<>> /\ out'[t] = Frame(Head(Holds(t)))
              /\ ctx'[t].held = Tail(Holds(t)) /\ Len(Holds(t)) <= codec.delay + 1
    PROVE  Line'
<1>. DEFINE q == Holds(t)
<1>. USE DEF user, hist, fctx
<1>1. /\ t = Latest /\ t = Newest /\ Held = ctx[t].held
      /\ \A u \in Threads \ {t} : ~Undecided(u)
      /\ \A u \in Threads \ {t} : Active(u) => Rank(u) < Rank(t)
  BY OnlyLatestParses
<1>2. /\ q \in Seq(Packets)
      /\ \A k \in DOMAIN q : base < q[k] /\ q[k] <= sent
      /\ \A j, k \in DOMAIN q : j < k => q[j] < q[k]
      /\ \A k \in DOMAIN q :
            /\ \A i \in DOMAIN delivered : Leads(delivered[i], q[k])
            /\ Leads(ret, q[k])
            /\ \A u \in Threads \ {t} : Leads(out[u], q[k])
            /\ \/ q[k] \in progress \/ q[k] = avpkt[t]
               \/ \E s \in Threads : Decodes(s, q[k])
      /\ \A k \in DOMAIN Held : \E j \in DOMAIN q : q[j] = Held[k]
      /\ avpkt[t] # 0 => \E j \in DOMAIN q : q[j] = avpkt[t]
  BY HoldsInOrder
<1>3. \/ out'[t] = Nothing /\ ctx'[t].held = q /\ Len(q) <= codec.delay /\ (avpkt[t] = 0 => q = <<>>)
      \/ q # <<>> /\ out'[t] = Frame(Head(q)) /\ ctx'[t].held = Tail(q) /\ Len(q) <= codec.delay + 1
  OBVIOUS
<1>. HIDE DEF q
<1>4. Newest' = t /\ Latest' = t /\ Held' = ctx'[t].held /\ (Submits' <=> Submits)
  BY <1>1 DEF Newest, Latest, Held, Submits
<1>5. /\ \A u \in Threads : ~Undecided(u)'
      /\ \A u \in Threads \ {t} : Item(u)' = out[u].pkt /\ Item(u) = out[u].pkt
      /\ Item(t)' = out'[t].pkt /\ Item(t) = avpkt[t]
      /\ \A u \in Threads : Rank(u)' = Rank(u)
  <2>1. \A u \in Threads \ {t} : Undecided(u)' <=> Undecided(u)
    BY DEF Undecided
  <2>. QED BY <1>1, <2>1 DEF Item, Rank
\* the two cases in the same words
<1>6. \/ /\ out'[t] = Nothing /\ Held' = q /\ Len(q) <= codec.delay
         /\ avpkt[t] = 0 => q = <<>>
      \/ /\ q # <<>> /\ 1 \in DOMAIN q /\ out'[t] = Frame(q[1]) /\ Held' \in Seq(Packets)
         /\ \A k \in DOMAIN Held' : k + 1 \in DOMAIN q /\ Held'[k] = q[k + 1] /\ 1 < k + 1
         /\ \A j \in DOMAIN q : j = 1 \/ \E k \in DOMAIN Held' : Held'[k] = q[j]
         /\ Len(Held') <= codec.delay
  <2>1. CASE out'[t] = Nothing /\ ctx'[t].held = q /\ Len(q) <= codec.delay /\ (avpkt[t] = 0 => q = <<>>)
    BY <1>4, <2>1
  <2>2. CASE q # <<>> /\ out'[t] = Frame(Head(q)) /\ ctx'[t].held = Tail(q) /\ Len(q) <= codec.delay + 1
    <3>1. /\ 1 \in DOMAIN q /\ Head(q) = q[1] /\ Tail(q) \in Seq(Packets)
          /\ Len(Tail(q)) = Len(q) - 1 /\ Len(q) \in Nat
          /\ \A k \in DOMAIN Tail(q) : k + 1 \in DOMAIN q /\ Tail(q)[k] = q[k + 1] /\ 1 < k + 1
      BY <1>2, <2>2
    <3>2. \A j \in DOMAIN q : j = 1 \/ (j - 1 \in DOMAIN Tail(q) /\ Tail(q)[j - 1] = q[j])
      BY <1>2, <2>2
    <3>3. Len(Tail(q)) <= codec.delay
      BY <2>2, <3>1, CodecFields DEF IInv, Types, UserTypes
    <3>4. Held' = Tail(q) /\ out'[t] = Frame(q[1])
      BY <1>4, <2>2, <3>1
    <3>5. \A j \in DOMAIN q : j = 1 \/ \E k \in DOMAIN Tail(q) : Tail(q)[k] = q[j]
      BY <3>2
    <3>. QED BY ONLY <2>2, <3>1, <3>3, <3>4, <3>5
  <2>. QED BY <1>3, <2>1, <2>2
\* what is held back after the step was before, and its output too
<1>7. \A k \in DOMAIN Held' : \E j \in DOMAIN q : Held'[k] = q[j]
  BY <1>6
<1>8. /\ out'[t].pkt # 0 => out'[t].kind = "frame" /\ 1 \in DOMAIN q /\ out'[t].pkt = q[1]
      /\ out'[t].kind = "frame" => out'[t].pkt # 0
      /\ out'[t] # Error(0)
      /\ out'[t].kind = "frame" \/ out'[t] = Nothing
  <2>1. \A n \in Packets : n # 0 /\ Frame(n).pkt = n /\ Frame(n).kind = "frame"
                           /\ Frame(n) # Error(0)
    BY Numbers DEF Packets, Frame, Error
  <2>2. Nothing # Error(0) /\ Nothing.pkt = 0 /\ Nothing.kind # "frame"
    BY DEF Nothing, Error
  <2>3. 1 \in DOMAIN q => q[1] \in Packets
    BY <1>2
  <2>. QED BY ONLY <1>6, <2>1, <2>2, <2>3
<1>9. \A j \in DOMAIN q : q[j] = out'[t].pkt \/ \E k \in DOMAIN Held' : Held'[k] = q[j]
  BY <1>6 DEF Frame
<1>10. \A k \in DOMAIN Held' : out'[t].pkt # 0 => out'[t].pkt < Held'[k]
  <2>. SUFFICES ASSUME NEW k \in DOMAIN Held', out'[t].pkt # 0 PROVE out'[t].pkt < Held'[k]
    OBVIOUS
  <2>1. 1 \in DOMAIN q /\ out'[t].pkt = q[1] /\ out'[t] # Nothing
    BY <1>8 DEF Nothing
  <2>2. k + 1 \in DOMAIN q /\ Held'[k] = q[k + 1] /\ 1 < k + 1
    BY <1>6, <2>1
  <2>. QED BY <1>2, <2>1, <2>2
<1>11. Ring' /\ Room'
  <2>1. \A u \in Threads : Active(u)' => Active(u)
    BY DEF Active, Undecided
  <2>. QED BY <2>1, RoomIsKept
<1>12. Outcomes'
  <2>1. \A u \in Threads : Len(ctx'[u].held) <= codec.delay
    <3>1. \A u \in Threads \ {t} : Len(ctx'[u].held) <= codec.delay
      BY DEF Line, Outcomes
    <3>. QED BY <1>4, <1>6, <3>1
  <2>2. \A u \in Threads : state'[u] = "get_buffer" => pc'[u] = "answer"
    BY DEF Line, Outcomes
  <2>3. \A u \in Threads \ {t} : out'[u] # Error(0) /\ (Item(u)' # 0 => base < Item(u)' /\ Item(u)' <= sent)
    BY <1>1, <1>5 DEF Line, Outcomes
  <2>4. Item(t)' # 0 => base < Item(t)' /\ Item(t)' <= sent
    BY <1>2, <1>5, <1>8
  <2>. QED BY <1>5, <1>8, <2>1, <2>2, <2>3, <2>4 DEF Outcomes
<1>13. Threaded'
  <2>. SUFFICES ASSUME NEW u \in Threads, NEW v \in Threads,
                       Item(u)' # 0, Item(v)' # 0, u # v
                PROVE  /\ Item(u)' # Item(v)'
                       /\ Rank(u) < Rank(v) /\ Alike(u, v)' => Item(u)' < Item(v)'
    BY <1>5 DEF Threaded
  <2>1. CASE u # t /\ v # t
    <3>1. Item(u)' = Item(u) /\ Item(v)' = Item(v) /\ (Alike(u, v)' <=> Alike(u, v))
      BY <1>1, <1>5, <2>1 DEF Alike
    <3>. QED BY <2>1, <3>1 DEF Line, Threaded
  <2>2. ASSUME NEW w \in Threads \ {t}, out[w].pkt # 0, out'[t].pkt # 0
        PROVE  /\ out[w].pkt # out'[t].pkt
               /\ out[w].kind = out'[t].kind => out[w].pkt < out'[t].pkt
               /\ Rank(w) < Rank(t)
    <3>1. out'[t].kind = "frame" /\ 1 \in DOMAIN q /\ out'[t].pkt = q[1]
      BY <1>8, <2>2
    <3>2. Leads(out[w], q[1])
      BY <1>2, <3>1
    <3>3. Rank(w) < Rank(t)
      BY <1>1, <2>2 DEF Active, Nothing
    <3>. QED BY <3>1, <3>2, <3>3 DEF Leads
  <2>3. CASE v = t
    <3>1. out[u].pkt # 0 /\ out'[t].pkt # 0 /\ out'[u] = out[u] /\ u \in Threads \ {t}
      BY <1>5, <2>3
    <3>. QED BY <1>5, <2>2, <2>3, <3>1 DEF Alike
  <2>4. CASE u = t
    <3>1. out[v].pkt # 0 /\ out'[t].pkt # 0 /\ v \in Threads \ {t}
      BY <1>5, <2>4
    <3>2. Rank(v) < Rank(t) /\ Rank(v) \in Int /\ Rank(t) \in Int
      BY <2>2, <3>1, Ranks
    <3>3. ~(Rank(u) < Rank(v))
      BY <2>4, <3>2
    <3>. QED BY <1>5, <2>2, <2>4, <3>1, <3>3
  <2>. QED BY <2>1, <2>3, <2>4
<1>14. Past'
  <2>1. \A i \in DOMAIN delivered, u \in Threads : Precedes(delivered[i], u)'
    <3>. SUFFICES ASSUME NEW i \in DOMAIN delivered, NEW u \in Threads
                  PROVE  Precedes(delivered[i], u)'
      OBVIOUS
    <3>1. CASE u # t
      BY <1>1, <1>5, <3>1 DEF Line, Past, Precedes
    <3>2. CASE u = t /\ out'[t].pkt # 0
      <4>1. out'[t].kind = "frame" /\ Leads(delivered[i], out'[t].pkt)
        BY <1>2, <1>8, <3>2
      <4>. QED BY <1>5, <3>2, <4>1 DEF Precedes, Leads
    <3>3. CASE u = t /\ out'[t].pkt = 0
      BY <1>5, <3>3 DEF Precedes
    <3>. QED BY <3>1, <3>2, <3>3
  <2>2. \A u \in Threads : Precedes(ret, u)'
    <3>. SUFFICES ASSUME NEW u \in Threads PROVE  Precedes(ret, u)'
      OBVIOUS
    <3>1. CASE u # t
      BY <1>1, <1>5, <3>1 DEF Line, Past, Precedes
    <3>2. CASE u = t /\ out'[t].pkt # 0
      <4>1. out'[t].kind = "frame" /\ Leads(ret, out'[t].pkt)
        BY <1>2, <1>8, <3>2
      <4>. QED BY <1>5, <3>2, <4>1 DEF Precedes, Leads
    <3>3. CASE u = t /\ out'[t].pkt = 0
      BY <1>5, <3>3 DEF Precedes
    <3>. QED BY <3>1, <3>2, <3>3
  <2>3. ret.pkt # 0 => \A i \in DOMAIN delivered : Follows(i, ret)'
    BY DEF Line, Past, Follows
  <2>4. \A i, j \in DOMAIN delivered : i < j => Follows(i, delivered[j])'
    BY DEF Line, Past, Follows
  <2>. QED BY <2>1, <2>2, <2>3, <2>4 DEF Line, Past
<1>15. Late'
  <2>1. \A i \in DOMAIN delivered, k \in DOMAIN Held' : IsBefore(delivered[i], k)'
    BY <1>2, <1>7 DEF Leads, IsBefore
  <2>2. \A k \in DOMAIN Held' : IsBefore(ret, k)'
    BY <1>2, <1>7 DEF Leads, IsBefore
  <2>3. \A u \in Threads \ {t}, k \in DOMAIN Held' : IsBefore(out[u], k)'
    BY <1>2, <1>7 DEF Leads, IsBefore
  <2>4. \A k \in DOMAIN Held' : base < Held'[k] /\ Held'[k] <= sent
    BY <1>2, <1>7
  <2>5. \A k \in DOMAIN Held' : IsBefore(out[t], k)'
    <3>. SUFFICES ASSUME NEW k \in DOMAIN Held'
                  PROVE  out'[t].pkt # Held'[k] /\ (out'[t].kind = "frame" => out'[t].pkt < Held'[k])
      BY DEF IsBefore
    <3>1. Held'[k] \in Nat /\ Held'[k] # 0
      <4>1. PICK j \in DOMAIN q : Held'[k] = q[j]
        BY <1>7
      <4>2. q[j] \in Packets
        BY <1>2
      <4>. QED BY <4>1, <4>2, Numbers DEF Packets
    <3>2. CASE out'[t].pkt = 0
      BY <1>8, <3>1, <3>2
    <3>3. CASE out'[t].pkt # 0
      <4>1. out'[t].pkt < Held'[k]
        BY <1>10, <3>3
      <4>2. out'[t].pkt \in Packets
        BY <1>2, <1>8, <3>3
      <4>. QED BY <3>1, <4>1, <4>2, Numbers DEF Packets
    <3>. QED BY <3>2, <3>3
  <2>6. \A j, k \in DOMAIN Held' : j < k => Held'[j] < Held'[k]
    <3>1. CASE out'[t] = Nothing
      BY <1>2, <1>6, <3>1 DEF Nothing, Frame
    <3>2. CASE out'[t] # Nothing
      <4>. SUFFICES ASSUME NEW j \in DOMAIN Held', NEW k \in DOMAIN Held', j < k
                    PROVE  Held'[j] < Held'[k]
        OBVIOUS
      <4>1. /\ j + 1 \in DOMAIN q /\ Held'[j] = q[j + 1] /\ Held' \in Seq(Packets)
            /\ k + 1 \in DOMAIN q /\ Held'[k] = q[k + 1]
        BY <1>6, <3>2
      <4>2. j + 1 < k + 1
        BY <4>1
      <4>. QED BY <1>2, <4>1, <4>2
    <3>. QED BY <3>1, <3>2
  <2>7. \A u \in Threads, k \in DOMAIN Held' : IsBefore(out[u], k)'
    BY <2>3, <2>5
  <2>. QED BY <1>5, <2>1, <2>2, <2>4, <2>6, <2>7 DEF Late
<1>16. Conserved'
  <2>. SUFFICES ASSUME upc \in Calling \union {"idle"}, NEW n \in base + 1 .. sent,
                       n \notin Given, ret.pkt # n
                PROVE  (\E k \in DOMAIN Held' : Held'[k] = n) \/ \E u \in Threads : Item(u)' = n
    BY DEF Conserved, Given
  <2>1. CASE \E j \in DOMAIN q : q[j] = n
    BY <1>5, <1>9, <2>1
  <2>2. CASE ~\E j \in DOMAIN q : q[j] = n
    <3>1. n # 0
      BY Numbers DEF IInv, Types, UserTypes
    <3>2. (\E k \in DOMAIN Held : Held[k] = n) \/ (\E u \in Threads : Item(u) = n)
      BY DEF Line, Conserved
    <3>3. ~\E k \in DOMAIN Held : Held[k] = n
      BY <1>2, <2>2
    <3>4. Item(t) # n
      BY <1>2, <1>5, <2>2, <3>1
    <3>. QED BY <1>5, <3>2, <3>3, <3>4
  <2>. QED BY <2>1, <2>2
<1>17. Ends'
  <2>1. EofComplete'
    BY DEF Line, Ends, EofComplete, Given
  <2>2. ASSUME upc \in {"serve", "output"}, upkt = 0, Submits, out'[t] = Nothing
        PROVE  Held' = <<>>
    <3>1. avpkt[t] = 0
      BY <1>1, <2>2 DEF Line, Ring
    <3>. QED BY <1>6, <2>2, <3>1 DEF Nothing, Frame
  <2>3. ~(upc = "finish" /\ upkt = 0 /\ ret = Nothing)
    BY DEF Line, Room, Empty, Active, Undecided
  <2>. QED BY <1>4, <2>1, <2>2, <2>3 DEF Ends
<1>18. Complete'
  <2>1. \A n : ~Decodes(t, n)
    BY DEF Decodes, Undecided, AtRest, Finishing
  <2>2. \A s \in Threads, n \in Nat : Decodes(s, n) =>
           /\ s # t /\ avpkt[s] = n /\ Rank(s) <= Rank(t)
           /\ pc'[s] = "slices" \/ (pc'[s] \in Finishing /\ then'[s] = "slices")
    <3>. SUFFICES ASSUME NEW s \in Threads, NEW n \in Nat, Decodes(s, n)
                  PROVE  /\ s # t /\ avpkt[s] = n /\ Rank(s) <= Rank(t)
                         /\ pc'[s] = "slices" \/ (pc'[s] \in Finishing /\ then'[s] = "slices")
      OBVIOUS
    <3>1. s # t
      BY <2>1
    <3>2. Active(s)
      BY DEF Active, Decodes, IInv, Thread, Rests, AtRest, Finishing
    <3>3. Rank(s) < Rank(t) /\ Rank(s) \in Int /\ Rank(t) \in Int
      BY <1>1, <3>1, <3>2, Ranks
    <3>. QED BY <3>1, <3>3 DEF Decodes
  <2>. DEFINE Now(s, n) == avpkt'[s] = n /\ (pc'[s] = "slices" \/ (pc'[s] \in Finishing /\ then'[s] = "slices"))
  <2>3. \A s \in Threads, n \in Nat : Decodes(s, n) => Now(s, n) /\ Rank(s) <= Rank(t)
    BY <2>2
  <2>4. avpkt[t] # 0 => Now(t, avpkt[t]) /\ Rank(t) <= Rank(t)
    BY Ranks DEF Decodes
  <2>. HIDE DEF Now
  <2>5. \A j \in DOMAIN q : q[j] \in progress \/ \E s \in Threads : Now(s, q[j]) /\ Rank(s) <= Rank(t)
    <3>. SUFFICES ASSUME NEW j \in DOMAIN q
                  PROVE  q[j] \in progress \/ \E s \in Threads : Now(s, q[j]) /\ Rank(s) <= Rank(t)
      OBVIOUS
    <3>1. q[j] \in Nat /\ q[j] # 0
      BY <1>2, Numbers DEF Packets
    <3>. QED BY <1>2, <2>3, <2>4, <3>1
  <2>6. out'[t].kind = "frame" =>
          out'[t].pkt \in progress \/ \E s \in Threads : Now(s, out'[t].pkt) /\ Rank(s) <= Rank(t)
    BY <1>8, <2>5
  <2>7. \A u \in Threads \ {t} : out[u].kind = "frame" =>
          out[u].pkt \in progress \/ \E s \in Threads : Now(s, out[u].pkt) /\ Rank(s) <= Rank(u)
    <3>. SUFFICES ASSUME NEW u \in Threads \ {t}, out[u].kind = "frame"
                  PROVE  out[u].pkt \in progress
                         \/ \E s \in Threads : Now(s, out[u].pkt) /\ Rank(s) <= Rank(u)
      OBVIOUS
    <3>1. out[u].pkt \in Nat
      BY ResultFields DEF IInv, Types, ThreadTypes
    <3>2. out[u].pkt \in progress \/ \E s \in Threads : Decodes(s, out[u].pkt) /\ Rank(s) <= Rank(u)
      BY DEF Line, Complete
    <3>. QED BY <2>3, <3>1, <3>2
  <2>8. \A k \in DOMAIN Held' : Held'[k] \in progress \/ \E s \in Threads : Now(s, Held'[k])
    BY <1>7, <2>5
  <2>9. \A i \in Indices("frame")' : delivered'[i].pkt \in progress'
    BY DEF Line, Complete, Indices
  <2>10. ret'.kind = "frame" => ret'.pkt \in progress'
    BY DEF Line, Complete
  <2>11. \A u \in Threads : out'[u].kind = "frame" =>
          out'[u].pkt \in progress' \/ \E s \in Threads : Now(s, out'[u].pkt) /\ Rank(s)' <= Rank(u)'
    BY <1>5, <2>6, <2>7
  <2>. QED BY <2>8, <2>9, <2>10, <2>11 DEF Complete, Decodes, Now
<1>. QED BY <1>11, <1>12, <1>13, <1>14, <1>15, <1>16, <1>17, <1>18 DEF Line

LEMMA ParseReturnsOrders ==
    ASSUME IInv, Line, Known, NEW t \in Threads, ParseReturns(t) PROVE Line'
<1>. USE DEF locks, async, ptctx, serial, waits, worker, frames
<1>1. /\ UNCHANGED <<codec, fctx, user, hist, state, avpkt, then, progress>>
      /\ ThreadTypes /\ ctx[t] \in Contexts /\ codec \in Codecs
      /\ pc[t] = "parse" /\ pc' = [pc EXCEPT ![t] = "unlock"]
      /\ Thread(t)
  BY DEF ParseReturns, IInv, Types, ThreadTypes, UserTypes
<1>2. /\ \A u \in Threads \ {t} : pc'[u] = pc[u]
      /\ pc'[t] = "unlock" /\ state[t] # "get_buffer" /\ Undecided(t) /\ ~Undecided(t)'
  BY <1>1 DEF ThreadTypes, Thread, Rests, AtRest, Undecided, Finishing, Line, Outcomes
<1>3. CASE avpkt[t] # 0
  <2>1. /\ out' = [out EXCEPT ![t] = Error(avpkt[t])]
        /\ ctx' = [ctx EXCEPT ![t] = [ctx[t] EXCEPT !.last = avpkt[t]]]
    BY <1>1, <1>3 DEF ParseReturns, ThreadTypes
  <2>2. [ctx[t] EXCEPT !.last = avpkt[t]].held = ctx[t].held
    BY <1>1 DEF Contexts
  <2>3. /\ \A u \in Threads \ {t} : out'[u] = out[u] /\ ctx'[u] = ctx[u]
        /\ out'[t] = Error(avpkt[t]) /\ ctx'[t].held = ctx[t].held
    BY <1>1, <2>1, <2>2 DEF ThreadTypes
  <2>. QED BY <1>1, <1>2, <1>3, <2>3, DecidesOwn
<1>4. CASE avpkt[t] = 0
  <2>1. /\ out' = [out EXCEPT ![t] = Outputs(ctx[t], TRUE)]
        /\ ctx' = [ctx EXCEPT ![t] = AfterOutput(ctx[t], TRUE)]
    BY <1>1, <1>4 DEF ParseReturns, ThreadTypes
  <2>2. /\ \A u \in Threads \ {t} : out'[u] = out[u] /\ ctx'[u] = ctx[u]
        /\ out'[t] = Outputs(ctx[t], TRUE) /\ ctx'[t] = AfterOutput(ctx[t], TRUE)
    BY <1>1, <2>1 DEF ThreadTypes
  <2>3. ctx[t].held \in Seq(Packets) /\ Len(ctx[t].held) <= codec.delay
    BY <1>1 DEF Contexts, Line, Outcomes
  <2>4. CASE ctx[t].held = <<>>
    <3>1. Outputs(ctx[t], TRUE) = Nothing
      BY <2>4 DEF Outputs
    <3>2. AfterOutput(ctx[t], TRUE).held = <<>>
      BY <1>1, <2>4, <3>1 DEF AfterOutput, Contexts
    <3>3. out'[t] = Nothing /\ ctx'[t].held = ctx[t].held
      BY <2>2, <2>4, <3>1, <3>2
    <3>. QED BY <1>1, <1>2, <1>4, <2>2, <2>4, <3>3, DecidesOwn
  <2>5. CASE ctx[t].held # <<>>
    <3>1. Len(ctx[t].held) > 0 /\ codec.delay \in Nat
      BY <1>1, <2>3, <2>5, CodecFields
    <3>2. Outputs(ctx[t], TRUE) = Frame(Head(ctx[t].held)) /\ Outputs(ctx[t], TRUE) # Nothing
      BY <3>1 DEF Outputs, Frame, Nothing
    <3>3. AfterOutput(ctx[t], TRUE).held = Tail(ctx[t].held)
      BY <1>1, <3>2 DEF AfterOutput, Contexts
    <3>4. Holds(t) = ctx[t].held
      BY <1>4 DEF Holds
    <3>5. Len(Holds(t)) <= codec.delay + 1 /\ codec.update
      BY <1>1, <2>3, <3>1, <3>4, CodecFields
    <3>6. /\ Holds(t) # <<>> /\ out'[t] = Frame(Head(Holds(t)))
          /\ ctx'[t].held = Tail(Holds(t)) /\ Len(Holds(t)) <= codec.delay + 1
      BY <2>2, <2>5, <3>2, <3>3, <3>4, <3>5
    <3>. QED BY <1>1, <1>2, <1>4, <2>2, <3>5, <3>6, DecidesLate
  <2>. QED BY <2>4, <2>5
<1>. QED BY <1>3, <1>4

LEMMA GotBufferOrders ==
    ASSUME IInv, Line, NEW t \in Threads, GotBuffer(t) PROVE Line'
<1>. USE DEF locks, async, ptctx, serial, waits, worker, frames
<1>1. /\ UNCHANGED <<codec, fctx, user, hist, state, avpkt, then, progress>>
      /\ ThreadTypes /\ ctx[t] \in Contexts
      /\ pc[t] = "got" /\ Thread(t) /\ avpkt[t] # 0
  BY DEF GotBuffer, IInv, Types, ThreadTypes, UserTypes, Thread, Works
<1>2. Undecided(t) /\ state[t] # "get_buffer"
  BY <1>1 DEF Thread, Rests, AtRest, Undecided, Line, Outcomes
<1>3. CASE out[t] = Nothing
  <2>1. pc' = [pc EXCEPT ![t] = "setup"] /\ UNCHANGED <<out, ctx>>
    BY <1>3 DEF GotBuffer
  <2>2. pc'[t] = "setup" /\ \A u \in Threads \ {t} : pc'[u] = pc[u]
    BY <1>1, <2>1 DEF ThreadTypes
  <2>3. Undecided(t)'
    BY <1>1, <1>2, <2>2 DEF Undecided
  <2>4. (Active(t)' => Active(t)) /\ \A n \in Nat : ~Decodes(t, n)
    BY <1>1, <2>1 DEF Active, Decodes, Finishing
  <2>. QED BY <1>1, <1>2, <2>1, <2>2, <2>3, <2>4, WorkerGoesOn
<1>4. CASE out[t] # Nothing
  <2>1. /\ out' = [out EXCEPT ![t] = Error(avpkt[t])]
        /\ ctx' = [ctx EXCEPT ![t] = [ctx[t] EXCEPT !.last = avpkt[t]]]
        /\ pc' = [pc EXCEPT ![t] = "unlock"]
    BY <1>1, <1>4 DEF GotBuffer, ThreadTypes
  <2>2. [ctx[t] EXCEPT !.last = avpkt[t]].held = ctx[t].held
    BY <1>1 DEF Contexts
  <2>3. /\ \A u \in Threads \ {t} : out'[u] = out[u] /\ ctx'[u] = ctx[u] /\ pc'[u] = pc[u]
        /\ out'[t] = Error(avpkt[t]) /\ ctx'[t].held = ctx[t].held /\ pc'[t] = "unlock"
    BY <1>1, <2>1, <2>2 DEF ThreadTypes
  <2>4. ~Undecided(t)'
    BY <2>3 DEF Undecided, AtRest, Finishing
  <2>. QED BY <1>1, <1>2, <2>3, <2>4, DecidesOwn
<1>. QED BY <1>3, <1>4

LEMMA SetUpOrders ==
    ASSUME IInv, Line, Known, NEW t \in Threads, SetUp(t) PROVE Line'
<1>. USE DEF locks, async, ptctx, serial, waits, worker, frames
<1>1. /\ UNCHANGED <<codec, fctx, user, hist, state, avpkt, progress>>
      /\ ThreadTypes /\ ctx[t] \in Contexts /\ codec \in Codecs
      /\ pc[t] = "setup" /\ Thread(t) /\ avpkt[t] # 0 /\ avpkt[t] \in Packets
  BY Numbers DEF SetUp, IInv, Types, ThreadTypes, UserTypes, Thread, Works, Packets
<1>2. /\ \A u \in Threads \ {t} : pc'[u] = pc[u] /\ then'[u] = then[u]
      /\ \/ pc'[t] \in Finishing /\ then'[t] = "slices"
         \/ pc'[t] = "slices"
  BY <1>1 DEF SetUp, Finish, ThreadTypes, Finishing
<1>3. Undecided(t) /\ ~Undecided(t)' /\ state[t] # "get_buffer"
  BY <1>1, <1>2 DEF Thread, Rests, AtRest, Undecided, Finishing, Line, Outcomes
<1>4. Decodes(t, avpkt[t])'
  BY <1>1, <1>2 DEF Decodes
<1>5. PICK ref \in {0, ctx[t].frame} :
        LET c == [Setup(t, ctx[t]) EXCEPT !.ref = IF codec.update THEN ref ELSE 0]
        IN  /\ out' = [out EXCEPT ![t] = Outputs(c, FALSE)]
            /\ ctx' = [ctx EXCEPT ![t] = AfterOutput(c, FALSE)]
  BY DEF SetUp
<1>. DEFINE c == [Setup(t, ctx[t]) EXCEPT !.ref = IF codec.update THEN ref ELSE 0]
            h == ctx[t].held
<1>6. /\ h \in Seq(Packets) /\ Len(h) \in Nat /\ Len(h) <= codec.delay /\ codec.delay \in Nat
      /\ Append(h, avpkt[t]) \in Seq(Packets) /\ Len(Append(h, avpkt[t])) = Len(h) + 1
  BY <1>1, CodecFields DEF Contexts, Line, Outcomes
<1>7. c \in Contexts /\ c.held = Append(h, avpkt[t])
  <2>1. ref \in 0..MaxPackets /\ 0 \in 0..MaxPackets /\ avpkt[t] \in 0..MaxPackets
    BY <1>1, Numbers DEF Contexts, ThreadTypes
  <2>. QED BY <1>1, <1>6, <2>1 DEF Contexts, Setup
<1>8. /\ out' = [out EXCEPT ![t] = Outputs(c, FALSE)]
      /\ ctx' = [ctx EXCEPT ![t] = AfterOutput(c, FALSE)]
  BY <1>5
<1>. HIDE DEF c
<1>9. /\ \A u \in Threads \ {t} : out'[u] = out[u] /\ ctx'[u] = ctx[u]
      /\ out'[t] = Outputs(c, FALSE) /\ ctx'[t] = AfterOutput(c, FALSE)
  BY <1>1, <1>8 DEF ThreadTypes
<1>10. \/ /\ Len(h) + 1 <= codec.delay /\ out'[t] = Nothing
          /\ ctx'[t].held = Append(h, avpkt[t])
       \/ /\ Len(h) = codec.delay /\ out'[t] = Frame(Head(Append(h, avpkt[t])))
          /\ ctx'[t].held = Tail(Append(h, avpkt[t]))
  <2>1. CASE Len(h) + 1 <= codec.delay
    <3>1. Outputs(c, FALSE) = Nothing
      BY <1>6, <1>7, <2>1 DEF Outputs
    <3>2. AfterOutput(c, FALSE).held = c.held
      BY <1>7, <3>1 DEF AfterOutput, Contexts
    <3>. QED BY <1>7, <1>9, <2>1, <3>1, <3>2
  <2>2. CASE ~(Len(h) + 1 <= codec.delay)
    <3>1. Len(h) = codec.delay /\ Len(c.held) > codec.delay
      BY <1>6, <1>7, <2>2
    <3>2. Outputs(c, FALSE) = Frame(Head(c.held)) /\ Outputs(c, FALSE) # Nothing
      BY <3>1 DEF Outputs, Frame, Nothing
    <3>3. AfterOutput(c, FALSE).held = Tail(c.held)
      BY <1>7, <3>2 DEF AfterOutput, Contexts
    <3>. QED BY <1>7, <1>9, <3>1, <3>2, <3>3
  <2>. QED BY <2>1, <2>2
<1>11. CASE codec.update
  <2>1. Holds(t) = Append(h, avpkt[t])
    BY <1>1 DEF Holds
  <2>2. \/ /\ out'[t] = Nothing /\ ctx'[t].held = Holds(t) /\ Len(Holds(t)) <= codec.delay
           /\ avpkt[t] = 0 => Holds(t) = <<>>
        \/ /\ Holds(t) # <<>> /\ out'[t] = Frame(Head(Holds(t)))
           /\ ctx'[t].held = Tail(Holds(t)) /\ Len(Holds(t)) <= codec.delay + 1
    BY <1>1, <1>6, <1>10, <2>1
  <2>. QED BY <1>1, <1>2, <1>3, <1>4, <1>9, <1>11, <2>2, DecidesLate
<1>12. CASE ~codec.update
  <2>1. codec.delay = 0
    BY <1>1, <1>12, CodecFields
  <2>2. h = <<>> /\ out'[t] = Frame(Head(Append(h, avpkt[t]))) /\ ctx'[t].held = Tail(Append(h, avpkt[t]))
    BY <1>6, <1>10, <2>1
  <2>3. Head(Append(h, avpkt[t])) = avpkt[t] /\ Tail(Append(h, avpkt[t])) = <<>>
    BY <2>2
  <2>4. out'[t] = Frame(avpkt[t]) /\ ctx'[t].held = ctx[t].held
    BY <2>2, <2>3
  <2>. QED BY <1>1, <1>2, <1>3, <1>4, <1>9, <2>1, <2>4, DecidesOwn
<1>. QED BY <1>11, <1>12

LEMMA WorkersOrder ==
    ASSUME IInv, Line, Known, NEW t \in Threads, Worker(t) PROVE Line'
BY CheckInputOrders, SerializeOrders, ParseReturnsOrders, GetFormatOrders, GetBufferOrders,
   GotBufferOrders, SetUpOrders, LaterOrders, StatesOrder DEF Worker

-----------------------------------------------------------------------------
(* The steps of the user                                                   *)

\* The context of the newest packet stays as it is, whoever copies it.
LEMMA CopyKeepsHeld ==
    ASSUME IInv, Line, NEW dst \in Threads, upc # "serve",
           ctx' = UpdateContext(dst, prev), UNCHANGED codec
    PROVE  /\ ctx'[Newest].held = Held
           /\ \A u \in Threads : Len(ctx'[u].held) <= codec.delay
           /\ codec.update /\ prev # User => ctx'[dst].held = Held
           /\ \A u \in Threads \ {dst} : ctx'[u] = ctx[u]
<1>1. /\ ctx \in [Threads -> Contexts] /\ prev \in Threads \union {User}
      /\ \A u \in Threads : Len(ctx[u].held) <= codec.delay
      /\ Latest = prev /\ Newest \in Threads
  BY HeldTypes DEF IInv, Types, ThreadTypes, UserTypes, Line, Outcomes, Latest
<1>2. CASE prev = User \/ dst = prev \/ ~codec.update
  <2>1. ctx' = ctx
    BY <1>2 DEF UpdateContext
  <2>2. dst = prev => Newest = dst
    BY <1>1, Numbers DEF Newest
  <2>. QED BY <1>1, <1>2, <2>1, <2>2 DEF Held
<1>3. CASE prev # User /\ dst # prev /\ codec.update
  <2>1. ctx' = [ctx EXCEPT ![dst] = ctx[prev]] /\ Newest = prev /\ prev \in Threads
    BY <1>1, <1>3 DEF UpdateContext, Newest
  <2>2. ctx'[dst] = ctx[prev] /\ \A u \in Threads \ {dst} : ctx'[u] = ctx[u]
    BY <1>1, <2>1
  <2>. QED BY <1>1, <1>3, <2>1, <2>2 DEF Held
<1>. QED BY <1>2, <1>3

\* The steps that neither submit a packet nor take output
LEMMA CallGoesOn ==
    ASSUME IInv, Line,
           UNCHANGED <<codec, fctx, state, then, avpkt, out, progress, upkt, draining, hist>>,
           \A u \in Threads : pc'[u] = pc[u] \/ (pc[u] \in AtRest /\ pc'[u] \in AtRest),
           ctx'[Newest].held = Held, \A u \in Threads : Len(ctx'[u].held) <= codec.delay,
           fin' = fin \/ upc \notin Calling,
           \/ upc' = upc /\ ret' = ret
           \/ upc = "idle" /\ upc' \in {"flush", "close"} /\ ret' = ret
           \/ upc = "lock" /\ upc' = "release" /\ ret' = ret
           \/ upc = "release" /\ upc' = "prev" /\ ret' = ret
           \/ upc \in {"release", "prev"} /\ upc' = "finish" /\ ret' = Error(0)
           \/ upc = "close" /\ upc' = "kill" /\ ret' = ret
           \/ upc \in {"kill", "join"} /\ upc' \in {"kill", "join", "closed"} /\ ret' = ret
    PROVE  Line'
<1>. USE DEF fctx, hist
<1>1. /\ Latest' = Latest /\ Newest' = Newest /\ Held' = Held
      /\ Submits' <=> Submits
      /\ Limit' = Limit
  BY DEF Latest, Newest, Held, Submits, Limit
<1>2. \A u \in Threads : /\ Undecided(u)' <=> Undecided(u)
                         /\ Active(u)' <=> Active(u)
  BY DEF Undecided, Active, AtRest, Finishing
<1>3. \A x : Rank(x)' = Rank(x)
  BY DEF Rank
<1>4. Error(0) # Nothing /\ Error(0).kind # "frame"
  BY DEF Error, Nothing
<1>5. upc \in {"release", "prev"} => ret = Nothing /\ draining # "done"
  BY DEF Line, Ring, Calling
<1>6. Empty' <=> Empty
  BY <1>4, <1>5 DEF Empty
<1>7. Outcomes' /\ Threaded' /\ Past' /\ Late' /\ Conserved' /\ Complete'
  <2>1. \A u \in Threads : state'[u] = "get_buffer" => pc'[u] = "answer"
    BY DEF Line, Outcomes, AtRest
  <2>2. \A s \in Threads, n \in Nat : Decodes(s, n) => Decodes(s, n)'
    BY DEF Decodes, AtRest, Finishing
  <2>3. ret' = ret \/ (ret.pkt = 0 /\ ret.kind # "frame" /\ ret' \in {Nothing, Error(0)})
    BY <1>5 DEF Nothing
  <2>4. upc' \in Calling \union {"idle"} => upc \in Calling \union {"idle"}
    BY DEF Calling
  <2>. QED BY <1>1, <1>2, <2>1, <2>2, <2>3, <2>4, OrderIsKept
<1>8. Ring'
  BY <1>1 DEF Line, Ring, Calling
<1>9. Room'
  <2>1. \A t \in Threads : Active(t)' => Latest' # User /\ Rank(t)' <= Rank(Latest)'
    BY <1>1, <1>2, <1>3 DEF Line, Room
  <2>2. upc' # "serve" => upc # "serve"
    BY DEF Line
  <2>3. (upc' = "output" => upc = "output") /\ (upc = "output" => upc' = "output")
    BY DEF Line
  <2>4. upc' \in {upc, "closed"} \/ upc # "closed"
    BY DEF Line
  <2>5. \A t \in Threads : Active(t)' /\ (upc' = "output" => ~Submits') /\ upc' # "serve" =>
          Rank(t)' < Rank(nextDecoding)'
    BY <1>1, <1>2, <1>3, <2>2, <2>3 DEF Line, Room
  <2>6. upc' = "output" => \A t \in Threads : Rank(t)' < Rank(fin)' => ~Active(t)'
    BY <1>2, <1>3, <2>3 DEF Line, Room, Calling
  <2>7. upc' = "output" /\ Submits' => Rank(prev)' <= Limit'
    BY <1>1, <1>3, <2>3 DEF Line, Room
  <2>8. ~(upc' = "output" /\ Submits') => Empty' \/ upc' = "closed" \/ Rank(nextDecoding)' <= Limit'
    BY <1>1, <1>3, <1>6, <2>3, <2>4 DEF Line, Room
  <2>9. Empty' => \A t \in Threads : ~Active(t)'
    BY <1>2, <1>6 DEF Line, Room
  <2>. QED BY <2>1, <2>5, <2>6, <2>7, <2>8, <2>9 DEF Room
<1>10. Ends'
  <2>1. EofComplete'
    BY DEF Line, Ends, EofComplete, Given
  <2>2. ASSUME upc' \in {"serve", "output"}, upkt' = 0, Submits', ~Undecided(Latest)',
               out'[Latest] = Nothing
        PROVE  Held' = <<>>
    <3>1. upc' = upc /\ Latest \in Threads
      BY <1>1, <2>2 DEF Line, Ring, IInv, Types, UserTypes, Latest, Calling
    <3>. QED BY <1>1, <1>2, <2>2, <3>1 DEF Line, Ends
  <2>3. upc' = "finish" /\ upkt' = 0 /\ ret' = Nothing => Held' = <<>>
    BY <1>1, <1>4 DEF Line, Ends
  <2>. QED BY <1>1, <2>1, <2>2, <2>3 DEF Ends
<1>. QED BY <1>7, <1>8, <1>9, <1>10 DEF Line

LEMMA HeldStays ==
    ASSUME IInv, Line
    PROVE ctx[Newest].held = Held /\ \A u \in Threads : Len(ctx[u].held) <= codec.delay
BY DEF Held, Line, Outcomes

LEMMA QuietUserOrders ==
    ASSUME IInv, Line,
           \/ Park("flush") \/ Park("close") \/ Lock \/ ReleaseDelayedBuffers \/ AwaitPrev
           \/ AwaitOutput \/ Kill \/ Join \/ SpuriousWakeup \/ UNCHANGED vars
    PROVE  Line'
<1>. USE DEF locks, async, ptctx, serial, waits, worker, frames, user
<1>1. \A t \in Threads : \/ Signalled(t) = pc
                         \/ pc[t] = "wait" /\ Signalled(t) = [pc EXCEPT ![t] = "woken"]
  BY DEF Signalled, IInv, Types, ThreadTypes
<1>2. /\ UNCHANGED <<codec, fctx, state, then, avpkt, out, ctx, progress, upkt, draining, hist>>
      /\ UNCHANGED fin \/ upc \notin Calling
  BY DEF Park, Lock, ReleaseDelayedBuffers, Fails, AwaitPrev, AwaitOutput, Kill, Join,
         SpuriousWakeup, vars, Calling
<1>3. \/ UNCHANGED pc
      \/ \E t \in Threads : pc' = Signalled(t)
  <2>1. upc = "kill" => fin \in Threads
    BY DEF IInv, Types, UserTypes
  <2>. QED BY <2>1 DEF Park, Lock, ReleaseDelayedBuffers, Fails, AwaitPrev, AwaitOutput, Kill, Join,
         SpuriousWakeup, vars
<1>4. \A u \in Threads : pc'[u] = pc[u] \/ (pc[u] \in AtRest /\ pc'[u] \in AtRest)
  <2>1. CASE UNCHANGED pc
    BY <2>1
  <2>2. CASE \E t \in Threads : pc' = Signalled(t)
    <3>1. PICK t \in Threads : pc' = Signalled(t)
      BY <2>2
    <3>. QED BY <1>1, <3>1 DEF AtRest, IInv, Types, ThreadTypes
  <2>. QED BY <1>3, <2>1, <2>2
<1>5. \/ upc' = upc /\ ret' = ret
      \/ upc = "idle" /\ upc' \in {"flush", "close"} /\ ret' = ret
      \/ upc = "lock" /\ upc' = "release" /\ ret' = ret
      \/ upc = "release" /\ upc' = "prev" /\ ret' = ret
      \/ upc \in {"release", "prev"} /\ upc' = "finish" /\ ret' = Error(0)
      \/ upc \in {"kill", "join"} /\ upc' \in {"kill", "join", "closed"} /\ ret' = ret
  BY DEF Park, Lock, ReleaseDelayedBuffers, Fails, AwaitPrev, AwaitOutput, Kill, Join,
         SpuriousWakeup, vars
<1>6. ctx'[Newest].held = Held /\ \A u \in Threads : Len(ctx'[u].held) <= codec.delay
  BY <1>2, HeldStays
<1>. QED BY <1>2, <1>4, <1>5, <1>6, CallGoesOn

LEMMA CloseOrders ==
    ASSUME IInv, Line, Close PROVE Line'
<1>. USE DEF locks, async, ptctx, serial, waits, worker, frames, user
<1>1. /\ UNCHANGED <<codec, fctx, pc, state, then, avpkt, out, progress, ret, upkt, draining, hist>>
      /\ upc = "close" /\ upc \notin Calling
      /\ \/ UNCHANGED <<ctx, upc>>
         \/ ctx' = UpdateContext(0, prev) /\ upc' = "kill"
  BY DEF Close, Parked, Calling
<1>2. ctx'[Newest].held = Held /\ \A u \in Threads : Len(ctx'[u].held) <= codec.delay
  BY <1>1, HeldStays, CopyKeepsHeld, Numbers
<1>. QED BY <1>1, <1>2, CallGoesOn

LEMMA DecodeOrders ==
    ASSUME IInv, Line, NEW n \in 0..MaxPackets, Decode(n) PROVE Line'
<1>. USE DEF locks, async, ptctx, serial, waits, worker, frames, hist
<1>1. /\ UNCHANGED <<codec, prev, nextFinished, ptctx, worker, frames, hist>>
      /\ upc = "idle" /\ draining # "done" /\ (n # 0 => draining = "no")
      /\ upkt' = n /\ fin' = nextFinished /\ ret' = Nothing
      /\ draining' = IF n = 0 THEN "yes" ELSE draining
      /\ nextDecoding' = nextDecoding /\ (delaying' => delaying)
      /\ \/ upc' = "output" /\ n = 0 /\ codec.delay = 0
         \/ upc' = "lock" /\ ~(n = 0 /\ codec.delay = 0)
  BY DEF Decode, Submitted, Delays
<1>2. Latest' = Latest /\ Newest' = Newest /\ Held' = Held /\ Limit' = Limit
  BY <1>1 DEF Latest, Newest, Held, Limit
<1>3. \A u \in Threads : /\ Undecided(u)' <=> Undecided(u)
                         /\ Active(u)' <=> Active(u)
  BY <1>1 DEF Undecided, Active
<1>4. (\A x : Rank(x)' = Rank(x)) /\ Rank(nextFinished) = 0
  BY <1>1, Ranks DEF Rank
<1>5. ret = Nothing /\ codec.delay \in Nat
  BY <1>1, CodecFields DEF Line, Ring, Calling, IInv, Types, UserTypes
<1>6. Submits' <=> upc' = "lock"
  BY <1>1, <1>5 DEF Submits
<1>7. ~Empty' /\ ~Empty
  BY <1>1 DEF Empty
<1>8. Outcomes' /\ Threaded' /\ Past' /\ Late' /\ Conserved' /\ Complete'
  <2>1. \A u \in Threads : state'[u] = "get_buffer" => pc'[u] = "answer"
    BY <1>1 DEF Line, Outcomes
  <2>2. \A s \in Threads, m \in Nat : Decodes(s, m) => Decodes(s, m)'
    BY <1>1 DEF Decodes
  <2>3. \A u \in Threads : Len(ctx'[u].held) <= codec.delay
    BY <1>1 DEF Line, Outcomes
  <2>. QED BY <1>1, <1>2, <1>3, <1>5, <2>1, <2>2, <2>3, OrderIsKept
<1>9. Ring'
  <2>1. upc' \in Calling
    BY <1>1 DEF Calling
  <2>2. upkt' = 0 <=> draining' = "yes"
    BY <1>1
  <2>3. draining' # "done" /\ (draining' = "no" => draining = "no")
    BY <1>1
  <2>4. upc' = "output" => ~Submits' /\ upkt' = 0
    BY <1>1, <1>6
  <2>. QED BY <1>1, <1>6, <2>1, <2>2, <2>3, <2>4 DEF Line, Ring
<1>10. Room'
  <2>1. \A t \in Threads : Active(t)' => Latest' # User /\ Rank(t)' <= Rank(Latest)'
    BY <1>2, <1>3, <1>4 DEF Line, Room
  <2>2. \A t \in Threads : Active(t) => Rank(t) < Rank(nextDecoding)
    BY <1>1 DEF Line, Room
  <2>3. \A t \in Threads : ~(Rank(t)' < Rank(fin)')
    BY <1>1, <1>4, Ranks
  <2>4. Rank(nextDecoding) <= Limit
    BY <1>1, <1>7 DEF Line, Room
  <2>. QED BY <1>1, <1>2, <1>3, <1>4, <1>6, <1>7, <2>1, <2>2, <2>3, <2>4 DEF Room
<1>11. Ends'
  BY <1>1, <1>6, <1>7 DEF Ends, Empty, EofComplete
<1>. QED BY <1>8, <1>9, <1>10, <1>11 DEF Line

\* The user moves on to the next thread, to submit to or to take output from.
LEMMA SubmittedInRing ==
    ASSUME IInv, Line, NEW p \in Threads, UNCHANGED <<codec, nextFinished, upkt, fin, ret, draining>>,
           upc \in {"prev", "serve"}, nextDecoding = p,
           prev' = p, Submitted(p + 1, upkt), avpkt'[p] = upkt,
           \A t \in Threads : Active(t)' => Rank(t) <= Rank(p)
    PROVE  Ring' /\ Room'
<1>1. /\ fin = nextFinished /\ Submits /\ ret = Nothing
      /\ (upkt = 0 <=> draining = "yes") /\ draining # "done"
      /\ delaying /\ draining = "no" => nextFinished = 0
  BY DEF Line, Ring, Calling
<1>2. /\ nextDecoding' = p + 1 /\ delaying' = Delays(p + 1)
      /\ \/ upc' = "output" /\ ~(Delays(p + 1) /\ upkt # 0)
         \/ upc' = "finish" /\ Delays(p + 1) /\ upkt # 0
  BY DEF Submitted
<1>3. /\ Delays(p + 1) => delaying /\ p + 1 <= Limit
      /\ Limit' = Limit /\ Latest' = p /\ (Submits' <=> Submits)
  BY <1>2 DEF Delays, Limit, Latest, Submits
<1>4. p # User /\ NThreads \in Nat /\ p \in Int /\ 0 <= p
  BY Numbers DEF Threads
<1>5. upc' = "finish" => draining = "no" /\ nextFinished = 0
  <2>1. draining \in {"no", "yes", "done"}
    BY DEF IInv, Types, UserTypes
  <2>. QED BY <1>1, <1>2, <1>3, <2>1
<1>6. Ring'
  <2>1. upc' \in Calling
    BY <1>2 DEF Calling
  <2>2. upc' # "lock" /\ upc' # "release" /\ upc' # "prev" /\ upc' # "serve"
    BY <1>2
  <2>3. delaying' /\ draining' = "no" => nextFinished' = 0
    BY <1>1, <1>2, <1>3
  <2>4. upc' = "output" /\ upkt' # 0 => fin' = nextFinished' /\ ~delaying'
    BY <1>1, <1>2
  <2>. QED BY <1>1, <1>2, <1>3, <1>4, <2>1, <2>2, <2>3, <2>4 DEF Ring
<1>7. Room'
  <2>1. \A x : Rank(x)' = Rank(x)
    BY DEF Rank
  <2>2. \A t \in Threads : Rank(t) \in 0..NThreads - 1 /\ Rank(nextFinished) = 0
    BY Ranks
  <2>3. Rank(p) <= Limit
    <3>1. ~Empty
      BY <1>1 DEF Empty
    <3>. QED BY <3>1 DEF Line, Room
  <2>4. ~Empty'
    BY <1>1, <1>2 DEF Empty
  <2>5. upc' = "finish" => Rank(p) = p /\ Rank(p + 1) = p + 1
    BY <1>4, <1>5 DEF Rank
  <2>6. Limit \in Int
    BY <1>4 DEF Limit
  <2>7. upc' = "finish" => p + 1 <= Limit
    BY <1>2, <1>3
  <2>8. upc' = "finish" => \A t \in Threads : Active(t)' => Rank(t)' < Rank(nextDecoding)'
    <3>. SUFFICES ASSUME upc' = "finish", NEW t \in Threads, Active(t)'
                  PROVE  Rank(t) < Rank(p + 1)
      BY <1>2, <2>1
    <3>1. Rank(t) <= Rank(p) /\ Rank(t) \in Int
      BY <2>2
    <3>. QED BY <1>4, <2>5, <3>1
  <2>9. upc' = "output" => \A t \in Threads : ~(Rank(t)' < Rank(fin)')
    BY <1>1, <2>1, <2>2
  <2>10. \A t \in Threads : Active(t)' => Latest' # User /\ Rank(t)' <= Rank(Latest)'
    BY <1>3, <1>4, <2>1
  <2>11. Rank(prev)' <= Limit'
    BY <1>3, <2>1, <2>3
  <2>12. upc' = "finish" => Rank(nextDecoding)' <= Limit'
    BY <1>2, <1>3, <2>1, <2>5, <2>7
  <2>13. upc' \in {"output", "finish"} /\ Submits'
    BY <1>1, <1>2, <1>3
  <2>. QED BY <2>4, <2>8, <2>9, <2>10, <2>11, <2>12, <2>13 DEF Room
<1>. QED BY <1>6, <1>7

LEMMA ServeOrders ==
    ASSUME IInv, Line, Serve PROVE Line'
<1>. USE DEF locks, async, ptctx, serial, waits, worker, frames, user, hist, fctx
<1>. DEFINE p == nextDecoding
<1>1. /\ upc = "serve" /\ p \in Threads /\ Latest = p
      /\ UNCHANGED <<codec, nextFinished, avpkt, ctx, pc, then, progress, upkt, fin, ret,
                     draining, hist>>
  BY DEF Serve, IInv, Types, UserTypes, Latest
<1>2. \/ UNCHANGED <<state, out, prev, nextDecoding, delaying, upc>>
      \/ /\ state[p] \in {"get_buffer", "get_format"}
         /\ \/ state[p] = "get_buffer" /\ \E r \in {Nothing, Error(0)} : out' = [out EXCEPT ![p] = r]
            \/ out' = out
         /\ state' = [state EXCEPT ![p] = "setting_up"]
         /\ UNCHANGED <<prev, nextDecoding, delaying, upc>>
      \/ prev' = p /\ Submitted(p + 1, upkt) /\ UNCHANGED <<state, out>>
  BY DEF Serve
<1>3. CASE UNCHANGED <<state, out, prev, nextDecoding, delaying, upc>>
  <2>1. \A u \in Threads : pc'[u] = pc[u]
    BY <1>1
  <2>. QED BY <1>1, <1>3, <2>1, HeldStays, CallGoesOn
<1>4. CASE /\ state[p] \in {"get_buffer", "get_format"}
           /\ \/ state[p] = "get_buffer" /\ \E r \in {Nothing, Error(0)} : out' = [out EXCEPT ![p] = r]
              \/ out' = out
           /\ state' = [state EXCEPT ![p] = "setting_up"]
           /\ UNCHANGED <<prev, nextDecoding, delaying, upc>>
  <2>1. /\ state'[p] = "setting_up" /\ \A u \in Threads \ {p} : state'[u] = state[u] /\ out'[u] = out[u]
        /\ out'[p] = out[p] \/ (state[p] = "get_buffer" /\ out'[p] \in {Nothing, Error(0)})
    BY <1>1, <1>4 DEF IInv, Types, ThreadTypes
  <2>2. state[p] = "get_buffer" => Undecided(p)
    BY <1>1 DEF Line, Outcomes, Undecided
  <2>3. \A u \in Threads : Undecided(u)' <=> Undecided(u)
    BY <1>1, <1>4, <2>1 DEF Undecided
  <2>4. \A u \in Threads : Active(u)' => Active(u)
    BY <1>4, <2>1 DEF Active
  <2>5. Ring' /\ Room'
    BY <1>1, <1>4, <2>4, RoomIsKept
  <2>6. /\ Latest' = Latest /\ Newest' = Newest /\ Held' = Held
        /\ Submits' <=> Submits
    BY <1>1, <1>4 DEF Latest, Newest, Held, Submits
  <2>7. Outcomes' /\ Threaded' /\ Past' /\ Late' /\ Conserved' /\ Complete'
    <3>1. \A u \in Threads : state'[u] = "get_buffer" => pc'[u] = "answer"
      BY <1>1, <2>1 DEF Line, Outcomes
    <3>2. \A s \in Threads, n \in Nat : Decodes(s, n) => Decodes(s, n)'
      BY <1>1 DEF Decodes
    <3>3. \A u \in Threads : out'[u] = out[u] \/ (Undecided(u) /\ out'[u] \in {Nothing, Error(0)})
      BY <2>1, <2>2
    <3>4. \A u \in Threads : Len(ctx'[u].held) <= codec.delay
      BY <1>1, HeldStays
    <3>. QED BY <1>1, <1>4, <2>3, <2>6, <3>1, <3>2, <3>3, <3>4, OrderIsKept
  <2>8. Ends'
    <3>1. EofComplete'
      BY <1>1 DEF Line, Ends, EofComplete, Given
    <3>2. ~Undecided(p)' => ~Undecided(p) /\ out'[p] = out[p]
      BY <1>1, <1>4, <2>1, <2>2, <2>3
    <3>. QED BY <1>1, <1>4, <2>6, <3>1, <3>2 DEF Line, Ends
  <2>. QED BY <2>5, <2>7, <2>8 DEF Line
<1>5. CASE prev' = p /\ Submitted(p + 1, upkt) /\ UNCHANGED <<state, out>>
  <2>1. upc' \in {"output", "finish"} /\ (upc' = "finish" => upkt # 0)
    BY <1>5 DEF Submitted
  <2>2. Latest' = p /\ (Submits' <=> Submits)
    BY <1>1, <1>5, <2>1 DEF Latest, Submits
  <2>3. Newest' = Newest /\ Held' = Held
    BY <1>1, <2>2 DEF Newest, Held
  <2>4. \A u \in Threads : /\ Undecided(u)' <=> Undecided(u)
                           /\ Active(u)' <=> Active(u)
    BY <1>1, <1>5 DEF Undecided, Active
  <2>5. Ring' /\ Room'
    <3>1. \A t \in Threads : Active(t)' => Rank(t) <= Rank(p)
      BY <1>1, <2>4 DEF Line, Room
    <3>2. avpkt'[p] = upkt
      BY <1>1 DEF Line, Ring
    <3>. QED BY <1>1, <1>5, <3>1, <3>2, SubmittedInRing
  <2>6. Outcomes' /\ Threaded' /\ Past' /\ Late' /\ Conserved' /\ Complete'
    <3>1. \A u \in Threads : state'[u] = "get_buffer" => pc'[u] = "answer"
      BY <1>1, <1>5 DEF Line, Outcomes
    <3>2. \A s \in Threads, n \in Nat : Decodes(s, n) => Decodes(s, n)'
      BY <1>1 DEF Decodes
    <3>4. \A u \in Threads : Len(ctx'[u].held) <= codec.delay
      BY <1>1, HeldStays
    <3>5. upc \in Calling
      BY <1>1 DEF Calling
    <3>. QED BY <1>1, <1>5, <2>3, <2>4, <3>1, <3>2, <3>4, <3>5, OrderIsKept
  <2>7. Ends'
    <3>1. EofComplete'
      BY <1>1 DEF Line, Ends, EofComplete, Given
    <3>. QED BY <1>1, <1>5, <2>1, <2>2, <2>3, <2>4, <3>1 DEF Line, Ends
  <2>. QED BY <2>5, <2>6, <2>7 DEF Line
<1>. QED BY <1>2, <1>3, <1>4, <1>5

LEMMA SubmitOrders ==
    ASSUME IInv, Line, Submit PROVE Line'
<1>. USE DEF locks, async, ptctx, serial, waits, worker, frames, user, hist, fctx
<1>0. PICK p \in Threads : p = nextDecoding
  BY DEF Submit, IInv, Types, UserTypes
<1>1. /\ upc = "prev" /\ p = nextDecoding /\ Latest = prev /\ fin = nextFinished /\ Submits
      /\ ret = Nothing /\ draining # "done"
      /\ ctx' = UpdateContext(p, prev)
      /\ UNCHANGED <<codec, nextFinished, out, then, progress, upkt, fin, draining, base, delivered>>
      /\ ThreadTypes /\ p # User
  BY <1>0, Numbers DEF Submit, IInv, Types, UserTypes, Latest, Line, Ring, Calling
<1>2. /\ ctx'[Newest].held = Held
      /\ \A u \in Threads : Len(ctx'[u].held) <= codec.delay
      /\ codec.update /\ prev # User => ctx'[p].held = Held
      /\ \A u \in Threads \ {p} : ctx'[u] = ctx[u]
  BY <1>1, CopyKeepsHeld
<1>3. CASE Fails /\ UNCHANGED <<fctx, avpkt, state, pc, sent>>
  <2>1. /\ \A u \in Threads : pc'[u] = pc[u]
        /\ upc' = "finish" /\ ret' = Error(0)
    BY <1>3 DEF Fails
  <2>. QED BY <1>1, <1>2, <1>3, <2>1, CallGoesOn
<1>4. CASE /\ avpkt' = [avpkt EXCEPT ![p] = upkt]
           /\ state' = [state EXCEPT ![p] = "setting_up"]
           /\ pc'    = Signalled(p)
           /\ sent'  = IF upkt = 0 THEN sent ELSE upkt
           /\ \/ upc' = "serve" /\ UNCHANGED <<prev, nextDecoding, delaying>>
              \/ prev' = p /\ Submitted(p + 1, upkt)
           /\ UNCHANGED <<nextFinished, ret>>
  <2>1. /\ avpkt'[p] = upkt /\ state'[p] = "setting_up"
        /\ \A u \in Threads \ {p} : avpkt'[u] = avpkt[u] /\ state'[u] = state[u] /\ pc'[u] = pc[u]
        /\ pc[p] \in {"wait", "woken"} /\ pc'[p] \in AtRest
    BY <1>1, <1>4 DEF ThreadTypes, Signalled, AtRest, IInv, Thread, Rests, UserHolds
  \* the thread was idle
  <2>2. /\ ~Active(p) /\ out[p] = Nothing /\ ~Undecided(p) /\ Item(p) = 0
        /\ \A u \in Threads : Active(u) => Rank(u) < Rank(p)
    <3>1. \A u \in Threads : Active(u) => Rank(u) < Rank(p)
      BY <1>1 DEF Line, Room
    <3>2. ~Active(p)
      BY <1>1, <3>1, Ranks
    <3>. QED BY <3>1, <3>2 DEF Active, Undecided, Item, Nothing
  <2>3. /\ Undecided(p)' /\ out'[p] = Nothing
        /\ \A u \in Threads \ {p} : (Undecided(u)' <=> Undecided(u)) /\ (Active(u)' <=> Active(u))
    BY <1>1, <1>4, <2>1, <2>2 DEF Undecided, Active
  <2>4. (\A x : Rank(x)' = Rank(x)) /\ \A u \in Threads : Rank(u) \in Int
    BY <1>1, Ranks DEF Rank
  <2>5. /\ \A u \in Threads \ {p} : Item(u)' = Item(u) /\ (Item(u) # 0 => Active(u))
        /\ \A u \in Threads : avpkt'[u] = upkt /\ u = p => Item(u)' = upkt
    BY <1>1, <2>1, <2>3 DEF Item, Undecided, Active, Nothing
  <2>6. Item(p)' = upkt
    BY <1>1, <2>1, <2>3 DEF Item
  <2>7. /\ sent \in Nat /\ base \in Nat /\ base <= sent /\ sent' \in Nat /\ sent <= sent'
        /\ upkt # 0 => upkt = sent + 1 /\ sent' = upkt
        /\ upkt = 0 => sent' = sent
    BY <1>1, <1>4, Numbers DEF IInv, Types, UserTypes
  <2>8. /\ Latest' = p /\ Newest' = p /\ upc' \in {"serve", "output", "finish"}
        /\ (upc' = "finish" => upkt # 0) /\ (Submits' <=> Submits)
    BY <1>1, <1>4, Numbers DEF Latest, Newest, Submitted, Submits
  <2>9. Held' = Held
    <3>1. CASE codec.update /\ prev # User
      BY <1>2, <2>8, <3>1 DEF Held
    <3>2. CASE prev = User
      <4>1. p = 0 /\ Newest = 0
        BY <1>1, <3>2 DEF Line, Ring, Newest
      <4>. QED BY <1>2, <2>8, <4>1 DEF Held
    <3>3. CASE ~codec.update
      <4>1. codec.delay = 0 /\ ctx' = ctx /\ Newest \in Threads
        BY <1>1, <3>3, CodecFields, HeldTypes DEF UpdateContext, IInv, Types, UserTypes
      <4>2. \A u \in Threads : ctx[u].held = <<>>
        <5>. SUFFICES ASSUME NEW u \in Threads PROVE ctx[u].held = <<>>
          OBVIOUS
        <5>1. ctx[u].held \in Seq(Packets) /\ Len(ctx[u].held) <= 0
          BY <1>1, <4>1 DEF ThreadTypes, Contexts, Line, Outcomes
        <5>. QED BY <5>1
      <4>. QED BY <1>1, <2>8, <4>1, <4>2 DEF Held
    <3>. QED BY <3>1, <3>2, <3>3
  <2>10. Ring' /\ Room'
    <3>1. \A t \in Threads : Active(t)' => Rank(t) <= Rank(p)
      BY <2>2, <2>3, <2>4
    <3>2. CASE prev' = p /\ Submitted(p + 1, upkt)
      BY <1>1, <1>4, <2>1, <3>1, <3>2, SubmittedInRing
    <3>3. CASE upc' = "serve" /\ UNCHANGED <<prev, nextDecoding, delaying>>
      <4>1. Ring'
        BY <1>1, <1>4, <2>1, <2>8, <3>3 DEF Line, Ring, Calling
      <4>2. ~Empty /\ ~Empty' /\ Limit' = Limit
        BY <1>1, <3>3 DEF Empty, Limit
      <4>3. Rank(p) <= Limit
        BY <1>1, <4>2 DEF Line, Room
      <4>. QED BY <1>1, <2>4, <2>8, <3>1, <3>3, <4>1, <4>2, <4>3 DEF Room
    <3>. QED BY <1>4, <3>2, <3>3
  <2>11. Outcomes'
    <3>1. \A u \in Threads : state'[u] = "get_buffer" => pc'[u] = "answer"
      BY <1>1, <2>1 DEF Line, Outcomes
    <3>2. \A u \in Threads : Item(u)' # 0 => base < Item(u)' /\ Item(u)' <= sent'
      <4>1. \A u \in Threads \ {p} : Item(u) # 0 => base < Item(u) /\ Item(u) <= sent /\ Item(u) \in Int
        <5>1. \A u \in Threads : Item(u) \in Int
          BY <1>1, Numbers, ResultFields DEF Item, ThreadTypes
        <5>. QED BY <5>1 DEF Line, Outcomes
      <4>2. upkt # 0 => base < upkt /\ upkt <= sent'
        BY <2>7
      <4>. QED BY <2>5, <2>6, <2>7, <4>1, <4>2
    <3>3. \A u \in Threads : /\ Undecided(u)' => out'[u] \in {Nothing, Error(0)}
                             /\ ~Undecided(u)' => out'[u] # Error(0)
      BY <1>1, <2>3 DEF Line, Outcomes
    <3>. QED BY <1>1, <1>2, <3>1, <3>2, <3>3 DEF Outcomes
  <2>12. Threaded'
    <3>. SUFFICES ASSUME NEW t \in Threads, NEW u \in Threads, Item(t)' # 0, Item(u)' # 0, t # u
                  PROVE  /\ Item(t)' # Item(u)'
                         /\ Rank(t) < Rank(u) /\ Alike(t, u)' => Item(t)' < Item(u)'
      BY <2>4 DEF Threaded
    <3>1. \A v \in Threads \ {p} : Item(v) # 0 =>
              Item(v) <= sent /\ Item(v) \in Int /\ Rank(v) < Rank(p)
      BY <1>1, <2>2, <2>5, Numbers, ResultFields DEF Item, ThreadTypes, Line, Outcomes
    <3>2. CASE t # p /\ u # p
      <4>1. Alike(t, u)' <=> Alike(t, u)
        BY <1>1, <2>3, <3>2 DEF Alike
      <4>. QED BY <2>5, <3>2, <4>1 DEF Line, Threaded
    <3>3. CASE u = p
      BY <2>5, <2>6, <2>7, <3>1, <3>3
    <3>4. CASE t = p
      <4>1. ~(Rank(t) < Rank(u))
        BY <2>4, <2>5, <3>1, <3>4
      <4>. QED BY <2>5, <2>6, <2>7, <3>1, <3>4, <4>1
    <3>. QED BY <3>2, <3>3, <3>4
  <2>13. Past'
    <3>1. \A i \in DOMAIN delivered : delivered[i].pkt \in Int /\ delivered[i].pkt <= sent
      BY ResultFields DEF Line, Past
    <3>2. \A i \in DOMAIN delivered, t \in Threads : Precedes(delivered[i], t)'
      <4>. SUFFICES ASSUME NEW i \in DOMAIN delivered, NEW t \in Threads
                    PROVE  Precedes(delivered[i], t)'
        BY <1>1
      <4>1. CASE t = p
        BY <1>1, <2>6, <2>7, <3>1, <4>1 DEF Precedes
      <4>2. CASE t # p
        BY <1>1, <2>3, <2>5, <4>2 DEF Line, Past, Precedes
      <4>. QED BY <4>1, <4>2
    <3>3. ret'.pkt = 0
      BY <1>1, <1>4 DEF Nothing
    <3>4. \A i \in DOMAIN delivered : base < delivered[i].pkt /\ delivered[i].pkt <= sent'
      BY <2>7, <3>1 DEF Line, Past
    <3>5. \A i, j \in DOMAIN delivered : i < j => Follows(i, delivered[j])'
      BY <1>1 DEF Line, Past, Follows
    <3>6. \A t \in Threads : Precedes(ret, t)'
      BY <3>3 DEF Precedes
    <3>. QED BY <1>1, <3>2, <3>3, <3>4, <3>5, <3>6 DEF Line, Past
  <2>14. Late'
    <3>1. \A k \in DOMAIN Held : Held[k] \in Int /\ base < Held[k] /\ Held[k] <= sent /\ Held[k] # 0
      BY HeldTypes, Numbers DEF Line, Late, Packets
    <3>2. \A k \in DOMAIN Held : Held[k] <= sent'
      BY <2>7, <3>1
    <3>3. \A i \in DOMAIN delivered, k \in DOMAIN Held : IsBefore(delivered[i], k)'
      BY <1>1, <2>9 DEF Line, Late, IsBefore
    <3>4. \A k \in DOMAIN Held : IsBefore(ret, k)'
      BY <1>4, <2>9 DEF Line, Late, IsBefore
    <3>5. \A t \in Threads, k \in DOMAIN Held : IsBefore(out[t], k)'
      BY <1>1, <2>9 DEF Line, Late, IsBefore
    <3>6. \A t \in Threads, k \in DOMAIN Held : Undecided(t)' /\ avpkt'[t] # 0 => Held[k] < avpkt'[t]
      <4>1. \A t \in Threads \ {p}, k \in DOMAIN Held : Undecided(t)' /\ avpkt'[t] # 0 => Held[k] < avpkt'[t]
        BY <2>1, <2>3 DEF Line, Late
      <4>2. upkt # 0 => \A k \in DOMAIN Held : Held[k] < upkt
        BY <2>7, <3>1
      <4>. QED BY <2>1, <4>1, <4>2
    <3>7. \A j, k \in DOMAIN Held : j < k => Held[j] < Held[k]
      BY DEF Line, Late
    <3>. QED BY <1>1, <2>9, <3>1, <3>2, <3>3, <3>4, <3>5, <3>6, <3>7 DEF Late
  <2>15. Conserved'
    <3>. SUFFICES ASSUME NEW n \in base + 1 .. sent', n \notin Given
                  PROVE  \/ \E k \in DOMAIN Held : Held[k] = n
                         \/ \E t \in Threads : Item(t)' = n
      BY <1>1, <2>9 DEF Conserved, Given
    <3>1. CASE n = upkt
      BY <1>1, <2>6, <3>1
    <3>2. CASE n # upkt
      <4>1. n \in base + 1 .. sent /\ n # 0
        BY <2>7, <3>2
      <4>2. upc \in Calling
        BY <1>1 DEF Calling
      <4>3. (\E k \in DOMAIN Held : Held[k] = n) \/ \E t \in Threads : Item(t) = n
        BY <1>1, <4>1, <4>2 DEF Line, Conserved, Nothing
      <4>. QED BY <2>2, <2>5, <4>1, <4>3
    <3>. QED BY <3>1, <3>2
  <2>16. Ends'
    <3>1. EofComplete'
      BY <1>1 DEF EofComplete
    <3>2. Undecided(Latest)'
      BY <1>1, <1>4, <2>3, <2>8 DEF Undecided
    <3>. QED BY <1>1, <2>8, <3>1, <3>2 DEF Ends
  <2>17. Complete'
    <3>1. \A s \in Threads, n \in Nat : Decodes(s, n) => Decodes(s, n)'
      <4>1. \A n : ~Decodes(p, n)
        BY <2>1 DEF Decodes, Finishing
      <4>2. \A s \in Threads \ {p}, n \in Nat : Decodes(s, n) => Decodes(s, n)'
        BY <1>1, <2>1 DEF Decodes
      <4>. QED BY <4>1, <4>2
    <3>2. \A t \in Threads : out[t].kind = "frame" =>
            out[t].pkt \in progress \/ \E s \in Threads : Decodes(s, out[t].pkt)' /\ Rank(s) <= Rank(t)
      <4>. SUFFICES ASSUME NEW t \in Threads, out[t].kind = "frame"
                    PROVE  out[t].pkt \in progress
                           \/ \E s \in Threads : Decodes(s, out[t].pkt)' /\ Rank(s) <= Rank(t)
        OBVIOUS
      <4>1. out[t].pkt \in Nat
        BY <1>1, ResultFields DEF ThreadTypes
      <4>2. out[t].pkt \in progress \/ \E s \in Threads : Decodes(s, out[t].pkt) /\ Rank(s) <= Rank(t)
        BY DEF Line, Complete
      <4>. QED BY <1>1, <3>1, <4>1, <4>2
    <3>3. \A k \in DOMAIN Held : Held[k] \in progress \/ \E s \in Threads : Decodes(s, Held[k])'
      <4>. SUFFICES ASSUME NEW k \in DOMAIN Held
                    PROVE  Held[k] \in progress \/ \E s \in Threads : Decodes(s, Held[k])'
        OBVIOUS
      <4>1. Held[k] \in Nat
        BY HeldTypes
      <4>2. Held[k] \in progress \/ \E s \in Threads : Decodes(s, Held[k])
        BY DEF Line, Complete
      <4>. QED BY <2>9, <3>1, <4>1, <4>2
    <3>4. \A i \in Indices("frame")' : delivered'[i].pkt \in progress'
      BY <1>1 DEF Line, Complete, Indices
    <3>5. ret'.kind = "frame" => ret'.pkt \in progress'
      BY <1>1, <1>4 DEF Line, Complete
    <3>. QED BY <1>1, <2>4, <2>9, <3>2, <3>3, <3>4, <3>5 DEF Complete, Decodes
  <2>. QED BY <2>10, <2>11, <2>12, <2>13, <2>14, <2>15, <2>16, <2>17 DEF Line
<1>5. \/ Fails /\ UNCHANGED <<fctx, avpkt, state, pc, sent>>
      \/ /\ avpkt' = [avpkt EXCEPT ![p] = upkt]
         /\ state' = [state EXCEPT ![p] = "setting_up"]
         /\ pc'    = Signalled(p)
         /\ sent'  = IF upkt = 0 THEN sent ELSE upkt
         /\ \/ upc' = "serve" /\ UNCHANGED <<prev, nextDecoding, delaying>>
            \/ prev' = p /\ Submitted(p + 1, upkt)
         /\ UNCHANGED <<nextFinished, ret>>
  BY <1>0 DEF Submit
<1>. QED BY <1>3, <1>4, <1>5

\* An item is held by an active thread.
LEMMA ItemsAreActive ==
    ASSUME NEW t \in Threads
    PROVE  /\ Item(t) # 0 => Active(t)
           /\ \A n : Decodes(t, n) /\ Thread(t) => state[t] # "input_ready" /\ Active(t)
BY DEF Item, Active, Undecided, Nothing, Decodes, Thread, Rests, AtRest, Finishing

\* When a thread's output has been taken the ranks start with the next.
LEMMA Reranked ==
    ASSUME IInv, NEW f \in Threads, nextFinished' = After(f)
    PROVE  \A t \in Threads : Rank(t)' = IF Rank(t) > Rank(f) THEN Rank(t) - Rank(f) - 1
                                         ELSE Rank(t) - Rank(f) - 1 + NThreads
<1>. SUFFICES ASSUME NEW t \in Threads
              PROVE  Rank(t)' = IF Rank(t) > Rank(f) THEN Rank(t) - Rank(f) - 1
                                ELSE Rank(t) - Rank(f) - 1 + NThreads
  OBVIOUS
<1>1. /\ NThreads \in Nat /\ NThreads > 1
      /\ t \in Int /\ 0 <= t /\ t <= NThreads - 1
      /\ f \in Int /\ 0 <= f /\ f <= NThreads - 1
      /\ nextFinished \in Int /\ 0 <= nextFinished /\ nextFinished <= NThreads - 1
  BY Numbers DEF Threads, IInv, Types, UserTypes
<1>2. /\ Rank(t) = IF t >= nextFinished THEN t - nextFinished ELSE t - nextFinished + NThreads
      /\ Rank(f) = IF f >= nextFinished THEN f - nextFinished ELSE f - nextFinished + NThreads
  BY DEF Rank
<1>3. CASE f = NThreads - 1
  <2>1. nextFinished' = 0
    BY <1>3 DEF After
  <2>2. Rank(t)' = t
    BY <1>1, <2>1 DEF Rank
  <2>. QED BY ONLY <1>1, <1>2, <1>3, <2>2
<1>4. CASE f # NThreads - 1
  <2>1. nextFinished' = f + 1
    BY <1>4 DEF After
  <2>2. Rank(t)' = IF t >= f + 1 THEN t - (f + 1) ELSE t - (f + 1) + NThreads
    BY <2>1 DEF Rank
  <2>. QED BY ONLY <1>1, <1>2, <1>4, <2>2
<1>. QED BY <1>3, <1>4

\* The search goes on, if the thread has no output.
LEMMA SearchGoesOn ==
    ASSUME IInv, Line, NEW f \in Threads, f = fin, upc = "output", state[f] = "input_ready",
           out[f] = Nothing, upkt = 0, fin' = After(f), After(f) # nextFinished,
           UNCHANGED <<codec, fctx, state, pc, then, avpkt, out, ctx, progress, upc, upkt, ret,
                       draining, hist>>
    PROVE  Line'
<1>. USE DEF fctx, hist
<1>1. /\ Latest' = Latest /\ Newest' = Newest /\ Held' = Held
      /\ Submits' <=> Submits
      /\ Limit' = Limit
      /\ Empty' <=> Empty
  BY DEF Latest, Newest, Held, Submits, Limit, Empty
<1>2. \A u \in Threads : /\ Undecided(u)' <=> Undecided(u)
                         /\ Active(u)' <=> Active(u)
  BY DEF Undecided, Active
<1>3. \A x : Rank(x)' = Rank(x)
  BY DEF Rank
<1>4. Outcomes' /\ Threaded' /\ Past' /\ Late' /\ Conserved' /\ Complete'
  <2>1. \A u \in Threads : state'[u] = "get_buffer" => pc'[u] = "answer"
    BY DEF Line, Outcomes
  <2>2. \A s \in Threads, n \in Nat : Decodes(s, n) => Decodes(s, n)'
    BY DEF Decodes
  <2>. QED BY <1>1, <1>2, <2>1, <2>2, HeldStays, OrderIsKept
<1>5. Ring' /\ Ends'
  <2>1. Ring'
    BY <1>1 DEF Line, Ring
  <2>2. EofComplete'
    BY DEF Line, Ends, EofComplete, Given
  <2>3. Submits => Latest \in Threads
    BY DEF Line, Ring, IInv, Types, UserTypes, Latest, Calling
  <2>. QED BY <1>1, <1>2, <2>1, <2>2, <2>3 DEF Line, Ends
<1>6. Room'
  <2>1. \A t \in Threads : Rank(t) < Rank(After(f)) => ~Active(t)
    <3>. SUFFICES ASSUME NEW t \in Threads, Rank(t) < Rank(After(f)) PROVE ~Active(t)
      OBVIOUS
    <3>1. /\ After(f) \in Threads
          /\ Rank(After(f)) = IF Rank(f) = NThreads - 1 THEN 0 ELSE Rank(f) + 1
      BY RankAfter
    <3>2. Rank(t) \in Int /\ Rank(f) \in Int /\ 0 <= Rank(t) /\ (Rank(t) = Rank(f) => t = f)
      BY Ranks
    <3>3. Rank(t) < Rank(f) \/ t = f
      BY <3>1, <3>2
    <3>4. ~Active(f)
      BY DEF Active
    <3>. QED BY <3>3, <3>4 DEF Line, Room
  <2>. QED BY <1>1, <1>2, <1>3, <2>1 DEF Line, Room
<1>. QED BY <1>4, <1>5, <1>6 DEF Line

\* Or its output is what the call returns.
LEMMA SearchEnds ==
    ASSUME IInv, Line, NEW f \in Threads, f = fin, upc = "output", state[f] = "input_ready",
           ~(upkt = 0 /\ out[f] = Nothing /\ After(f) # nextFinished),
           ret' = out[f], fin' = After(f), nextFinished' = After(f),
           nextDecoding' = nextDecoding % NThreads, upc' = "finish",
           out' = [out EXCEPT ![f] = Nothing],
           UNCHANGED <<codec, prev, delaying, state, pc, then, avpkt, ctx, progress, upkt,
                       draining, hist>>
    PROVE  Line'
<1>. USE DEF hist
<1>1. /\ UNCHANGED <<Latest, Newest, Held, Limit>>
      /\ Submits' <=> Submits
      /\ Latest = prev
  BY DEF Latest, Newest, Held, Limit, Submits
<1>2. /\ out'[f] = Nothing /\ \A u \in Threads \ {f} : out'[u] = out[u]
      /\ \A u \in Threads : Undecided(u)' <=> Undecided(u)
      /\ ~Undecided(f) /\ ~Active(f)'
      /\ \A u \in Threads \ {f} : Active(u)' <=> Active(u)
      /\ \A u \in Threads \ {f} : Item(u)' = Item(u)
      /\ Item(f) = out[f].pkt /\ Item(f)' = 0
  <2>1. out'[f] = Nothing /\ \A u \in Threads \ {f} : out'[u] = out[u]
    BY DEF IInv, Types, ThreadTypes
  <2>2. \A u \in Threads : Undecided(u)' <=> Undecided(u)
    BY DEF Undecided
  <2>. QED BY <2>1, <2>2 DEF Undecided, Active, Item, Nothing
<1>3. /\ ret = Nothing /\ draining # "done"
      /\ (upkt = 0 <=> draining = "yes")
      /\ upkt # 0 => f = nextFinished /\ ~delaying
      /\ Submits => prev # User /\ avpkt[prev] = upkt
  BY <1>1 DEF Line, Ring, Calling
<1>4. \A t \in Threads : /\ Rank(t) \in Int /\ 0 <= Rank(t) /\ Rank(t) <= NThreads - 1
                         /\ Rank(t)' = IF Rank(t) > Rank(f) THEN Rank(t) - Rank(f) - 1
                                       ELSE Rank(t) - Rank(f) - 1 + NThreads
  BY Ranks, Reranked
\* the threads that are still active come after this one
<1>5. \A t \in Threads \ {f} : Active(t) => Rank(f) < Rank(t) /\ Rank(t)' = Rank(t) - Rank(f) - 1
  <2>. SUFFICES ASSUME NEW t \in Threads \ {f}, Active(t) PROVE Rank(f) < Rank(t)
    BY <1>4
  <2>1. ~(Rank(t) < Rank(f))
    BY DEF Line, Room
  <2>2. Rank(t) # Rank(f)
    BY Ranks
  <2>. QED BY <1>4, <2>1, <2>2
<1>6. \A t, u \in Threads : Active(t)' /\ Active(u)' =>
          /\ Rank(t)' < Rank(u)' <=> Rank(t) < Rank(u)
          /\ Rank(t)' <= Rank(u)' <=> Rank(t) <= Rank(u)
  BY <1>2, <1>4, <1>5
<1>7. \A u \in Threads : Item(u)' # 0 => u # f /\ Active(u)' /\ Item(u)' = Item(u)
  BY <1>2, ItemsAreActive
<1>8. prev # User => nextDecoding' = After(prev)
  <2>. SUFFICES ASSUME prev # User PROVE nextDecoding' = After(prev)
    OBVIOUS
  <2>1. prev \in Threads /\ 0 \in Threads /\ prev \in Int
    BY Numbers DEF IInv, Types, UserTypes
  <2>2. (prev + 1) % NThreads = After(prev) /\ 0 % NThreads = 0
    BY <2>1, Wraps
  <2>. QED BY <2>1, <2>2 DEF Line, Ring, After
<1>9. Ring'
  <2>1. prev = User => nextDecoding' = 0
    <3>1. 0 % NThreads = 0
      BY Numbers, Wraps
    <3>. QED BY <3>1 DEF Line, Ring
  <2>3. delaying /\ draining = "no" => upkt # 0
    BY <1>3
  <2>4. prev # User => nextDecoding' = prev + 1 \/ (prev = NThreads - 1 /\ nextDecoding' = 0)
    BY <1>8 DEF After
  <2>. QED BY <1>1, <1>3, <2>1, <2>3, <2>4 DEF Ring, Calling
<1>10. Room'
  <2>1. \A t \in Threads : Active(t)' => t # f /\ Active(t)
    BY <1>2
  <2>2. \A t \in Threads : Active(t)' => Latest \in Threads /\ Rank(t) <= Rank(Latest) /\ Rank(f) < Rank(Latest)
    <3>. SUFFICES ASSUME NEW t \in Threads, Active(t)'
                  PROVE  Latest \in Threads /\ Rank(t) <= Rank(Latest) /\ Rank(f) < Rank(Latest)
      OBVIOUS
    <3>1. Latest \in Threads /\ Rank(t) <= Rank(Latest)
      BY <1>1, <2>1 DEF Line, Room, IInv, Types, UserTypes
    <3>2. Rank(f) < Rank(t)
      BY <1>5, <2>1
    <3>. QED BY <1>4, <3>1, <3>2
  <2>3. \A t \in Threads : Active(t)' => Latest' # User /\ Rank(t)' <= Rank(Latest)'
    <3>. SUFFICES ASSUME NEW t \in Threads, Active(t)'
                  PROVE  Latest' # User /\ Rank(t)' <= Rank(Latest)'
      OBVIOUS
    <3>1. /\ Latest \in Threads /\ Latest # User /\ Latest' = Latest
          /\ Rank(t) <= Rank(Latest) /\ Rank(f) < Rank(Latest)
      BY <1>1, <2>2, Numbers
    <3>2. Rank(Latest)' = Rank(Latest) - Rank(f) - 1 /\ Rank(t)' = Rank(t) - Rank(f) - 1
      <4>1. PICK l \in Threads : l = Latest
        BY <3>1
      <4>2. Rank(l)' = Rank(l) - Rank(f) - 1
        BY <1>4, <3>1, <4>1
      <4>. QED BY <1>5, <2>1, <3>1, <4>1, <4>2
    <3>. QED BY <1>4, <3>1, <3>2
  \* the next thread is the one after the latest
  <2>4. prev # User => /\ prev \in Threads /\ nextDecoding' = After(prev) /\ After(prev) \in Threads
                       /\ Rank(After(prev)) = IF Rank(prev) = NThreads - 1 THEN 0 ELSE Rank(prev) + 1
    <3>. SUFFICES ASSUME prev # User
                  PROVE  /\ prev \in Threads /\ nextDecoding' = After(prev) /\ After(prev) \in Threads
                         /\ Rank(After(prev)) = IF Rank(prev) = NThreads - 1 THEN 0 ELSE Rank(prev) + 1
      OBVIOUS
    <3>1. prev \in Threads
      BY DEF IInv, Types, UserTypes
    <3>2. nextDecoding' = After(prev)
      BY <1>8
    <3>. QED BY <3>1, <3>2, RankAfter
  <2>5. prev # User => Rank(nextDecoding)' =
           IF Rank(prev) = NThreads - 1 THEN NThreads - 1 - Rank(f)
           ELSE IF Rank(prev) + 1 > Rank(f) THEN Rank(prev) - Rank(f)
           ELSE Rank(prev) - Rank(f) + NThreads
    <3>. SUFFICES ASSUME prev # User
                  PROVE  Rank(nextDecoding)' =
                            IF Rank(prev) = NThreads - 1 THEN NThreads - 1 - Rank(f)
                            ELSE IF Rank(prev) + 1 > Rank(f) THEN Rank(prev) - Rank(f)
                            ELSE Rank(prev) - Rank(f) + NThreads
      OBVIOUS
    <3>1. PICK a \in Threads : a = After(prev)
      BY <2>4
    <3>2. Rank(nextDecoding)' = Rank(a)'
      BY <2>4, <3>1 DEF Rank
    <3>3. /\ Rank(a)' = IF Rank(a) > Rank(f) THEN Rank(a) - Rank(f) - 1
                        ELSE Rank(a) - Rank(f) - 1 + NThreads
          /\ Rank(a) = IF Rank(prev) = NThreads - 1 THEN 0 ELSE Rank(prev) + 1
          /\ Rank(prev) \in Int /\ Rank(f) \in Int /\ 0 <= Rank(f) /\ NThreads \in Nat
      BY <1>4, <2>4, <3>1, Numbers
    <3>. QED BY ONLY <3>2, <3>3
  <2>6. \A t \in Threads : Active(t)' => Rank(t)' < Rank(nextDecoding)'
    <3>. SUFFICES ASSUME NEW t \in Threads, Active(t)' PROVE Rank(t)' < Rank(nextDecoding)'
      OBVIOUS
    <3>1. /\ prev \in Threads /\ prev # User /\ Rank(t) <= Rank(prev) /\ Rank(f) < Rank(prev)
          /\ Rank(t)' = Rank(t) - Rank(f) - 1
      BY <1>1, <1>5, <2>1, <2>2, Numbers
    <3>2. /\ Rank(prev) \in Int /\ Rank(f) \in Int /\ Rank(t) \in Int /\ NThreads \in Nat
          /\ Rank(prev) <= NThreads - 1
      BY <1>4, <3>1, Numbers
    <3>. QED BY ONLY <2>5, <3>1, <3>2
  <2>7. Empty' => \A t \in Threads : ~Active(t)'
    <3>. SUFFICES ASSUME Empty', NEW t \in Threads, Active(t)' PROVE FALSE
      OBVIOUS
    <3>1. upkt = 0 /\ out[f] = Nothing
      BY <1>3 DEF Empty
    <3>2. After(f) = nextFinished
      BY <3>1
    <3>3. Rank(f) = NThreads - 1
      BY <1>4, <3>2, RankAfter, Ranks, Numbers
    <3>. QED BY <1>4, <1>5, <2>1, <3>3
  <2>8. ~Empty' => Rank(nextDecoding)' <= Limit'
    <3>. SUFFICES ASSUME upkt # 0 \/ out[f] # Nothing PROVE Rank(nextDecoding)' <= Limit
      BY <1>1 DEF Empty
    <3>1. Limit \in Int /\ Limit <= NThreads - 1 /\ NThreads \in Nat
      BY Numbers DEF Limit
    <3>2. CASE Submits
      <4>1. prev # User /\ Rank(prev) <= Limit /\ prev \in Threads
        BY <1>1, <1>3, <2>4, <3>2 DEF Line, Room
      <4>2. upkt # 0 => Rank(f) = 0
        BY <1>3, Ranks
      <4>3. out[f] # Nothing => Rank(f) <= Rank(prev)
        BY <1>1 DEF Line, Room, Active
      <4>4. Rank(f) <= Rank(prev) /\ Rank(prev) \in Int /\ Rank(f) \in Int /\ 0 <= Rank(f)
        BY <1>4, <4>1, <4>2, <4>3
      <4>. QED BY ONLY <2>5, <3>1, <4>1, <4>4
    <3>3. CASE ~Submits
      <4>1. upkt = 0 /\ Active(f)
        BY <3>3 DEF Submits, Active
      <4>2. Rank(f) < Rank(nextDecoding)
        BY <3>3, <4>1 DEF Line, Room
      <4>3. Rank(nextDecoding) <= Limit
        BY <1>3, <3>3 DEF Line, Room, Empty
      <4>4. nextDecoding' \in Threads /\ Rank(nextDecoding') = Rank(nextDecoding)
        <5>1. nextDecoding \in 0..NThreads /\ nextFinished \in Threads
          BY DEF IInv, Types, UserTypes
        <5>2. CASE nextDecoding = NThreads
          <6>1. nextDecoding' = 0
            BY <5>2, Wraps, Numbers
          <6>2. nextFinished # 0
            BY <3>1, <4>3, <5>1, <5>2 DEF Rank, Threads
          <6>. QED BY <3>1, <5>1, <5>2, <6>1, <6>2, Numbers DEF Rank, Threads
        <5>3. CASE nextDecoding # NThreads
          <6>1. nextDecoding \in Threads
            BY <5>1, <5>3, Numbers DEF Threads
          <6>2. nextDecoding' = nextDecoding
            BY <6>1, Wraps
          <6>. QED BY <6>1, <6>2
        <5>. QED BY <5>2, <5>3
      <4>5. PICK a \in Threads : a = nextDecoding' /\ Rank(a) = Rank(nextDecoding)
        BY <4>4
      <4>6. Rank(nextDecoding)' = Rank(a)'
        BY <4>5 DEF Rank
      <4>7. Rank(a)' = Rank(a) - Rank(f) - 1 /\ Rank(a) \in Int /\ Rank(f) \in Int /\ 0 <= Rank(f)
        BY <1>4, <4>2, <4>5
      <4>. QED BY ONLY <3>1, <4>3, <4>5, <4>6, <4>7
    <3>. QED BY <3>2, <3>3
  <2>. QED BY <2>3, <2>6, <2>7, <2>8 DEF Room
<1>11. Outcomes'
  <2>1. \A u \in Threads : out'[u] # Error(0) \/ Undecided(u)
    BY <1>2 DEF Line, Outcomes, Nothing, Error
  <2>. QED BY <1>2, <1>7, <2>1 DEF Line, Outcomes
<1>12. Threaded'
  <2>1. \A t, u \in Threads \ {f} : Alike(t, u)' <=> Alike(t, u)
    BY <1>2 DEF Alike
  <2>. QED BY <1>6, <1>7, <2>1 DEF Line, Threaded
<1>13. Past'
  <2>1. \A i \in DOMAIN delivered, t \in Threads : Precedes(delivered[i], t)'
    <3>. SUFFICES ASSUME NEW i \in DOMAIN delivered, NEW t \in Threads
                  PROVE  Precedes(delivered[i], t)'
      OBVIOUS
    <3>1. CASE t = f
      BY <1>2, <3>1 DEF Precedes
    <3>2. CASE t # f
      BY <1>2, <3>2 DEF Line, Past, Precedes
    <3>. QED BY <3>1, <3>2
  <2>2. \A t \in Threads : Precedes(ret, t)'
    <3>. SUFFICES ASSUME NEW t \in Threads, out[f].pkt # 0, Item(t)' # 0
                  PROVE  /\ Item(t)' # out[f].pkt
                         /\ Undecided(t)' \/ out'[t].kind = out[f].kind => out[f].pkt < Item(t)'
      BY DEF Precedes
    <3>1. t # f /\ Active(t) /\ Item(t)' = Item(t) /\ Rank(f) < Rank(t)
      BY <1>2, <1>5, <1>7
    <3>2. Item(f) # 0 /\ Item(t) # Item(f) /\ (Alike(f, t) => Item(f) < Item(t))
      BY <1>2, <3>1 DEF Line, Threaded
    <3>. QED BY <1>2, <3>1, <3>2 DEF Alike
  <2>3. ret'.pkt # 0 => \A i \in DOMAIN delivered : Follows(i, ret)'
    <3>. SUFFICES ASSUME out[f].pkt # 0, NEW i \in DOMAIN delivered PROVE Follows(i, out[f])
      BY DEF Follows
    <3>1. delivered[i].pkt # 0
      <4>1. base < delivered[i].pkt /\ base \in Nat
        BY Numbers DEF Line, Past, IInv, Types, UserTypes
      <4>. QED BY <4>1
    <3>2. Precedes(delivered[i], f)
      BY DEF Line, Past
    <3>. QED BY <1>2, <3>1, <3>2 DEF Precedes, Follows
  <2>4. ret'.pkt # 0 => base < ret'.pkt /\ ret'.pkt <= sent
    BY <1>2 DEF Line, Outcomes
  <2>5. \A i, j \in DOMAIN delivered : i < j => Follows(i, delivered[j])'
    BY DEF Line, Past, Follows
  <2>. QED BY <2>1, <2>2, <2>3, <2>4, <2>5 DEF Line, Past
<1>14. Late'
  <2>1. \A i \in DOMAIN delivered, k \in DOMAIN Held : IsBefore(delivered[i], k)'
    BY <1>1 DEF Line, Late, IsBefore
  <2>2. \A k \in DOMAIN Held : IsBefore(ret, k)'
    BY <1>1 DEF Line, Late, IsBefore
  <2>3. \A t \in Threads \ {f}, k \in DOMAIN Held : IsBefore(out[t], k)'
    BY <1>1, <1>2 DEF Line, Late, IsBefore
  <2>4. \A k \in DOMAIN Held : IsBefore(out[f], k)'
    <3>1. \A k \in DOMAIN Held : Held[k] # 0
      BY HeldTypes, Numbers DEF Packets
    <3>. QED BY <1>1, <1>2, <3>1 DEF IsBefore, Nothing
  <2>5. \A t \in Threads, k \in DOMAIN Held : IsBefore(out[t], k)'
    BY <2>3, <2>4
  <2>. QED BY <1>1, <1>2, <2>1, <2>2, <2>5 DEF Line, Late
<1>15. Conserved'
  <2>. SUFFICES ASSUME NEW n \in base + 1 .. sent, n \notin Given, out[f].pkt # n
                PROVE  \/ \E k \in DOMAIN Held : Held[k] = n
                       \/ \E t \in Threads : Item(t)' = n
    BY <1>1 DEF Conserved, Given
  <2>1. n # 0
    BY Numbers DEF IInv, Types, UserTypes
  <2>2. (\E k \in DOMAIN Held : Held[k] = n) \/ \E t \in Threads : Item(t) = n
    BY <1>3, <2>1 DEF Line, Conserved, Calling, Nothing
  <2>. QED BY <1>2, <2>2
<1>16. Ends'
  <2>1. EofComplete'
    BY DEF Line, Ends, EofComplete, Given
  <2>2. ASSUME upkt = 0, out[f] = Nothing PROVE Held = <<>>
    <3>1. \A t \in Threads : ~Active(t)
      <4>1. Empty'
        BY <2>2 DEF Empty
      <4>2. \A t \in Threads : ~Active(t)'
        BY <1>10, <4>1 DEF Room
      <4>. QED BY <1>2, <2>2, <4>2 DEF Active
    <3>2. CASE Submits
      <4>1. Latest \in Threads
        BY <1>1, <1>3, <3>2 DEF IInv, Types, UserTypes
      <4>2. ~Undecided(Latest) /\ out[Latest] = Nothing
        BY <3>1, <4>1 DEF Active, Undecided
      <4>. QED BY <2>2, <3>2, <4>2 DEF Line, Ends
    <3>3. CASE ~Submits
      <4>1. codec.delay = 0
        BY <2>2, <3>3, CodecFields DEF Submits, IInv, Types, UserTypes
      <4>2. Held \in Seq(Packets) /\ Len(Held) <= 0
        BY <4>1, HeldTypes DEF Held, Line, Outcomes
      <4>. QED BY <4>2
    <3>. QED BY <3>2, <3>3
  <2>. QED BY <1>1, <2>1, <2>2 DEF Ends
<1>17. Complete'
  <2>1. \A s \in Threads, n \in Nat : Decodes(s, n) =>
           /\ s # f /\ Active(s) /\ avpkt[s] = n
           /\ pc[s] = "slices" \/ (pc[s] \in Finishing /\ then[s] = "slices")
    BY ItemsAreActive DEF IInv, Decodes
  <2>2. ret'.kind = "frame" => ret'.pkt \in progress'
    <3>. SUFFICES ASSUME out[f].kind = "frame" PROVE out[f].pkt \in progress
      OBVIOUS
    <3>1. out[f].pkt \in Nat
      BY ResultFields DEF IInv, Types, ThreadTypes
    <3>2. ASSUME NEW s \in Threads, Decodes(s, out[f].pkt) PROVE ~(Rank(s) <= Rank(f))
      <4>1. s # f /\ Active(s)
        BY <2>1, <3>1, <3>2
      <4>. QED BY <1>4, <1>5, <4>1
    <3>. QED BY <3>2 DEF Line, Complete
  <2>3. \A t \in Threads \ {f} : out[t].kind = "frame" =>
          out[t].pkt \in progress \/ \E s \in Threads : Decodes(s, out[t].pkt)' /\ Rank(s)' <= Rank(t)'
    <3>. SUFFICES ASSUME NEW t \in Threads \ {f}, out[t].kind = "frame", out[t].pkt \notin progress
                  PROVE  \E s \in Threads : Decodes(s, out[t].pkt)' /\ Rank(s)' <= Rank(t)'
      OBVIOUS
    <3>1. out[t].pkt \in Nat
      BY ResultFields DEF IInv, Types, ThreadTypes
    <3>2. PICK s \in Threads : Decodes(s, out[t].pkt) /\ Rank(s) <= Rank(t)
      BY DEF Line, Complete
    <3>3. s # f /\ Active(s)'
      BY <1>2, <2>1, <3>1, <3>2
    <3>4. Active(t)'
      BY <1>2 DEF Active, Nothing
    <3>5. Rank(s)' <= Rank(t)'
      BY <1>6, <3>2, <3>3, <3>4
    <3>6. Decodes(s, out[t].pkt)'
      BY <1>2, <3>2 DEF Decodes
    <3>. QED BY <3>5, <3>6
  <2>4. \A k \in DOMAIN Held : Held[k] \in progress \/ \E s \in Threads : Decodes(s, Held[k])'
    BY <1>1 DEF Line, Complete, Decodes
  <2>5. \A i \in Indices("frame")' : delivered'[i].pkt \in progress'
    BY DEF Line, Complete, Indices
  <2>6. out'[f].kind # "frame"
    BY <1>2 DEF Nothing
  <2>. QED BY <1>1, <1>2, <2>2, <2>3, <2>4, <2>5, <2>6 DEF Complete, Decodes
<1>. QED BY <1>9, <1>10, <1>11, <1>12, <1>13, <1>14, <1>15, <1>16, <1>17 DEF Line

LEMMA TakeOutputOrders ==
    ASSUME IInv, Line, TakeOutput PROVE Line'
<1>. USE DEF locks, async, ptctx, serial, waits, worker, frames, user, hist, fctx
<1>1. PICK f \in Threads : f = fin
  BY DEF TakeOutput, IInv, Types, UserTypes, Calling
<1>2. (fin + 1) % NThreads = After(f)
  BY <1>1, Wraps
<1>3. /\ upc = "output" /\ state[f] = "input_ready" /\ ret' = out[f] /\ fin' = After(f)
      /\ out' = [out EXCEPT ![f] = Nothing]
      /\ UNCHANGED <<codec, prev, delaying, state, pc, then, avpkt, ctx, progress, upkt,
                     draining, hist>>
  BY <1>1, <1>2 DEF TakeOutput, HasOutput, Reset
<1>4. CASE upkt = 0 /\ out[f] = Nothing /\ After(f) # nextFinished
  <2>1. UNCHANGED <<nextDecoding, nextFinished, upc>>
    BY <1>1, <1>2, <1>4 DEF TakeOutput, Searching
  <2>2. out' = out
    BY <1>3, <1>4 DEF IInv, Types, ThreadTypes
  <2>3. ret' = ret
    BY <1>3, <1>4 DEF Line, Ring, Calling
  <2>. QED BY <1>1, <1>3, <1>4, <2>1, <2>2, <2>3, SearchGoesOn
<1>5. CASE ~(upkt = 0 /\ out[f] = Nothing /\ After(f) # nextFinished)
  <2>1. nextDecoding' = nextDecoding % NThreads /\ nextFinished' = After(f) /\ upc' = "finish"
    BY <1>1, <1>2, <1>5 DEF TakeOutput, Searching, Wrapped
  <2>. QED BY <1>1, <1>3, <1>5, <2>1, SearchEnds
<1>. QED BY <1>4, <1>5

LEMMA ReturnOrders ==
    ASSUME IInv, Line, Return PROVE Line'
<1>. USE DEF locks, async, ptctx, serial, waits, worker, frames, user, hist, fctx
<1>1. /\ UNCHANGED <<codec, fctx, state, pc, then, avpkt, out, ctx, progress, sent, base>>
      /\ upc = "finish" /\ draining # "done"
      /\ (upkt = 0 <=> draining = "yes")
  BY DEF Return, Line, Ring, Calling
<1>2. CASE UNCHANGED <<upc, upkt, fin, ret, draining, delivered>>
  <2>1. \A u \in Threads : pc'[u] = pc[u]
    BY <1>1
  <2>. QED BY <1>1, <1>2, <2>1, HeldStays, CallGoesOn
<1>3. CASE /\ delivered' = IF ret.pkt = 0 THEN delivered ELSE Append(delivered, ret)
           /\ draining'  = IF draining = "yes" /\ ret = Nothing THEN "done" ELSE draining
           /\ upc' = "idle" /\ upkt' = 0 /\ fin' = 0 /\ ret' = Nothing
  <2>1. Latest' = Latest /\ Newest' = Newest /\ Held' = Held /\ Limit' = Limit
    BY <1>1, <1>3 DEF Latest, Newest, Held, Limit
  <2>2. \A u \in Threads : /\ Undecided(u)' <=> Undecided(u)
                           /\ Active(u)' <=> Active(u)
                           /\ Item(u)' = Item(u)
    BY <1>1 DEF Undecided, Active, Item
  <2>3. \A x : Rank(x)' = Rank(x)
    BY <1>1 DEF Rank
  <2>4. Empty' <=> Empty
    BY <1>1, <1>3 DEF Empty
  <2>5. ret \in Results /\ delivered \in Seq(Results)
    BY DEF IInv, Types, UserTypes, Line, Past
  \* what the user has been given: the same, and what the call returns
  <2>6. /\ delivered' \in Seq(Results)
        /\ \A i \in DOMAIN delivered' :
              \/ i \in DOMAIN delivered /\ delivered'[i] = delivered[i]
              \/ i = Len(delivered) + 1 /\ delivered'[i] = ret /\ ret.pkt # 0
        /\ \A i \in DOMAIN delivered : i \in DOMAIN delivered' /\ delivered'[i] = delivered[i]
        /\ \A i \in DOMAIN delivered : i \in Nat /\ i < Len(delivered) + 1
        /\ ret.pkt # 0 => \E i \in DOMAIN delivered' : delivered'[i] = ret
    <3>1. CASE ret.pkt = 0
      BY <1>3, <2>5, <3>1
    <3>2. CASE ret.pkt # 0
      <4>1. delivered' = Append(delivered, ret)
        BY <1>3, <3>2
      <4>2. Len(delivered) + 1 \in DOMAIN Append(delivered, ret)
            /\ Append(delivered, ret)[Len(delivered) + 1] = ret
        BY <2>5
      <4>3. ret.pkt # 0 => \E i \in DOMAIN delivered' : delivered'[i] = ret
        BY <4>1, <4>2
      <4>. QED BY <2>5, <3>2, <4>1, <4>3
    <3>. QED BY <3>1, <3>2
  <2>7. Ring'
    BY <1>1, <1>3 DEF Line, Ring, Calling
  <2>8. Room'
    <3>1. \A t \in Threads : Active(t) => Latest # User /\ Rank(t) <= Rank(Latest)
                                          /\ Rank(t) < Rank(nextDecoding)
      BY <1>1 DEF Line, Room
    <3>2. Empty \/ Rank(nextDecoding) <= Limit
      BY <1>1 DEF Line, Room
    <3>3. Empty => \A t \in Threads : ~Active(t)
      BY DEF Line, Room
    <3>. QED BY <1>1, <1>3, <2>1, <2>2, <2>3, <2>4, <3>1, <3>2, <3>3 DEF Room
  <2>9. Outcomes'
    BY <1>1, <2>2 DEF Line, Outcomes
  <2>10. Threaded'
    <3>1. \A t, u \in Threads : Alike(t, u)' <=> Alike(t, u)
      BY <1>1, <2>2 DEF Alike
    <3>. QED BY <2>2, <2>3, <3>1 DEF Line, Threaded
  <2>11. Past'
    <3>1. \A i \in DOMAIN delivered' : base < delivered'[i].pkt /\ delivered'[i].pkt <= sent
      BY <2>6 DEF Line, Past
    <3>2. \A i, j \in DOMAIN delivered' : i < j =>
             /\ delivered'[i].pkt # delivered'[j].pkt
             /\ delivered'[i].kind = delivered'[j].kind => delivered'[i].pkt < delivered'[j].pkt
      <4>. SUFFICES ASSUME NEW i \in DOMAIN delivered', NEW j \in DOMAIN delivered', i < j
                    PROVE  /\ delivered'[i].pkt # delivered'[j].pkt
                           /\ delivered'[i].kind = delivered'[j].kind => delivered'[i].pkt < delivered'[j].pkt
        OBVIOUS
      <4>1. CASE j \in DOMAIN delivered /\ delivered'[j] = delivered[j]
        <5>1. i \in DOMAIN delivered /\ delivered'[i] = delivered[i]
          BY <2>5, <2>6, <4>1
        <5>. QED BY <4>1, <5>1 DEF Line, Past, Follows
      <4>2. CASE j = Len(delivered) + 1 /\ delivered'[j] = ret /\ ret.pkt # 0
        <5>1. i \in DOMAIN delivered /\ delivered'[i] = delivered[i]
          BY <2>5, <2>6, <4>2
        <5>. QED BY <4>2, <5>1 DEF Line, Past, Follows
      <4>. QED BY <2>6, <4>1, <4>2
    <3>3. \A i \in DOMAIN delivered', t \in Threads : Precedes(delivered[i], t)'
      <4>. SUFFICES ASSUME NEW i \in DOMAIN delivered', NEW t \in Threads
                    PROVE  Precedes(delivered[i], t)'
        OBVIOUS
      <4>1. CASE i \in DOMAIN delivered /\ delivered'[i] = delivered[i]
        BY <1>1, <2>2, <4>1 DEF Line, Past, Precedes
      <4>2. CASE delivered'[i] = ret
        BY <1>1, <2>2, <4>2 DEF Line, Past, Precedes
      <4>. QED BY <2>6, <4>1, <4>2
    <3>4. ret'.pkt = 0
      BY <1>3 DEF Nothing
    <3>5. \A t \in Threads : Precedes(ret, t)'
      BY <3>4 DEF Precedes
    <3>. QED BY <1>1, <2>6, <3>1, <3>2, <3>3, <3>4, <3>5 DEF Past, Follows
  <2>12. Late'
    <3>1. \A i \in DOMAIN delivered', k \in DOMAIN Held :
             /\ delivered'[i].pkt # Held[k]
             /\ delivered'[i].kind = "frame" => delivered'[i].pkt < Held[k]
      <4>. SUFFICES ASSUME NEW i \in DOMAIN delivered', NEW k \in DOMAIN Held
                    PROVE  /\ delivered'[i].pkt # Held[k]
                           /\ delivered'[i].kind = "frame" => delivered'[i].pkt < Held[k]
        OBVIOUS
      <4>. QED BY <2>6 DEF Line, Late, IsBefore
    <3>2. \A k \in DOMAIN Held : Held[k] # 0
      BY HeldTypes, Numbers DEF Packets
    <3>3. \A k \in DOMAIN Held : IsBefore(ret, k)'
      BY <1>3, <2>1, <3>2 DEF IsBefore, Nothing
    <3>4. \A t \in Threads, k \in DOMAIN Held : IsBefore(out[t], k)'
      BY <1>1, <2>1 DEF Line, Late, IsBefore
    <3>5. \A i \in DOMAIN delivered', k \in DOMAIN Held : IsBefore(delivered[i], k)'
      BY <2>1, <3>1 DEF IsBefore
    <3>. QED BY <1>1, <2>1, <2>2, <3>3, <3>4, <3>5 DEF Line, Late
  <2>13. Conserved'
    <3>. SUFFICES ASSUME NEW n \in base + 1 .. sent, ~\E i \in DOMAIN delivered' : delivered'[i].pkt = n
                  PROVE  \/ \E k \in DOMAIN Held : Held[k] = n
                         \/ \E t \in Threads : Item(t) = n
      BY <1>1, <2>1, <2>2 DEF Conserved, Given
    <3>1. n # 0
      BY Numbers DEF IInv, Types, UserTypes
    <3>2. n \notin Given /\ ret.pkt # n
      BY <2>6, <3>1 DEF Given
    <3>. QED BY <1>1, <3>2 DEF Line, Conserved, Calling
  <2>14. Ends'
    <3>1. ASSUME draining' = "done" PROVE Given' = base' + 1 .. sent'
      <4>1. draining = "yes" /\ ret = Nothing /\ upkt = 0
        BY <1>1, <1>3, <3>1
      <4>2. Held = <<>> /\ Empty /\ \A t \in Threads : ~Active(t)
        BY <1>1, <4>1 DEF Line, Ends, Empty, Room
      <4>3. \A t \in Threads : Item(t) = 0
        BY <4>2, ItemsAreActive
      <4>4. delivered' = delivered
        BY <1>3, <4>1 DEF Nothing
      <4>5. ASSUME NEW n \in base + 1 .. sent PROVE n \in Given
        <5>1. n # 0
          BY Numbers DEF IInv, Types, UserTypes
        <5>2. DOMAIN Held = {}
          BY <4>2
        <5>. QED BY <1>1, <4>1, <4>3, <5>1, <5>2 DEF Line, Conserved, Calling, Nothing
      <4>6. \A i \in DOMAIN delivered : delivered[i].pkt \in base + 1 .. sent
        <5>. SUFFICES ASSUME NEW i \in DOMAIN delivered PROVE delivered[i].pkt \in base + 1 .. sent
          OBVIOUS
        <5>1. delivered[i].pkt \in Nat /\ base \in Nat /\ sent \in Nat
          BY <2>5, ResultFields, Numbers DEF IInv, Types, UserTypes
        <5>2. base < delivered[i].pkt /\ delivered[i].pkt <= sent
          BY DEF Line, Past
        <5>. QED BY <5>1, <5>2
      <4>. QED BY <1>1, <4>4, <4>5, <4>6 DEF Given
    <3>. QED BY <1>3, <3>1 DEF Ends, EofComplete
  <2>15. Complete'
    <3>1. \A i \in DOMAIN delivered' : delivered'[i].kind = "frame" => delivered'[i].pkt \in progress
      BY <2>6 DEF Line, Complete, Indices
    <3>2. \A t \in Threads : out[t].kind = "frame" =>
            out[t].pkt \in progress \/ \E s \in Threads : Decodes(s, out[t].pkt)' /\ Rank(s) <= Rank(t)
      BY <1>1 DEF Line, Complete, Decodes
    <3>3. \A k \in DOMAIN Held : Held[k] \in progress \/ \E s \in Threads : Decodes(s, Held[k])'
      BY <1>1, <2>1 DEF Line, Complete, Decodes
    <3>4. ret'.kind # "frame"
      BY <1>3 DEF Nothing
    <3>. QED BY <1>1, <2>1, <2>3, <3>1, <3>2, <3>3, <3>4 DEF Complete, Indices, Decodes
  <2>. QED BY <2>7, <2>8, <2>9, <2>10, <2>11, <2>12, <2>13, <2>14, <2>15 DEF Line
<1>4. \/ UNCHANGED <<upc, upkt, fin, ret, draining, delivered>>
      \/ /\ delivered' = IF ret.pkt = 0 THEN delivered ELSE Append(delivered, ret)
         /\ draining'  = IF draining = "yes" /\ ret = Nothing THEN "done" ELSE draining
         /\ upc' = "idle" /\ upkt' = 0 /\ fin' = 0 /\ ret' = Nothing
  BY DEF Return
<1>. QED BY <1>2, <1>3, <1>4

LEMMA ParkThreadOrders ==
    ASSUME IInv, Line, ParkThread PROVE Line'
<1>. USE DEF locks, async, ptctx, serial, waits, worker, frames, user, hist, fctx
<1>1. PICK f \in Threads : f = fin
  BY Numbers DEF ParkThread, IInv, Types, UserTypes, Threads
<1>2. /\ UNCHANGED <<codec, fctx, state, pc, then, avpkt, ctx, progress, upc, upkt, ret,
                     draining, hist>>
      /\ upc \in {"flush", "close"} /\ upc \notin Calling /\ state[f] = "input_ready"
      /\ out' = [out EXCEPT ![f] = IF out[f].kind = "frame" THEN Nothing ELSE out[f]]
      /\ ThreadTypes
  BY <1>1 DEF ParkThread, HasOutput, Calling, IInv, Types
<1>3. /\ out'[f] \in {out[f], Nothing} /\ \A u \in Threads \ {f} : out'[u] = out[u]
      /\ ~Undecided(f)
      /\ \A u \in Threads : Undecided(u)' <=> Undecided(u)
  BY <1>2 DEF ThreadTypes, Undecided
<1>4. /\ \A u \in Threads : out'[u] = out[u] \/ (out'[u] = Nothing /\ ~Undecided(u))
      /\ \A u \in Threads : Item(u)' = Item(u) \/ Item(u)' = 0
      /\ \A u \in Threads : Item(u)' # 0 => out'[u] = out[u]
      /\ \A u \in Threads : Active(u)' => Active(u)
  BY <1>2, <1>3 DEF Item, Active, Nothing
<1>5. /\ Latest' = Latest /\ Newest' = Newest /\ Held' = Held /\ Limit' = Limit
      /\ Submits' <=> Submits
      /\ Empty' <=> Empty
  BY <1>2 DEF Latest, Newest, Held, Limit, Submits, Empty
<1>6. \A x : Rank(x)' = Rank(x)
  BY <1>2 DEF Rank
<1>7. Ring'
  BY <1>2, <1>5 DEF Line, Ring, Calling
<1>8. Room'
  BY <1>2, <1>4, <1>5, <1>6 DEF Line, Room
<1>9. Outcomes'
  <2>1. Nothing # Error(0)
    BY DEF Nothing, Error
  <2>. QED BY <1>2, <1>3, <1>4, <2>1 DEF Line, Outcomes
<1>10. Threaded'
  <2>1. \A t, u \in Threads : Item(t)' # 0 /\ Item(u)' # 0 => (Alike(t, u)' <=> Alike(t, u))
    BY <1>3, <1>4 DEF Alike
  <2>. QED BY <1>4, <1>6, <2>1 DEF Line, Threaded
<1>11. Past'
  <2>1. \A i \in DOMAIN delivered, t \in Threads : Precedes(delivered[i], t)'
    BY <1>2, <1>3, <1>4 DEF Line, Past, Precedes
  <2>2. \A t \in Threads : Precedes(ret, t)'
    BY <1>2, <1>3, <1>4 DEF Line, Past, Precedes
  <2>3. ret.pkt # 0 => \A i \in DOMAIN delivered : Follows(i, ret)'
    BY <1>2 DEF Line, Past, Follows
  <2>4. \A i, j \in DOMAIN delivered : i < j => Follows(i, delivered[j])'
    BY <1>2 DEF Line, Past, Follows
  <2>. QED BY <1>2, <2>1, <2>2, <2>3, <2>4 DEF Line, Past
<1>12. Late'
  <2>1. \A i \in DOMAIN delivered, k \in DOMAIN Held : IsBefore(delivered[i], k)'
    BY <1>2, <1>5 DEF Line, Late, IsBefore
  <2>2. \A k \in DOMAIN Held : IsBefore(ret, k)'
    BY <1>2, <1>5 DEF Line, Late, IsBefore
  <2>3. \A t \in Threads, k \in DOMAIN Held : IsBefore(out[t], k)'
    <3>1. \A k \in DOMAIN Held : Held[k] # 0
      BY HeldTypes, Numbers DEF Packets
    <3>. QED BY <1>4, <1>5, <3>1 DEF Line, Late, IsBefore, Nothing
  <2>. QED BY <1>2, <1>3, <1>5, <2>1, <2>2, <2>3 DEF Line, Late
<1>13. Conserved' /\ Ends'
  BY <1>2, <1>5 DEF Line, Conserved, Calling, Ends, EofComplete, Given
<1>14. Complete'
  <2>1. \A t \in Threads : out'[t].kind = "frame" =>
          out'[t].pkt \in progress \/ \E s \in Threads : Decodes(s, out'[t].pkt) /\ Rank(s) <= Rank(t)
    BY <1>4 DEF Line, Complete, Nothing
  <2>2. \A k \in DOMAIN Held : Held[k] \in progress \/ \E s \in Threads : Decodes(s, Held[k])'
    BY <1>2, <1>5 DEF Line, Complete, Decodes
  <2>3. \A i \in Indices("frame")' : delivered'[i].pkt \in progress'
    BY <1>2 DEF Line, Complete, Indices
  <2>4. ret'.kind = "frame" => ret'.pkt \in progress'
    BY <1>2 DEF Line, Complete
  <2>. QED BY <1>2, <1>5, <1>6, <2>1, <2>2, <2>3, <2>4 DEF Complete, Decodes
<1>. QED BY <1>7, <1>8, <1>9, <1>10, <1>11, <1>12, <1>13, <1>14 DEF Line

\* At the start, and after a flush, there is nothing in the line.
Starts ==
    /\ codec \in Codecs /\ prev = User /\ nextDecoding = 0 /\ nextFinished = 0
    /\ upc = "idle" /\ upkt = 0 /\ ret = Nothing /\ draining = "no" /\ delivered = <<>>
    /\ base = sent /\ sent \in Nat
    /\ \A t \in Threads : state[t] = "input_ready" /\ out[t] = Nothing /\ ctx[t].held = <<>>

LEMMA LineStarts == Starts => Line
<1>. SUFFICES ASSUME Starts PROVE Line
  OBVIOUS
<1>. USE DEF Starts
<1>1. codec.delay \in Nat /\ NThreads \in Nat /\ NThreads > 1
  BY CodecFields, Numbers
<1>2. /\ Latest = User /\ Newest = 0 /\ Held = <<>> /\ ~Empty
      /\ \A t \in Threads : ~Active(t) /\ ~Undecided(t) /\ Item(t) = 0
  BY Numbers DEF Latest, Newest, Held, Empty, Active, Undecided, Item, Nothing
<1>3. Rank(0) = 0 /\ Limit \in Nat
  BY <1>1 DEF Rank, Limit
<1>4. Ring
  BY DEF Ring, Calling, Nothing
<1>5. Room
  BY <1>2, <1>3 DEF Room
<1>6. Outcomes
  BY <1>1, <1>2 DEF Outcomes, Nothing, Error
<1>7. Threaded /\ Past /\ Late /\ Ends
  BY <1>2 DEF Threaded, Past, Precedes, Late, Ends, EofComplete, Calling, Nothing
<1>8. Conserved
  <2>1. base + 1 .. sent = {}
    OBVIOUS
  <2>. QED BY <2>1 DEF Conserved
<1>9. Complete
  BY <1>2 DEF Complete, Indices, Nothing
<1>. QED BY <1>4, <1>5, <1>6, <1>7, <1>8, <1>9 DEF Line

LEMMA FlushOrders ==
    ASSUME IInv, Line, Flush PROVE Line'
<1>. USE DEF locks, async, ptctx, serial, waits, worker, frames, user, hist
<1>1. CASE UNCHANGED <<fctx, out, ctx, released, upc, fin, draining, base, delivered>>
  <2>1. UNCHANGED <<codec, state, pc, then, avpkt, progress, upkt, ret, sent>>
    BY DEF Flush
  <2>2. \A u \in Threads : pc'[u] = pc[u]
    BY <2>1
  <2>. QED BY <1>1, <2>1, <2>2, HeldStays, CallGoesOn
<1>2. CASE ~UNCHANGED <<fctx, out, ctx, released, upc, fin, draining, base, delivered>>
  <2>1. /\ upc = "flush" /\ fin = NThreads
        /\ UNCHANGED <<codec, state, upkt, ret, sent>>
        /\ ctx' = [t \in Threads |-> Flushed(UpdateContext(0, prev)[t])]
        /\ prev' = User /\ nextDecoding' = 0 /\ nextFinished' = 0
        /\ out' = [t \in Threads |-> Nothing]
        /\ upc' = "idle" /\ draining' = "no" /\ base' = sent /\ delivered' = <<>>
    BY <1>2 DEF Flush, Parked
  <2>2. upkt = 0 /\ ret = Nothing /\ sent \in Nat /\ codec \in Codecs
    BY <2>1, Numbers DEF Line, Ring, Calling, IInv, Types, UserTypes
  <2>3. \A t \in Threads : state[t] = "input_ready"
    BY <2>1, Numbers DEF IInv, AreParked, Threads
  <2>4. \A t \in Threads : ctx'[t].held = <<>> /\ out'[t] = Nothing
    BY <2>1 DEF Flushed, NewContext
  <2>. HIDE DEF locks, async, ptctx, serial, waits, worker, frames, user, hist
  <2>5. Starts'
    BY <2>1, <2>2, <2>3, <2>4 DEF Starts
  <2>. QED BY <2>5, LineStarts, PTL
<1>. QED BY <1>1, <1>2

LEMMA LineInitially == Init => Line
<1>. SUFFICES ASSUME Init PROVE Line
  OBVIOUS
<1>1. \A t \in Threads : state[t] = "input_ready" /\ out[t] = Nothing /\ ctx[t].held = <<>>
  BY DEF Init, NewContext
<1>. QED BY <1>1, LineStarts, Numbers DEF Init, Starts

LEMMA AllOrder ==
    ASSUME IInv, Known, Line, [Next]_vars PROVE Line'
<1>1. CASE Calls
  <2>1. CASE Park("flush") \/ Park("close")
    BY <2>1, QuietUserOrders
  <2>2. CASE Decode(0)
    <3>1. 0 \in 0..MaxPackets
      BY Numbers
    <3>. QED BY <2>2, <3>1, DecodeOrders
  <2>3. CASE sent < MaxPackets /\ Decode(sent + 1)
    <3>1. sent + 1 \in 0..MaxPackets
      BY <2>3, Numbers DEF IInv, Types, UserTypes
    <3>. QED BY <2>3, <3>1, DecodeOrders
  <2>. QED BY <1>1, <2>1, <2>2, <2>3 DEF Calls
<1>2. CASE InCall
  BY <1>2, QuietUserOrders, SubmitOrders, ServeOrders, TakeOutputOrders, ReturnOrders,
     ParkThreadOrders, FlushOrders, CloseOrders DEF InCall
<1>3. CASE \E t \in Threads : Worker(t)
  BY <1>3, WorkersOrder
<1>4. CASE SpuriousWakeup \/ Closed \/ UNCHANGED vars
  BY <1>4, QuietUserOrders DEF Closed
<1>. QED BY <1>1, <1>2, <1>3, <1>4 DEF Next

-----------------------------------------------------------------------------
(* What the user is given                                                  *)

\* The values of a function are no more than its arguments.
LEMMA Values ==
    ASSUME NEW S, IsFiniteSet(S), NEW f, f = [x \in S |-> f[x]]
    PROVE  /\ IsFiniteSet({f[x] : x \in S}) /\ Cardinality({f[x] : x \in S}) <= Cardinality(S)
           /\ (\A x, y \in S : f[x] = f[y] => x = y)
                 => Cardinality({f[x] : x \in S}) = Cardinality(S)
<1>. DEFINE T == {f[x] : x \in S}
<1>1. f \in Surjection(S, T)
  BY DEF Surjection
<1>2. (\A x, y \in S : f[x] = f[y] => x = y) => f \in Injection(S, T)
  BY DEF Injection, IsInjective
<1>. HIDE DEF T
<1>3. /\ IsFiniteSet(T) /\ Cardinality(T) <= Cardinality(S)
      /\ Cardinality(T) = Cardinality(S) <=> f \in Injection(S, T)
  BY <1>1, FS_Surjection
<1>. QED BY <1>2, <1>3 DEF T

LEMMA GivenTypes ==
    ASSUME IInv, Line
    PROVE  /\ IsFiniteSet(Given) /\ Cardinality(Given) = Len(delivered) /\ Len(delivered) \in Nat
           /\ Given \subseteq base + 1 .. sent
           /\ \A i \in DOMAIN delivered : i \in Nat /\ delivered[i].pkt \in Nat
<1>1. delivered \in Seq(Results) /\ DOMAIN delivered = 1 .. Len(delivered) /\ Len(delivered) \in Nat
  BY DEF Line, Past
<1>2. \A i \in DOMAIN delivered : i \in Nat /\ delivered[i].pkt \in Nat
  BY <1>1, ResultFields
<1>. DEFINE f == [i \in DOMAIN delivered |-> delivered[i].pkt]
<1>3. \A i, j \in DOMAIN delivered : f[i] = f[j] => i = j
  BY <1>2 DEF Line, Past, Follows
<1>4. IsFiniteSet(DOMAIN delivered) /\ Cardinality(DOMAIN delivered) = Len(delivered)
  BY <1>1, FS_Interval
<1>5. f = [i \in DOMAIN delivered |-> f[i]] /\ Given = {f[i] : i \in DOMAIN delivered}
  BY DEF Given
<1>. HIDE DEF f
<1>6. IsFiniteSet(Given) /\ Cardinality(Given) = Len(delivered)
  BY <1>3, <1>4, <1>5, Values
<1>7. Given \subseteq base + 1 .. sent
  <2>1. base \in Nat /\ sent \in Nat
    BY Numbers DEF IInv, Types, UserTypes
  <2>. QED BY <1>2, <2>1 DEF Line, Past, Given
<1>. QED BY <1>1, <1>2, <1>6, <1>7

LEMMA LineInOrder ==
    ASSUME IInv, Line PROVE InOrder
<1>1. Cardinality(Given) = Len(delivered) /\ Given \subseteq base + 1 .. sent
  BY GivenTypes
<1>2. base \in Nat /\ sent \in Nat
  BY Numbers DEF IInv, Types, UserTypes
<1>3. \A n \in Given : base < n /\ n <= sent
  BY <1>1, <1>2
<1>. QED BY <1>1, <1>3 DEF InOrder, Indices, Line, Past, Follows

\* The threads that work or have output are at most Limit: their ranks differ.
LEMMA ActiveThreads ==
    ASSUME IInv, Line, upc = "idle", ~Empty
    PROVE  /\ IsFiniteSet({Item(t) : t \in {u \in Threads : Active(u)}})
           /\ Cardinality({Item(t) : t \in {u \in Threads : Active(u)}}) <= Limit
           /\ Limit \in Nat
<1>. DEFINE A == {t \in Threads : Active(t)}
            r == [t \in A |-> Rank(t)]
            f == [t \in A |-> Item(t)]
<1>1. Limit \in Nat /\ IsFiniteSet(0 .. Limit - 1) /\ Cardinality(0 .. Limit - 1) = Limit
  <2>1. Limit \in Nat
    BY Numbers DEF Limit
  <2>. QED BY <2>1, FS_Interval
<1>2. nextDecoding \in Threads /\ Rank(nextDecoding) <= Limit
  BY DEF IInv, Types, UserTypes, Line, Room
<1>3. \A t \in A : Rank(t) \in 0 .. Limit - 1
  <2>. SUFFICES ASSUME NEW t \in A PROVE Rank(t) \in 0 .. Limit - 1
    OBVIOUS
  <2>1. Rank(t) < Rank(nextDecoding)
    BY DEF Line, Room
  <2>2. Rank(t) \in Int /\ 0 <= Rank(t) /\ Rank(nextDecoding) \in Int
    BY <1>2, Ranks
  <2>. QED BY <1>1, <1>2, <2>1, <2>2
<1>4. r \in Injection(A, 0 .. Limit - 1)
  BY <1>3, Ranks DEF Injection, IsInjective
<1>. HIDE DEF r
<1>5. IsFiniteSet(A) /\ Cardinality(A) <= Limit
  BY <1>1, <1>4, FS_Injection
<1>6. f = [t \in A |-> f[t]] /\ {Item(t) : t \in A} = {f[t] : t \in A}
  OBVIOUS
<1>. HIDE DEF f, A
<1>7. IsFiniteSet({f[t] : t \in A}) /\ Cardinality({f[t] : t \in A}) <= Cardinality(A)
  BY <1>5, <1>6, Values
<1>8. Cardinality({f[t] : t \in A}) \in Nat /\ Cardinality(A) \in Nat
  BY <1>5, <1>7, FS_CardinalityType
<1>9. Cardinality({f[t] : t \in A}) <= Limit
  BY <1>1, <1>5, <1>7, <1>8
<1>. QED BY <1>1, <1>6, <1>7, <1>9 DEF A

LEMMA LineBoundsDelay ==
    ASSUME IInv, Line PROVE BoundedDelay
<1>. SUFFICES ASSUME upc = "idle" PROVE sent - base - Len(delivered) <= codec.delay + Limit
  BY CodecFields, Numbers DEF BoundedDelay, Limit, IInv, Types, UserTypes
<1>1. /\ sent \in Nat /\ base \in Nat /\ base <= sent
      /\ codec.delay \in Nat /\ Limit \in Nat
  BY CodecFields, Numbers DEF IInv, Types, UserTypes, Limit
<1>2. /\ IsFiniteSet(Given) /\ Cardinality(Given) = Len(delivered) /\ Len(delivered) \in Nat
  BY GivenTypes
<1>3. IsFiniteSet(base + 1 .. sent) /\ Cardinality(base + 1 .. sent) = sent - base
  <2>1. base + 1 \in Int /\ sent \in Int
    BY <1>1
  <2>2. /\ IsFiniteSet(base + 1 .. sent)
        /\ Cardinality(base + 1 .. sent) = IF base + 1 > sent THEN 0 ELSE sent - (base + 1) + 1
    BY <2>1, FS_Interval
  <2>. QED BY <1>1, <2>2
<1>4. CASE Empty
  <2>1. Given = base + 1 .. sent
    BY <1>4 DEF Empty, Line, Ends, EofComplete
  <2>. QED BY <1>1, <1>2, <1>3, <2>1
<1>5. CASE ~Empty
  <2>. DEFINE H == {Held[k] : k \in DOMAIN Held}
              I == {Item(t) : t \in {u \in Threads : Active(u)}}
  <2>1. IsFiniteSet(I) /\ Cardinality(I) <= Limit /\ Cardinality(I) \in Nat
    BY <1>5, ActiveThreads, FS_CardinalityType
  <2>2. IsFiniteSet(H) /\ Cardinality(H) <= codec.delay /\ Cardinality(H) \in Nat
    <3>1. /\ Held \in Seq(Packets) /\ Len(Held) \in Nat /\ Len(Held) <= codec.delay
          /\ DOMAIN Held = 1 .. Len(Held)
      BY HeldTypes DEF Line, Outcomes, Held
    <3>2. IsFiniteSet(DOMAIN Held) /\ Cardinality(DOMAIN Held) = Len(Held)
      BY <3>1, FS_Interval
    <3>3. Held = [k \in DOMAIN Held |-> Held[k]]
      BY <3>1
    <3>4. IsFiniteSet(H) /\ Cardinality(H) <= Len(Held)
      BY <3>2, <3>3, Values
    <3>5. Cardinality(H) \in Nat
      BY <3>4, FS_CardinalityType
    <3>. QED BY <1>1, <3>1, <3>4, <3>5
  <2>3. base + 1 .. sent \subseteq (Given \union H) \union I
    <3>. SUFFICES ASSUME NEW n \in base + 1 .. sent PROVE n \in (Given \union H) \union I
      OBVIOUS
    <3>1. n # 0 /\ ret.pkt = 0
      BY <1>1 DEF Line, Ring, Calling, Nothing
    <3>2. \A t \in Threads : Item(t) = n => n \in I
      BY <3>1, ItemsAreActive
    <3>3. n \in Given \/ (\E k \in DOMAIN Held : Held[k] = n) \/ \E t \in Threads : Item(t) = n
      BY <3>1 DEF Line, Conserved
    <3>. QED BY <3>2, <3>3
  <2>. HIDE DEF H, I
  <2>4. /\ IsFiniteSet(Given \union H)
        /\ Cardinality(Given \union H) <= Len(delivered) + Cardinality(H)
        /\ Cardinality(Given \union H) \in Nat
    <3>1. IsFiniteSet(Given \intersect H)
      BY <1>2, FS_Intersection
    <3>2. Cardinality(Given \intersect H) \in Nat
      BY <3>1, FS_CardinalityType
    <3>3. /\ IsFiniteSet(Given \union H)
          /\ Cardinality(Given \union H) = Cardinality(Given) + Cardinality(H) - Cardinality(Given \intersect H)
      BY <1>2, <2>2, FS_Union
    <3>4. Cardinality(Given \union H) \in Nat
      BY <3>3, FS_CardinalityType
    <3>. QED BY <1>2, <2>2, <3>2, <3>3, <3>4
  <2>5. /\ IsFiniteSet((Given \union H) \union I)
        /\ Cardinality((Given \union H) \union I) <= Cardinality(Given \union H) + Cardinality(I)
        /\ Cardinality((Given \union H) \union I) \in Nat
    <3>1. IsFiniteSet((Given \union H) \intersect I)
      BY <2>4, FS_Intersection
    <3>2. Cardinality((Given \union H) \intersect I) \in Nat
      BY <3>1, FS_CardinalityType
    <3>3. /\ IsFiniteSet((Given \union H) \union I)
          /\ Cardinality((Given \union H) \union I)
                = Cardinality(Given \union H) + Cardinality(I) - Cardinality((Given \union H) \intersect I)
      BY <2>1, <2>4, FS_Union
    <3>4. Cardinality((Given \union H) \union I) \in Nat
      BY <3>3, FS_CardinalityType
    <3>. QED BY <2>1, <2>4, <3>2, <3>3, <3>4
  <2>6. Cardinality(base + 1 .. sent) <= Cardinality((Given \union H) \union I)
    BY <2>3, <2>5, FS_Subset
  <2>7. Len(delivered) \in Nat
    BY <1>2
  <2>. QED BY ONLY <1>1, <1>3, <2>1, <2>2, <2>4, <2>5, <2>6, <2>7
<1>. QED BY <1>4, <1>5

LEMMA LineImplies ==
    ASSUME IInv, Line PROVE InOrder /\ EofComplete /\ BoundedDelay /\ FramesAreComplete
BY LineInOrder, LineBoundsDelay DEF Line, Ends, Complete, FramesAreComplete

\* The packets, and the results, in the ring of threads are in the order of Line
\* whatever the steps of submit_packet, the workers and ff_thread_decode_frame.
THEOREM LineIsKept == Spec => []Line
<1>1. Init => Line
  BY LineInitially
<1>2. IInv /\ Known /\ Line /\ [Next]_vars => Line'
  BY AllOrder
<1>3. Init => Known
  BY KnownInitially
<1>4. IInv /\ Known /\ [Next]_vars => Known'
  BY AllKnow
<1>. QED BY <1>1, <1>2, <1>3, <1>4, Invariant, PTL DEF Spec

\* ff_thread_decode_frame gives the user the frames, and the errors, in the
\* order of the packets, each packet once, however the threads overtake each
\* other, and after a flush none of those before it.
THEOREM OutputInOrder == Spec => []InOrder
<1>1. IInv /\ Line => InOrder
  BY LineImplies
<1>. QED BY <1>1, Invariant, LineIsKept, PTL

\* ff_thread_decode_frame says that nothing is left, by returning no frame to an
\* empty packet, only when every packet has had its frame or its error.
THEOREM EndIsComplete == Spec => []EofComplete
<1>1. IInv /\ Line => EofComplete
  BY LineImplies
<1>. QED BY <1>1, Invariant, LineIsKept, PTL

\* No more packets are without a result than avctx->delay promises: as many as
\* threads but one, one fewer for FFV1, and those the codec holds back.
THEOREM DelayIsBounded == Spec => []BoundedDelay
<1>1. IInv /\ Line => BoundedDelay
  BY LineImplies
<1>. QED BY <1>1, Invariant, LineIsKept, PTL

\* A frame that the user has been given is no longer decoded into
\* (ff_thread_report_progress to its end comes before output_cond).
THEOREM PicturesAreComplete == Spec => []FramesAreComplete
<1>1. IInv /\ Line => FramesAreComplete
  BY LineImplies
<1>. QED BY <1>1, Invariant, LineIsKept, PTL
===============================================================================
