-------------------------- MODULE FrameEncoderProofs --------------------------
(***************************************************************************)
(* The invariants of FrameEncoder, for any number of threads and frames    *)
(* and any size of the ring: results are returned in order and packets     *)
(* received once each; an end that is told is one.                         *)
(***************************************************************************)
EXTENDS FrameEncoder, TLAPS

-----------------------------------------------------------------------------
(* The inductive invariant                                                 *)

\* The results that were returned, and the frames that were given to a worker
Out    == Len(outcome)
Handed == sent - Len(taskFifo)

\* i is k modulo the size of the ring.
IndexOf(i, k) == i \in Indices /\ \E q \in Int : k = BufferSize * q + i

Collecting == upc \in {"collect", "asleep", "awake"}

\* The indices into the ring count frames and results.
IndicesCount ==
    /\ IndexOf(taskIndex, sent) /\ IndexOf(finishedIndex, Out)
    /\ Out <= Handed /\ sent - Out < BufferSize

\* The fifo has the frames after those that were given to a worker.
FifoIsNext ==
    \A i \in 1..Len(taskFifo) : /\ taskFifo[i].frame = Handed + i
                                /\ IndexOf(taskFifo[i].index, taskFifo[i].frame - 1)

\* A worker has a frame that was not returned, and of its own.
TasksDiffer ==
    \A w \in Workers :
       /\ task[w] # None <=> wpc[w] = "encode"
       /\ task[w] # None => /\ task[w].frame \in Out + 1..Handed
                            /\ IndexOf(task[w].index, task[w].frame - 1)
       /\ \A v \in Workers : v # w /\ task[v] # None /\ task[w] # None
                             => task[v].frame # task[w].frame

\* A result is in its place, and nobody is still at work on its frame.
ResultsInPlace ==
    \A i \in Indices : finished[i] # None =>
       /\ finished[i].frame \in Out + 1..Handed /\ IndexOf(i, finished[i].frame - 1)
       /\ \A w \in Workers : task[w] # None => task[w].frame # finished[i].frame

\* Where frames and results are.
Places ==
    /\ taskFifo \in Seq(Tasks) /\ task \in [Workers -> Tasks \union {None}]
    /\ finished \in [Indices -> Results \union {None}]
    /\ outcome \in Seq(Results) /\ sent \in 0..MaxFrames
    /\ refs = (Handed + 1..sent) \union Taken
    /\ IndicesCount /\ FifoIsNext /\ TasksDiffer /\ ResultsInPlace

\* Where threads are.  A packet is collected only when there is none, and
\* received from the collection only when the user has sent the end.
Calls ==
    /\ threadCount \in 0..Threads /\ exit \in BOOLEAN
    /\ wpc \in [Workers -> {"none", "loop", "asleep", "encode", "ended"}]
    /\ \A w \in Workers : w >= threadCount => wpc[w] = "none"
    /\ upc \in {"init", "idle", "collect", "asleep", "awake", "join", "freed"}
    /\ call \in [frame : BOOLEAN, receives : BOOLEAN]
    /\ delay \in BOOLEAN /\ draining \in BOOLEAN /\ eof \in BOOLEAN
    /\ sent - Out <= threadCount + (IF upc = "idle" THEN 0 ELSE 1)
    /\ Collecting => bufferPkt = None
    /\ Collecting /\ call.receives => draining /\ ~call.frame
    /\ eof => draining /\ EofIsEnd

Received == bufferPkt \in Frames \union {None} /\ got \in Seq(Frames) /\ ReturnedInOrder

IInv == Places /\ Calls /\ Received

-----------------------------------------------------------------------------
(* Arithmetic of the ring's indices                                        *)

LEMMA Modulo ==
    ASSUME NEW q \in Int, NEW n \in Int, NEW r \in 0..n - 1
    PROVE  (n * q + r) % n = r
OBVIOUS

LEMMA MultipleIsFar ==
    ASSUME NEW n \in Int, n > 0, NEW q \in Int, n * q < n, -n < n * q
    PROVE  q = 0
OBVIOUS

LEMMA Multiples ==
    ASSUME NEW n \in Int, NEW p \in Int, NEW q \in Int
    PROVE  /\ n * p \in Int /\ n * (p - q) = n * p - n * q /\ n * (p + 1) = n * p + n
           /\ n * 0 = 0 /\ n * 1 = n
OBVIOUS

\* The index after that of k is that of k + 1.
LEMMA NextIndex ==
    ASSUME NEW k \in Int, NEW i, IndexOf(i, k)
    PROVE  IndexOf((i + 1) % BufferSize, k + 1)
<1>1. PICK q \in Int : k = BufferSize * q + i
  BY DEF IndexOf
<1>2. /\ BufferSize \in Int /\ BufferSize > 0 /\ i \in 0..BufferSize - 1 /\ i \in Int
      /\ BufferSize * q \in Int /\ BufferSize * (q + 1) = BufferSize * q + BufferSize
      /\ BufferSize * 0 = 0 /\ BufferSize * 1 = BufferSize
  BY FrameEncoderAssumption, Multiples DEF IndexOf, Indices
<1>3. CASE i + 1 < BufferSize
  <2>1. i + 1 \in 0..BufferSize - 1
    BY <1>2, <1>3
  <2>2. (BufferSize * 0 + (i + 1)) % BufferSize = i + 1
    BY <1>2, <2>1, Modulo
  <2>3. (i + 1) % BufferSize = i + 1
    BY <1>2, <2>2
  <2>4. k + 1 = BufferSize * q + (i + 1)
    BY <1>1, <1>2
  <2>. QED BY <2>1, <2>3, <2>4 DEF IndexOf, Indices
<1>4. CASE i + 1 >= BufferSize
  <2>1. i + 1 = BufferSize /\ 0 \in 0..BufferSize - 1
    BY <1>2, <1>4
  <2>2. (BufferSize * 1 + 0) % BufferSize = 0
    BY <1>2, <2>1, Modulo
  <2>3. (i + 1) % BufferSize = 0
    BY <1>2, <2>1, <2>2
  <2>4. k + 1 = BufferSize * (q + 1) + 0 /\ q + 1 \in Int
    BY <1>1, <1>2, <2>1
  <2>. QED BY <2>1, <2>3, <2>4 DEF IndexOf, Indices
<1>. QED BY <1>2, <1>3, <1>4

\* Around the ring, the distance of two indices is that of their numbers.
LEMMA Distance ==
    ASSUME NEW a \in Int, NEW b \in Int, b <= a, a - b < BufferSize,
           NEW i, NEW j, IndexOf(i, a), IndexOf(j, b)
    PROVE  /\ (i - j) % BufferSize = a - b
           /\ (i = j => a = b) /\ (a = b => i = j)
<1>1. PICK p \in Int : a = BufferSize * p + i
  BY DEF IndexOf
<1>2. PICK q \in Int : b = BufferSize * q + j
  BY DEF IndexOf
<1>3. /\ BufferSize \in Int /\ BufferSize > 0 /\ i \in 0..BufferSize - 1 /\ j \in 0..BufferSize - 1
      /\ BufferSize * p \in Int /\ BufferSize * q \in Int
      /\ BufferSize * (q - p) = BufferSize * q - BufferSize * p
      /\ BufferSize * (p - q) = BufferSize * p - BufferSize * q
      /\ BufferSize * 0 = 0
  BY FrameEncoderAssumption, Multiples DEF IndexOf, Indices
<1>4. /\ a - b \in 0..BufferSize - 1 /\ q - p \in Int
      /\ i - j = BufferSize * (q - p) + (a - b)
  BY <1>1, <1>2, <1>3
<1>5. (i - j) % BufferSize = a - b
  <2>1. (BufferSize * (q - p) + (a - b)) % BufferSize = a - b
    BY ONLY <1>3, <1>4, Modulo
  <2>. QED BY <1>4, <2>1
<1>6. ASSUME i = j PROVE a = b
  <2>1. BufferSize * (p - q) = a - b /\ p - q \in Int
    BY <1>1, <1>2, <1>3, <1>6
  <2>2. p - q = 0
    BY <1>3, <1>4, <2>1, MultipleIsFar
  <2>. QED BY <1>3, <2>1, <2>2
<1>7. ASSUME a = b PROVE i = j
  <2>1. (BufferSize * p + i) % BufferSize = i /\ (BufferSize * q + j) % BufferSize = j
    BY <1>3, Modulo
  <2>. QED BY <1>1, <1>2, <1>7, <2>1
<1>. QED BY <1>5, <1>6, <1>7

-----------------------------------------------------------------------------
(* What the invariant says                                                 *)

\* The frames in the fifo are those after the ones handed out.
LEMMA FramesOfFifo ==
    ASSUME NEW f \in Seq(Tasks), NEW h \in Int, \A i \in 1..Len(f) : f[i].frame = h + i
    PROVE  {f[i].frame : i \in DOMAIN f} = h + 1..h + Len(f)
<1>1. Len(f) \in Nat /\ DOMAIN f = 1..Len(f)
  OBVIOUS
<1>2. ASSUME NEW k \in h + 1..h + Len(f) PROVE \E i \in 1..Len(f) : f[i].frame = k
  <2>1. k - h \in 1..Len(f) /\ h + (k - h) = k
    BY <1>1
  <2>. QED BY <2>1
<1>3. ASSUME NEW i \in 1..Len(f) PROVE f[i].frame \in h + 1..h + Len(f)
  BY <1>1
<1>. QED BY ONLY <1>1, <1>2, <1>3

LEMMA Numbers ==
    ASSUME Places
    PROVE  /\ sent \in Nat /\ Out \in Nat /\ Len(taskFifo) \in Nat /\ Handed \in Int
           /\ Handed = sent - Len(taskFifo) /\ Out <= Handed /\ Handed <= sent
           /\ sent - Out < BufferSize /\ BufferSize \in Nat /\ MaxFrames \in Nat
           /\ Queued = Handed + 1..sent
<1>1. /\ sent \in Nat /\ Out \in Nat /\ Len(taskFifo) \in Nat /\ Handed \in Int
      /\ Handed = sent - Len(taskFifo) /\ Out <= Handed /\ Handed <= sent
      /\ sent - Out < BufferSize /\ BufferSize \in Nat /\ MaxFrames \in Nat
  BY FrameEncoderAssumption DEF Places, Handed, Out, IndicesCount
<1>2. Queued = Handed + 1..Handed + Len(taskFifo)
  BY <1>1, FramesOfFifo DEF Places, FifoIsNext, Queued
<1>. QED BY <1>1, <1>2

LEMMA NoneIsNothing == None \notin Tasks /\ None \notin Results
<1>1. ASSUME None \in Tasks PROVE FALSE
  <2>1. None \in [frame : Nat, index : Nat]
    BY <1>1 DEF Tasks, Frames, Indices
  <2>. QED BY <2>1, FrameEncoderAssumption
<1>2. ASSUME None \in Results PROVE FALSE
  <2>1. None \in [frame : Nat, outcome : Outcomes]
    BY <1>2 DEF Results, Frames
  <2>. QED BY <2>1, FrameEncoderAssumption
<1>. QED BY <1>1, <1>2

LEMMA Implies == IInv => TypeOK /\ ReturnedInOrder /\ EofIsEnd
<1>. SUFFICES ASSUME IInv PROVE TypeOK /\ ReturnedInOrder /\ EofIsEnd
  OBVIOUS
<1>1. Places /\ Calls /\ Received
  BY DEF IInv
<1>2. /\ sent \in Nat /\ Out \in Nat /\ Len(taskFifo) \in Nat /\ Handed \in Int
      /\ Handed = sent - Len(taskFifo) /\ Out <= Handed /\ Handed <= sent
      /\ sent - Out < BufferSize /\ Queued = Handed + 1..sent
  BY <1>1, Numbers
<1>3. Pending = sent - Out
  BY <1>2, Distance DEF IInv, Places, IndicesCount, Pending
<1>4. taskIndex \in Indices /\ finishedIndex \in Indices
  BY <1>1 DEF Places, IndicesCount, IndexOf
<1>5. /\ refs = Queued \union Taken /\ refs \subseteq 1..sent
  <2>1. Taken \subseteq 1..sent
    BY <1>1, <1>2 DEF Places, TasksDiffer, Taken
  <2>2. Handed + 1..sent \subseteq 1..sent
    BY <1>2
  <2>. QED BY <1>1, <1>2, <2>1, <2>2 DEF Places
<1>6. /\ Len(taskFifo) <= threadCount + 1 /\ Out <= sent
      /\ Pending <= threadCount + (IF upc = "idle" THEN 0 ELSE 1)
  BY <1>1, <1>2, <1>3, FrameEncoderAssumption DEF Calls
<1>7. TypeOK
  BY <1>1, <1>3, <1>4, <1>5, <1>6 DEF TypeOK, Places, Calls, Received, Out
<1>. QED BY <1>1, <1>7 DEF Calls, Received, EofIsEnd

-----------------------------------------------------------------------------
(* The steps                                                               *)

\* Threads that come and go, sleep and wake, leave frames where they are.
LEMMA PlacesAreKept ==
    ASSUME Places, UNCHANGED <<taskFifo, results, taskIndex, task, sent, refs>>,
           \A w \in Workers : wpc'[w] = "encode" <=> wpc[w] = "encode"
    PROVE  Places'
<1>1. UNCHANGED <<taskFifo, finished, finishedIndex, outcome, taskIndex, task, sent, refs>>
  BY DEF results
<1>2. Handed' = Handed /\ Out' = Out /\ Taken' = Taken
  BY <1>1 DEF Handed, Out, Taken
<1>3. IndicesCount' /\ FifoIsNext'
  BY <1>1, <1>2 DEF Places, IndicesCount, FifoIsNext, IndexOf
<1>4. TasksDiffer' /\ ResultsInPlace'
  BY <1>1, <1>2 DEF Places, TasksDiffer, ResultsInPlace, IndexOf
<1>. QED BY <1>1, <1>2, <1>3, <1>4 DEF Places

LEMMA ReceivedIsKept ==
    ASSUME Received, UNCHANGED <<bufferPkt, got, outcome>> PROVE Received'
BY DEF Received, ReturnedInOrder, Packets

\* A worker without a frame looks at exit, or sleeps.
LEMMA IdleWorkerKeeps ==
    ASSUME IInv, NEW w \in Workers, Ends(w) \/ Sleeps(w),
           UNCHANGED <<finished, refs, upc, threadCount, finishedIndex, outcome, taskIndex, exit,
                       call, delay, draining, api, sent>>
    PROVE  IInv'
<1>1. /\ UNCHANGED <<taskFifo, task>> /\ wpc[w] = "loop"
      /\ wpc \in [Workers -> {"none", "loop", "asleep", "encode", "ended"}]
      /\ \E at \in {"ended", "asleep"} : wpc' = [wpc EXCEPT ![w] = at]
  BY DEF Ends, Sleeps, IInv, Calls
<1>2. /\ \A v \in Workers : wpc'[v] = "encode" <=> wpc[v] = "encode"
      /\ \A v \in Workers : wpc[v] = "none" => wpc'[v] = "none"
      /\ wpc' \in [Workers -> {"none", "loop", "asleep", "encode", "ended"}]
  BY <1>1
<1>3. Places'
  BY <1>1, <1>2, PlacesAreKept DEF IInv, results
<1>4. Calls'
  BY <1>2 DEF IInv, Calls, Collecting, EofIsEnd, Out, api
<1>5. Received'
  BY ReceivedIsKept DEF IInv, api
<1>. QED BY <1>3, <1>4, <1>5 DEF IInv

\* The frame that a worker takes is the first after those handed out.
LEMMA TakesTaskKeeps ==
    ASSUME IInv, NEW w \in Workers, TakesTask(w),
           UNCHANGED <<finished, refs, upc, threadCount, finishedIndex, outcome, taskIndex, exit,
                       call, delay, draining, api, sent>>
    PROVE  IInv'
<1>1. /\ Places /\ wpc[w] = "loop" /\ taskFifo # <<>> /\ taskFifo \in Seq(Tasks)
      /\ task \in [Workers -> Tasks \union {None}]
      /\ task' = [task EXCEPT ![w] = Head(taskFifo)] /\ taskFifo' = Tail(taskFifo)
      /\ wpc' = [wpc EXCEPT ![w] = "encode"]
      /\ wpc \in [Workers -> {"none", "loop", "asleep", "encode", "ended"}]
  BY DEF TakesTask, IInv, Places, Calls
<1>2. /\ sent \in Nat /\ Out \in Nat /\ Len(taskFifo) \in Nat /\ Handed \in Int
      /\ Handed = sent - Len(taskFifo) /\ Out <= Handed /\ Handed <= sent
  BY <1>1, Numbers
<1>3. /\ Head(taskFifo) = taskFifo[1] /\ Head(taskFifo) \in Tasks /\ Len(taskFifo) >= 1
      /\ taskFifo' \in Seq(Tasks) /\ Len(taskFifo') = Len(taskFifo) - 1
      /\ \A i \in 1..Len(taskFifo') : taskFifo'[i] = taskFifo[i + 1]
  BY <1>1
<1>4. /\ Head(taskFifo).frame = Handed + 1
      /\ IndexOf(Head(taskFifo).index, Head(taskFifo).frame - 1)
  BY <1>1, <1>3 DEF Places, FifoIsNext
<1>5. Handed' = Handed + 1 /\ Out' = Out /\ Handed' <= sent
  BY <1>2, <1>3 DEF Handed, Out
<1>6. /\ task'[w] = Head(taskFifo) /\ task'[w] # None /\ task[w] = None /\ wpc'[w] = "encode"
      /\ \A v \in Workers : v # w => task'[v] = task[v] /\ wpc'[v] = wpc[v]
  <2>1. task[w] = None
    BY <1>1 DEF Places, TasksDiffer
  <2>2. Head(taskFifo) # None
    BY <1>3, NoneIsNothing
  <2>. QED BY <1>1, <2>1, <2>2
<1>7. Taken' = Taken \union {Handed + 1}
  <2>1. ASSUME NEW k \in Taken' PROVE k \in Taken \union {Handed + 1}
    BY <1>4, <1>6, <2>1 DEF Taken
  <2>2. Handed + 1 \in Taken'
    BY <1>4, <1>6 DEF Taken
  <2>3. ASSUME NEW k \in Taken PROVE k \in Taken'
    BY <1>6, <2>3 DEF Taken
  <2>. QED BY <2>1, <2>2, <2>3
<1>8. refs' = (Handed' + 1..sent') \union Taken'
  <2>1. (Handed + 1..sent) = {Handed + 1} \union (Handed' + 1..sent)
    BY <1>2, <1>5
  <2>. QED BY <1>1, <1>7, <2>1 DEF Places
<1>9. task' \in [Workers -> Tasks \union {None}]
  BY <1>1, <1>3
<1>10. IndicesCount' /\ FifoIsNext'
  <2>1. IndicesCount'
    <3>1. IndexOf(taskIndex, sent) /\ IndexOf(finishedIndex, Out) /\ sent - Out < BufferSize
      BY <1>1 DEF Places, IndicesCount
    <3>2. Out' <= Handed' /\ sent' - Out' < BufferSize
      BY <1>2, <1>5, <3>1
    <3>. QED BY <1>5, <3>1, <3>2 DEF IndicesCount, IndexOf
  <2>2. ASSUME NEW i \in 1..Len(taskFifo')
        PROVE  /\ taskFifo'[i].frame = Handed' + i
               /\ IndexOf(taskFifo'[i].index, taskFifo'[i].frame - 1)
    <3>1. i + 1 \in 1..Len(taskFifo) /\ taskFifo'[i] = taskFifo[i + 1]
      BY <1>2, <1>3
    <3>2. /\ taskFifo[i + 1].frame = Handed + (i + 1)
          /\ IndexOf(taskFifo[i + 1].index, taskFifo[i + 1].frame - 1)
      BY <1>1, <3>1 DEF Places, FifoIsNext
    <3>. QED BY <1>2, <1>5, <3>1, <3>2
  <2>. QED BY <2>1, <2>2 DEF FifoIsNext, IndexOf
<1>11. TasksDiffer'
  <2>1. ASSUME NEW v \in Workers, v # w, task[v] # None
        PROVE  task[v].frame \in Out + 1..Handed /\ IndexOf(task[v].index, task[v].frame - 1)
    BY <1>1, <2>1 DEF Places, TasksDiffer
  <2>2. ASSUME NEW v \in Workers
        PROVE  /\ task'[v] # None <=> wpc'[v] = "encode"
               /\ task'[v] # None => /\ task'[v].frame \in Out' + 1..Handed'
                                     /\ IndexOf(task'[v].index, task'[v].frame - 1)
    <3>1. CASE v = w
      BY <1>2, <1>4, <1>5, <1>6, <3>1
    <3>2. CASE v # w
      <4>1. task[v] # None <=> wpc[v] = "encode"
        BY <1>1 DEF Places, TasksDiffer
      <4>. QED BY <1>2, <1>5, <1>6, <2>1, <3>2, <4>1
    <3>. QED BY <3>1, <3>2
  <2>3. ASSUME NEW v \in Workers, NEW u \in Workers, u # v, task'[u] # None, task'[v] # None
        PROVE  task'[u].frame # task'[v].frame
    <3>1. CASE u = w
      BY <1>2, <1>4, <1>6, <2>1, <2>3, <3>1
    <3>2. CASE v = w
      BY <1>2, <1>4, <1>6, <2>1, <2>3, <3>2
    <3>3. CASE u # w /\ v # w
      BY <1>1, <1>6, <2>3, <3>3 DEF Places, TasksDiffer
    <3>. QED BY <3>1, <3>2, <3>3
  <2>. QED BY <2>2, <2>3 DEF TasksDiffer, IndexOf
<1>12. ResultsInPlace'
  <2>1. ASSUME NEW i \in Indices, finished[i] # None
        PROVE  /\ finished[i].frame \in Out + 1..Handed /\ IndexOf(i, finished[i].frame - 1)
               /\ \A v \in Workers : task[v] # None => task[v].frame # finished[i].frame
    BY <1>1, <2>1 DEF Places, ResultsInPlace
  <2>2. ASSUME NEW i \in Indices, finished[i] # None, NEW v \in Workers, task'[v] # None
        PROVE  task'[v].frame # finished[i].frame
    BY <1>2, <1>4, <1>6, <2>1, <2>2
  <2>3. ASSUME NEW i \in Indices, finished[i] # None
        PROVE  finished[i].frame \in Out' + 1..Handed'
    BY <1>2, <1>5, <2>1, <2>3
  <2>4. ASSUME NEW i \in Indices, finished'[i] # None
        PROVE  /\ finished'[i].frame \in Out' + 1..Handed' /\ IndexOf(i, finished'[i].frame - 1)
               /\ \A v \in Workers : task'[v] # None => task'[v].frame # finished'[i].frame
    BY <2>1, <2>2, <2>3, <2>4
  <2>. QED BY <2>4 DEF ResultsInPlace, IndexOf
<1>13. Places'
  BY <1>1, <1>3, <1>8, <1>9, <1>10, <1>11, <1>12 DEF Places
<1>14. Calls'
  <2>1. /\ wpc' \in [Workers -> {"none", "loop", "asleep", "encode", "ended"}]
        /\ \A v \in Workers : wpc[v] = "none" => wpc'[v] = "none"
    BY <1>1
  <2>. QED BY <2>1 DEF IInv, Calls, Collecting, EofIsEnd, Out, api
<1>15. Received'
  BY ReceivedIsKept DEF IInv, api
<1>. QED BY <1>13, <1>14, <1>15 DEF IInv

\* The result of a worker's frame is stored where it belongs.
LEMMA EncodesKeeps ==
    ASSUME IInv, NEW w \in Workers, NEW o \in Outcomes, Encodes(w, o), UNCHANGED taskFifo,
           UNCHANGED <<threadCount, finishedIndex, outcome, taskIndex, exit,
                       call, delay, draining, api, sent>>
    PROVE  IInv'
<1>. DEFINE t == task[w]
            r == [frame |-> t.frame, outcome |-> o]
<1>1. /\ Places /\ wpc[w] = "encode"
      /\ refs' = refs \ {t.frame} /\ finished' = [finished EXCEPT ![t.index] = r]
      /\ task' = [task EXCEPT ![w] = None] /\ wpc' = [wpc EXCEPT ![w] = "loop"]
      /\ task \in [Workers -> Tasks \union {None}]
      /\ finished \in [Indices -> Results \union {None}]
      /\ wpc \in [Workers -> {"none", "loop", "asleep", "encode", "ended"}]
  BY DEF Encodes, Stores, IInv, Places, Calls
<1>2. /\ sent \in Nat /\ Out \in Nat /\ Len(taskFifo) \in Nat /\ Handed \in Int
      /\ Handed = sent - Len(taskFifo) /\ Out <= Handed /\ Handed <= sent
  BY <1>1, Numbers
<1>3. /\ t # None /\ t \in Tasks /\ t.frame \in Out + 1..Handed /\ IndexOf(t.index, t.frame - 1)
      /\ t.index \in Indices /\ t.frame \in Frames
  <2>1. t # None /\ t.frame \in Out + 1..Handed /\ IndexOf(t.index, t.frame - 1)
    BY <1>1 DEF Places, TasksDiffer
  <2>2. t \in Tasks
    BY <1>1, <2>1
  <2>. QED BY <2>1, <2>2 DEF Tasks
<1>4. r \in Results /\ r # None /\ r.frame = t.frame
  <2>1. r \in Results
    BY <1>3 DEF Results
  <2>. QED BY <2>1, NoneIsNothing
<1>. HIDE DEF r, t
<1>5. /\ finished'[t.index] = r /\ finished' \in [Indices -> Results \union {None}]
      /\ \A i \in Indices : i # t.index => finished'[i] = finished[i]
      /\ task'[w] = None /\ wpc'[w] = "loop" /\ task' \in [Workers -> Tasks \union {None}]
      /\ \A v \in Workers : v # w => task'[v] = task[v] /\ wpc'[v] = wpc[v]
  BY <1>1, <1>3, <1>4
<1>6. \A v \in Workers : v # w /\ task[v] # None => task[v].frame # t.frame
  BY <1>1, <1>3 DEF Places, TasksDiffer, t
<1>7. Handed' = Handed /\ Out' = Out
  BY DEF Handed, Out
<1>8. Taken' = Taken \ {t.frame}
  <2>1. ASSUME NEW k \in Taken' PROVE k \in Taken \ {t.frame}
    BY <1>5, <1>6, <2>1 DEF Taken
  <2>2. ASSUME NEW k \in Taken, k # t.frame PROVE k \in Taken'
    BY <1>5, <2>2 DEF Taken, t
  <2>. QED BY <2>1, <2>2
<1>9. refs' = (Handed' + 1..sent') \union Taken'
  <2>1. t.frame \notin Handed + 1..sent
    BY <1>2, <1>3
  <2>. QED BY <1>1, <1>7, <1>8, <2>1 DEF Places
<1>10. IndicesCount' /\ FifoIsNext'
  BY <1>1, <1>7 DEF Places, IndicesCount, FifoIsNext, IndexOf
<1>11. TasksDiffer'
  <2>1. ASSUME NEW v \in Workers, v # w
        PROVE  /\ task[v] # None <=> wpc[v] = "encode"
               /\ task[v] # None => /\ task[v].frame \in Out + 1..Handed
                                    /\ IndexOf(task[v].index, task[v].frame - 1)
               /\ \A u \in Workers : u # v /\ task[u] # None /\ task[v] # None
                                     => task[u].frame # task[v].frame
    BY <1>1, <2>1 DEF Places, TasksDiffer
  <2>2. ASSUME NEW v \in Workers
        PROVE  /\ task'[v] # None <=> wpc'[v] = "encode"
               /\ task'[v] # None => /\ task'[v].frame \in Out' + 1..Handed'
                                     /\ IndexOf(task'[v].index, task'[v].frame - 1)
               /\ \A u \in Workers : u # v /\ task'[u] # None /\ task'[v] # None
                                     => task'[u].frame # task'[v].frame
    BY <1>5, <1>7, <2>1
  <2>. QED BY <2>2 DEF TasksDiffer, IndexOf
<1>12. ResultsInPlace'
  <2>1. ASSUME NEW i \in Indices, finished[i] # None
        PROVE  /\ finished[i].frame \in Out + 1..Handed /\ IndexOf(i, finished[i].frame - 1)
               /\ \A v \in Workers : task[v] # None => task[v].frame # finished[i].frame
    BY <1>1, <2>1 DEF Places, ResultsInPlace
  <2>2. ASSUME NEW i \in Indices, finished'[i] # None
        PROVE  /\ finished'[i].frame \in Out' + 1..Handed' /\ IndexOf(i, finished'[i].frame - 1)
               /\ \A v \in Workers : task'[v] # None => task'[v].frame # finished'[i].frame
    <3>1. CASE i = t.index
      BY <1>3, <1>4, <1>5, <1>6, <1>7, <3>1
    <3>2. CASE i # t.index
      BY <1>5, <1>7, <2>1, <2>2, <3>2
    <3>. QED BY <3>1, <3>2
  <2>. QED BY <2>2 DEF ResultsInPlace, IndexOf
<1>13. Places'
  BY <1>1, <1>5, <1>9, <1>10, <1>11, <1>12 DEF Places
<1>14. Calls'
  <2>1. /\ wpc' \in [Workers -> {"none", "loop", "asleep", "encode", "ended"}]
        /\ \A v \in Workers : wpc[v] = "none" => wpc'[v] = "none"
    BY <1>1
  <2>2. /\ upc' \in {"init", "idle", "collect", "asleep", "awake", "join", "freed"}
        /\ Collecting' = Collecting /\ (upc' = "idle" <=> upc = "idle")
    BY DEF Encodes, SignalsUser, IInv, Calls, Collecting
  <2>. QED BY <2>1, <2>2 DEF IInv, Calls, EofIsEnd, Out, api
<1>15. Received'
  BY ReceivedIsKept DEF IInv, api
<1>. QED BY <1>13, <1>14, <1>15 DEF IInv

LEMMA CreateWorkerKeeps ==
    ASSUME IInv, CreateWorker PROVE IInv'
<1>. USE DEF api
<1>1. /\ UNCHANGED <<taskFifo, results, taskIndex, exit, task, call, delay, draining, api,
                     sent, refs>>
      /\ upc = "init" /\ threadCount < Threads /\ threadCount \in 0..Threads
      /\ wpc' = [wpc EXCEPT ![threadCount] = "loop"] /\ threadCount' = threadCount + 1
      /\ upc' = IF threadCount' = Threads THEN "idle" ELSE "init"
      /\ wpc \in [Workers -> {"none", "loop", "asleep", "encode", "ended"}]
      /\ \A w \in Workers : w >= threadCount => wpc[w] = "none"
      /\ Places /\ sent - Out <= threadCount + 1
      /\ sent \in Nat /\ Out \in Nat /\ Threads \in Nat
  BY Numbers, FrameEncoderAssumption DEF IInv, Calls, CreateWorker
<1>2. threadCount \in Workers /\ threadCount' \in 0..Threads
  BY <1>1 DEF Workers
<1>3. /\ wpc' \in [Workers -> {"none", "loop", "asleep", "encode", "ended"}]
      /\ \A w \in Workers : w >= threadCount' => wpc'[w] = "none"
      /\ \A w \in Workers : wpc'[w] = "encode" <=> wpc[w] = "encode"
  <2>1. \A w \in Workers : w >= threadCount' => w >= threadCount /\ w # threadCount
    BY <1>1 DEF Workers
  <2>2. wpc[threadCount] = "none"
    BY <1>1, <1>2 DEF Workers
  <2>. QED BY <1>1, <1>2, <2>1, <2>2
<1>4. Places'
  BY <1>1, <1>3, PlacesAreKept
<1>5. Out' = Out /\ sent' - Out' <= threadCount' + (IF upc' = "idle" THEN 0 ELSE 1)
  BY <1>1 DEF Out, results
<1>6. Calls'
  BY <1>1, <1>2, <1>3, <1>5 DEF IInv, Calls, Collecting, EofIsEnd, Out, results
<1>7. Received'
  BY <1>1, ReceivedIsKept DEF IInv, results
<1>. QED BY <1>4, <1>6, <1>7 DEF IInv

\* Waking changes no worker that is not asleep.
LEMMA WorkersWake ==
    ASSUME IInv,
           \/ SignalsWorker
           \/ wpc' = [w \in Workers |-> IF w \in Asleep THEN "loop" ELSE wpc[w]]
           \/ \E w \in Asleep : wpc' = [wpc EXCEPT ![w] = "loop"]
           \/ UNCHANGED wpc
    PROVE  /\ wpc' \in [Workers -> {"none", "loop", "asleep", "encode", "ended"}]
           /\ \A w \in Workers : wpc[w] = "none" => wpc'[w] = "none"
           /\ \A w \in Workers : wpc'[w] = "encode" <=> wpc[w] = "encode"
<1>1. wpc \in [Workers -> {"none", "loop", "asleep", "encode", "ended"}]
  BY DEF IInv, Calls
<1>. QED BY <1>1 DEF SignalsWorker, Asleep

LEMMA FreeKeeps ==
    ASSUME IInv, Free PROVE IInv'
<1>. USE DEF Free, StartsFree, api
<1>1. /\ wpc' \in [Workers -> {"none", "loop", "asleep", "encode", "ended"}]
      /\ \A w \in Workers : wpc[w] = "none" => wpc'[w] = "none"
      /\ \A w \in Workers : wpc'[w] = "encode" <=> wpc[w] = "encode"
  BY WorkersWake
<1>2. Places'
  BY <1>1, PlacesAreKept DEF IInv
<1>3. Out' = Out /\ (sent - Out <= threadCount + 1)
  BY Numbers, FrameEncoderAssumption DEF IInv, Calls, Out, results
<1>4. Calls'
  BY <1>1, <1>3 DEF IInv, Calls, Collecting, EofIsEnd, Out, results
<1>5. Received'
  BY ReceivedIsKept DEF IInv, results
<1>. QED BY <1>2, <1>4, <1>5 DEF IInv

LEMMA SpuriousWakeupKeeps ==
    ASSUME IInv, SpuriousWakeup PROVE IInv'
<1>. USE DEF SpuriousWakeup, api
<1>1. /\ wpc' \in [Workers -> {"none", "loop", "asleep", "encode", "ended"}]
      /\ \A w \in Workers : wpc[w] = "none" => wpc'[w] = "none"
      /\ \A w \in Workers : wpc'[w] = "encode" <=> wpc[w] = "encode"
  BY WorkersWake
<1>2. Places'
  BY <1>1, PlacesAreKept DEF IInv
<1>3. upc' = upc \/ (upc = "asleep" /\ upc' = "awake")
  OBVIOUS
<1>4. Calls'
  BY <1>1, <1>3 DEF IInv, Calls, Collecting, EofIsEnd, Out, results
<1>5. Received'
  BY ReceivedIsKept DEF IInv, results
<1>. QED BY <1>2, <1>4, <1>5 DEF IInv

\* Who has ended has no frame; those of the fifo are freed with it.
LEMMA JoinedKeeps ==
    ASSUME IInv, Joined PROVE IInv'
<1>. USE DEF Joined, workers, api
<1>1. Places /\ taskFifo' = <<>> /\ finished' = [i \in Indices |-> None] /\ upc = "join"
  BY DEF IInv
<1>2. /\ sent \in Nat /\ Out \in Nat /\ Len(taskFifo) \in Nat /\ Handed \in Int
      /\ Handed = sent - Len(taskFifo) /\ Out <= Handed /\ Handed <= sent
      /\ Queued = Handed + 1..sent
  BY <1>1, Numbers
<1>3. Handed' = sent /\ Out' = Out /\ Taken' = Taken
  BY <1>1, <1>2 DEF Handed, Out, Taken
<1>4. ASSUME NEW w \in Workers, task[w] # None
      PROVE  task[w].frame \in Out + 1..Handed /\ task[w].frame \in Out + 1..sent
  <2>1. task[w].frame \in Out + 1..Handed
    BY <1>1, <1>4 DEF Places, TasksDiffer
  <2>. QED BY <1>2, <2>1
<1>5. refs' = (Handed' + 1..sent') \union Taken'
  <2>1. \A k \in Taken : k \notin Handed + 1..sent
    BY <1>2, <1>4 DEF Taken
  <2>2. (Handed' + 1..sent') = {}
    BY <1>2, <1>3
  <2>. QED BY <1>1, <1>2, <1>3, <2>1, <2>2 DEF Places
<1>6. IndicesCount' /\ FifoIsNext'
  <2>1. IndexOf(taskIndex, sent) /\ IndexOf(finishedIndex, Out) /\ sent - Out < BufferSize
    BY <1>1 DEF Places, IndicesCount
  <2>2. IndicesCount'
    <3>1. Out' <= Handed' /\ sent' - Out' < BufferSize
      BY <1>2, <1>3, <2>1
    <3>. QED BY <1>3, <2>1, <3>1 DEF IndicesCount, IndexOf
  <2>3. 1..Len(taskFifo') = {}
    BY <1>1
  <2>. QED BY <2>2, <2>3 DEF FifoIsNext
<1>7. TasksDiffer'
  BY <1>1, <1>3, <1>4 DEF Places, TasksDiffer, IndexOf
<1>8. ResultsInPlace'
  BY <1>1 DEF ResultsInPlace
<1>9. finished' \in [Indices -> Results \union {None}] /\ taskFifo' \in Seq(Tasks)
  BY <1>1
<1>10. Places'
  BY <1>1, <1>5, <1>6, <1>7, <1>8, <1>9 DEF Places
<1>11. Calls'
  BY <1>1 DEF IInv, Calls, Collecting, EofIsEnd, Out
<1>12. Received'
  BY ReceivedIsKept DEF IInv
<1>. QED BY <1>10, <1>11, <1>12 DEF IInv

\* A frame is queued behind the others, with the next index.
LEMMA SendFrameKeeps ==
    ASSUME IInv, SendFrame PROVE IInv'
<1>. USE DEF api
<1>. DEFINE t == [frame |-> sent + 1, index |-> taskIndex]
<1>1. /\ UNCHANGED <<threadCount, results, exit, task, delay, draining, api>>
      /\ upc = "idle" /\ ~draining /\ bufferPkt = None /\ sent < MaxFrames
      /\ sent' = sent + 1 /\ refs' = refs \union {sent + 1} /\ SignalsWorker
      /\ taskFifo' = Append(taskFifo, t) /\ taskIndex' = (taskIndex + 1) % BufferSize
      /\ upc' = "collect" /\ call' = [frame |-> TRUE, receives |-> FALSE]
      /\ Places /\ threadCount \in 0..Threads /\ sent - Out <= threadCount
  BY FrameEncoderAssumption DEF SendFrame, IInv, Calls
<1>2. /\ sent \in Nat /\ Out \in Nat /\ Len(taskFifo) \in Nat /\ Handed \in Int
      /\ Handed = sent - Len(taskFifo) /\ Out <= Handed /\ Handed <= sent
      /\ MaxFrames \in Nat /\ threadCount \in Nat
  BY <1>1, Numbers, FrameEncoderAssumption
<1>3. /\ IndexOf(taskIndex, sent) /\ IndexOf(finishedIndex, Out)
      /\ taskIndex \in Indices
  BY <1>1 DEF Places, IndicesCount, IndexOf
<1>4. /\ t \in Tasks /\ sent + 1 \in Frames /\ sent + 1 \in 0..MaxFrames
  BY <1>1, <1>2, <1>3 DEF Tasks, Frames
<1>5. /\ taskFifo' \in Seq(Tasks) /\ Len(taskFifo') = Len(taskFifo) + 1
      /\ \A i \in 1..Len(taskFifo) : taskFifo'[i] = taskFifo[i]
      /\ taskFifo'[Len(taskFifo) + 1] = t
  <2>. HIDE DEF t
  <2>1. taskFifo \in Seq(Tasks)
    BY <1>1 DEF Places
  <2>. QED BY <1>1, <1>4, <2>1
<1>6. Handed' = Handed /\ Out' = Out /\ Taken' = Taken
  BY <1>1, <1>2, <1>5 DEF Handed, Out, Taken, results
<1>7. IndexOf(taskIndex', sent')
  BY <1>1, <1>2, <1>3, NextIndex
<1>8. sent' - Out' < BufferSize /\ Out' <= Handed'
  BY <1>1, <1>2, <1>6, FrameEncoderAssumption
<1>9. IndicesCount'
  <2>1. IndexOf(finishedIndex, Out)'
    BY <1>1, <1>3, <1>6 DEF IndexOf, results
  <2>. QED BY <1>7, <1>8, <2>1 DEF IndicesCount, IndexOf
<1>10. FifoIsNext'
  <2>1. ASSUME NEW i \in 1..Len(taskFifo')
        PROVE  /\ taskFifo'[i].frame = Handed' + i
               /\ IndexOf(taskFifo'[i].index, taskFifo'[i].frame - 1)
    <3>1. CASE i \in 1..Len(taskFifo)
      BY <1>1, <1>5, <1>6, <3>1 DEF Places, FifoIsNext
    <3>2. CASE i = Len(taskFifo) + 1
      <4>1. t.frame = Handed + i /\ t.frame - 1 = sent /\ t.index = taskIndex
        BY <1>2, <3>2
      <4>. HIDE DEF t
      <4>. QED BY <1>3, <1>5, <1>6, <3>2, <4>1
    <3>. QED BY <1>2, <1>5, <3>1, <3>2
  <2>. QED BY <2>1 DEF FifoIsNext, IndexOf
<1>11. TasksDiffer'
  <2>1. \A w \in Workers : wpc'[w] = "encode" <=> wpc[w] = "encode"
    BY <1>1, WorkersWake
  <2>. QED BY <1>1, <1>6, <2>1 DEF Places, TasksDiffer, IndexOf
<1>12. ResultsInPlace'
  BY <1>1, <1>6 DEF Places, ResultsInPlace, IndexOf, results
<1>13. refs' = (Handed' + 1..sent') \union Taken'
  <2>1. Handed + 1..sent + 1 = (Handed + 1..sent) \union {sent + 1}
    BY <1>2
  <2>. QED BY <1>1, <1>6, <2>1 DEF Places
<1>14. Places'
  BY <1>1, <1>4, <1>5, <1>9, <1>10, <1>11, <1>12, <1>13 DEF Places, results
<1>15. Calls'
  <2>1. /\ wpc' \in [Workers -> {"none", "loop", "asleep", "encode", "ended"}]
        /\ \A w \in Workers : wpc[w] = "none" => wpc'[w] = "none"
    BY <1>1, WorkersWake
  <2>2. sent' - Out' <= threadCount' + 1
    BY <1>1, <1>2, <1>6
  <2>3. ~eof
    BY <1>1 DEF IInv, Calls
  <2>. QED BY <1>1, <2>1, <2>2, <2>3 DEF IInv, Calls, Collecting
<1>16. Received'
  BY <1>1, ReceivedIsKept DEF IInv, results
<1>. QED BY <1>14, <1>15, <1>16 DEF IInv

\* The calls without a frame leave everything in its place.
LEMMA SendEofKeeps ==
    ASSUME IInv, SendEof PROVE IInv'
<1>. USE DEF SendEof, api, workers
<1>1. Places'
  BY PlacesAreKept DEF IInv
<1>2. upc = "idle" /\ sent - Out <= threadCount /\ Out' = Out
      /\ sent' - Out' <= threadCount' + (IF upc' = "idle" THEN 0 ELSE 1)
  <2>1. sent \in Nat /\ Out \in Nat /\ threadCount \in Int /\ sent - Out <= threadCount
    BY Numbers, FrameEncoderAssumption DEF IInv, Calls
  <2>. QED BY <2>1 DEF Out, results
<1>3. Calls'
  <2>1. eof' => draining' /\ EofIsEnd'
    BY DEF IInv, Calls, EofIsEnd, results
  <2>2. /\ call' \in [frame : BOOLEAN, receives : BOOLEAN]
        /\ upc' \in {"idle", "collect"} /\ draining' = TRUE
        /\ Collecting' => bufferPkt' = None /\ call'.receives = FALSE
    <3>1. CASE delay /\ bufferPkt = None
      <4>1. /\ upc' = "collect" /\ draining' = TRUE /\ bufferPkt' = None
            /\ call' = [frame |-> FALSE, receives |-> FALSE]
        BY <3>1 DEF NoCall
      <4>. QED BY <4>1 DEF Collecting
    <3>2. CASE ~(delay /\ bufferPkt = None)
      BY <1>2, <3>2 DEF IInv, Calls, Collecting
    <3>. QED BY <3>1, <3>2
  <2>3. /\ UNCHANGED <<threadCount, exit, wpc, delay, eof>>
        /\ threadCount \in 0..Threads /\ exit \in BOOLEAN /\ delay \in BOOLEAN /\ eof \in BOOLEAN
        /\ wpc \in [Workers -> {"none", "loop", "asleep", "encode", "ended"}]
        /\ \A w \in Workers : w >= threadCount => wpc[w] = "none"
    BY DEF IInv, Calls
  <2>. QED BY <1>2, <2>1, <2>2, <2>3 DEF Calls
<1>4. Received'
  BY ReceivedIsKept DEF IInv, results
<1>. QED BY <1>1, <1>3, <1>4 DEF IInv

\* What a user receives from buffer_pkt was the last packet.
LEMMA ReceivePacketKeeps ==
    ASSUME IInv, ReceivePacket PROVE IInv'
<1>. USE DEF api, workers
<1>1. /\ UNCHANGED <<threadCount, taskFifo, results, taskIndex, exit, workers, delay,
                     draining, sent, refs>>
      /\ upc = "idle" /\ UNCHANGED eof
      /\ \/ /\ upc' = upc /\ call' = call
         \/ /\ upc' = "collect" /\ call' = [frame |-> FALSE, receives |-> TRUE] /\ draining
            /\ bufferPkt = None /\ bufferPkt' = None
  BY DEF ReceivePacket, ReceiveBuffered, ReceiveDrains
<1>2. Places'
  BY <1>1, PlacesAreKept DEF IInv
<1>3. Out' = Out /\ sent' - Out' <= threadCount' + (IF upc' = "idle" THEN 0 ELSE 1)
  <2>1. sent \in Nat /\ Out \in Nat /\ threadCount \in Int /\ sent - Out <= threadCount
    BY <1>1, Numbers, FrameEncoderAssumption DEF IInv, Calls
  <2>. QED BY <1>1, <2>1 DEF Out, results
<1>4. Calls'
  <2>1. eof' => draining' /\ EofIsEnd'
    BY <1>1 DEF IInv, Calls, EofIsEnd, results
  <2>2. /\ call' \in [frame : BOOLEAN, receives : BOOLEAN]
        /\ upc' \in {"idle", "collect"}
        /\ Collecting' => bufferPkt' = None /\ draining' /\ call'.frame = FALSE
    <3>1. CASE upc' = upc /\ call' = call
      BY <1>1, <3>1 DEF IInv, Calls, Collecting
    <3>2. CASE /\ upc' = "collect" /\ call' = [frame |-> FALSE, receives |-> TRUE]
               /\ draining /\ bufferPkt' = None
      <4>1. draining'
        BY <1>1, <3>2
      <4>. QED BY <3>2, <4>1
    <3>. QED BY <1>1, <3>1, <3>2
  <2>3. /\ UNCHANGED <<threadCount, exit, wpc, delay, draining, eof>>
        /\ threadCount \in 0..Threads /\ exit \in BOOLEAN /\ delay \in BOOLEAN /\ eof \in BOOLEAN
        /\ draining \in BOOLEAN
        /\ wpc \in [Workers -> {"none", "loop", "asleep", "encode", "ended"}]
        /\ \A w \in Workers : w >= threadCount => wpc[w] = "none"
    BY <1>1 DEF IInv, Calls
  <2>. QED BY <1>3, <2>1, <2>2, <2>3 DEF Calls
<1>5. Received'
  <2>1. /\ bufferPkt \in Frames \union {None} /\ got \in Seq(Frames)
        /\ None \notin Frames
    BY FrameEncoderAssumption DEF IInv, Received, Frames
  <2>2. CASE ReceiveBuffered
    <3>1. /\ bufferPkt # None /\ bufferPkt' = None /\ got' = Append(got, bufferPkt)
          /\ bufferPkt \in Frames
      BY <2>1, <2>2 DEF ReceiveBuffered
    <3>2. Packets' = Packets /\ got' \in Seq(Frames)
      BY <2>1, <3>1 DEF Packets
    <3>. QED BY <1>1, <3>1, <3>2 DEF IInv, Received, ReturnedInOrder, results
  <2>3. CASE ReceiveDrains
    BY <1>1, <2>3, ReceivedIsKept DEF IInv, ReceiveDrains, results
  <2>. QED BY <2>2, <2>3 DEF ReceivePacket
<1>. QED BY <1>2, <1>4, <1>5 DEF IInv

LEMMA WaitsKeeps ==
    ASSUME IInv, Waits,
           UNCHANGED <<threadCount, taskFifo, taskIndex, exit, workers, delay, draining, sent, refs>>
    PROVE  IInv'
<1>. USE DEF Waits, api, workers
<1>1. Places'
  BY PlacesAreKept DEF IInv
<1>2. Collecting /\ upc' = "asleep" /\ upc # "idle" /\ UNCHANGED <<bufferPkt, call, eof, draining>>
  BY DEF Collecting
<1>3. eof' => draining' /\ EofIsEnd'
  BY DEF IInv, Calls, EofIsEnd, results
<1>4. Out' = Out /\ sent' - Out' <= threadCount' + (IF upc' = "idle" THEN 0 ELSE 1)
  BY <1>2 DEF IInv, Calls, Out, results
<1>5. Calls'
  BY <1>2, <1>3, <1>4 DEF IInv, Calls, Collecting
<1>6. Received'
  BY ReceivedIsKept DEF IInv, results
<1>. QED BY <1>1, <1>5, <1>6 DEF IInv

\* A call without a frame returns nothing only when nothing is on its way.
LEMMA ReturnsNothingKeeps ==
    ASSUME IInv, ReturnsNothing,
           UNCHANGED <<threadCount, taskFifo, taskIndex, exit, workers, delay, draining, sent, refs>>
    PROVE  IInv'
<1>. USE DEF api, workers
<1>1. /\ upc = "collect" /\ NothingYet /\ Collecting /\ upc' = "idle" /\ call' = NoCall
      /\ UNCHANGED <<results, bufferPkt, got>>
      /\ eof' = (eof \/ call.receives)
      /\ Places /\ Calls
  BY DEF ReturnsNothing, Returns, Collecting, IInv, Calls
<1>2. Places'
  BY <1>1, PlacesAreKept
<1>3. /\ sent \in Nat /\ Out \in Nat /\ Out <= sent /\ sent - Out < BufferSize
      /\ threadCount \in Nat
  BY <1>1, Numbers, FrameEncoderAssumption DEF Calls
<1>4. Pending = sent - Out /\ (taskIndex = finishedIndex <=> sent = Out)
  <2>1. IndexOf(taskIndex, sent) /\ IndexOf(finishedIndex, Out)
    BY <1>1 DEF Places, IndicesCount
  <2>2. Out <= sent /\ sent \in Int /\ Out \in Int /\ sent - Out < BufferSize
    BY <1>3
  <2>3. (taskIndex - finishedIndex) % BufferSize = sent - Out
    BY ONLY <2>1, <2>2, Distance
  <2>4. (taskIndex = finishedIndex => sent = Out) /\ (sent = Out => taskIndex = finishedIndex)
    BY ONLY <2>1, <2>2, Distance
  <2>. QED BY <2>3, <2>4 DEF Pending
<1>5. sent - Out <= threadCount
  BY <1>1, <1>3, <1>4 DEF NothingYet
<1>6. call.receives => sent = Out /\ draining
  BY <1>1, <1>4 DEF NothingYet, Calls
<1>7. Out' = Out /\ sent' = sent /\ outcome' = outcome
  BY <1>1 DEF Out, results
<1>8. eof' => draining' /\ EofIsEnd'
  <2>1. CASE eof
    BY <1>1, <1>7, <2>1 DEF Calls, EofIsEnd
  <2>2. CASE call.receives
    BY <1>6, <1>7, <2>2 DEF EofIsEnd, Out
  <2>. QED BY <1>1, <2>1, <2>2
<1>9. Calls'
  <2>1. /\ call' \in [frame : BOOLEAN, receives : BOOLEAN] /\ ~Collecting'
    BY <1>1 DEF NoCall, Collecting
  <2>2. eof' \in BOOLEAN
    BY <1>1 DEF Calls
  <2>3. sent' - Out' <= threadCount' + (IF upc' = "idle" THEN 0 ELSE 1)
    BY <1>1, <1>3, <1>5, <1>7
  <2>. QED BY <1>1, <1>8, <2>1, <2>2, <2>3 DEF Calls
<1>10. Received'
  BY <1>1, ReceivedIsKept DEF IInv, results
<1>. QED BY <1>2, <1>9, <1>10 DEF IInv

\* The result that is taken is that of the frame after those returned.
LEMMA OldestIsNext ==
    ASSUME Places, finished[finishedIndex] # None
    PROVE  /\ finishedIndex \in Indices /\ finished[finishedIndex] \in Results
           /\ finished[finishedIndex].frame = Out + 1 /\ Out + 1 <= Handed
           /\ \A w \in Workers : task[w] # None => task[w].frame # Out + 1
           /\ \A i \in Indices : i # finishedIndex /\ finished[i] # None
                                 => finished[i].frame # Out + 1
<1>1. /\ sent \in Nat /\ Out \in Nat /\ Handed \in Int /\ Out <= Handed /\ Handed <= sent
      /\ sent - Out < BufferSize /\ BufferSize \in Nat
  BY Numbers
<1>2. finishedIndex \in Indices /\ IndexOf(finishedIndex, Out)
  BY DEF Places, IndicesCount, IndexOf
<1>3. finished[finishedIndex] \in Results
  BY <1>2 DEF Places
<1>4. ASSUME NEW i \in Indices, finished[i] # None
      PROVE  /\ finished[i].frame \in Out + 1..Handed
             /\ i = finishedIndex <=> finished[i].frame = Out + 1
  <2>1. finished[i].frame \in Out + 1..Handed /\ IndexOf(i, finished[i].frame - 1)
    BY <1>4 DEF Places, ResultsInPlace
  <2>2. /\ finished[i].frame - 1 \in Int /\ Out \in Int /\ Out <= finished[i].frame - 1
        /\ (finished[i].frame - 1) - Out < BufferSize
    BY <1>1, <2>1
  <2>3. i = finishedIndex <=> finished[i].frame - 1 = Out
    <3>. DEFINE k == finished[i].frame - 1
    <3>1. k \in Int /\ Out \in Int /\ Out <= k /\ k - Out < BufferSize /\ IndexOf(i, k)
      BY <2>1, <2>2
    <3>. HIDE DEF k
    <3>2. i = finishedIndex <=> k = Out
      BY <1>2, <3>1, Distance
    <3>. QED BY <3>2 DEF k
  <2>. QED BY <1>1, <2>1, <2>3
<1>5. /\ finished[finishedIndex].frame = Out + 1 /\ Out + 1 <= Handed
  BY <1>1, <1>2, <1>4
<1>6. \A w \in Workers : task[w] # None => task[w].frame # Out + 1
  BY <1>2, <1>5 DEF Places, ResultsInPlace
<1>. QED BY <1>2, <1>3, <1>4, <1>5, <1>6

\* A packet is received, or kept, after all before.
LEMMA PacketIsLast ==
    ASSUME Received, NEW k \in Frames, k = Out + 1, bufferPkt = None,
           outcome \in Seq(Results),
           NEW r \in Results, r.frame = k, outcome' = Append(outcome, r), r.outcome = "packet",
           \/ got' = Append(got, k) /\ bufferPkt' = bufferPkt
           \/ got' = got /\ bufferPkt' = k
    PROVE  Received'
<1>1. /\ got \in Seq(Frames) /\ None \notin Frames /\ Out \in Nat
      /\ DOMAIN outcome = 1..Out /\ Len(got) \in Nat
  BY FrameEncoderAssumption DEF Received, Frames, Out
<1>2. /\ outcome' \in Seq(Results) /\ DOMAIN outcome' = 1..k
      /\ outcome'[k] = r /\ \A i \in 1..Out : outcome'[i] = outcome[i]
  BY <1>1 DEF Out
<1>3. Packets = got
  BY <1>1 DEF Packets
<1>4. Packets' = Append(got, k) /\ got' \in Seq(Frames)
  <2>1. CASE got' = Append(got, k) /\ bufferPkt' = bufferPkt
    <3>1. Append(got, k) \in Seq(Frames)
      BY <1>1
    <3>2. Append(got, k) \o <<>> = Append(got, k)
      BY <3>1
    <3>. QED BY <2>1, <3>1, <3>2 DEF Packets
  <2>2. CASE got' = got /\ bufferPkt' = k
    <3>1. got \o <<k>> = Append(got, k)
      BY <1>1
    <3>2. k # None
      BY <1>1
    <3>. QED BY <1>1, <2>2, <3>1, <3>2 DEF Packets
  <2>. QED BY <2>1, <2>2
<1>5. /\ DOMAIN Packets' = 1..Len(got) + 1 /\ Packets'[Len(got) + 1] = k
      /\ DOMAIN Packets = 1..Len(got)
      /\ \A i \in 1..Len(got) : Packets'[i] = got[i] /\ Packets[i] = got[i]
  BY <1>1, <1>3, <1>4
<1>6. /\ \A i \in DOMAIN outcome : outcome[i].frame = i
      /\ \A i, j \in DOMAIN Packets : i < j => Packets[i] < Packets[j]
      /\ \A m \in DOMAIN outcome :
            outcome[m].outcome = "packet" <=> \E i \in DOMAIN Packets : Packets[i] = m
      /\ \A i \in DOMAIN Packets : Packets[i] \in DOMAIN outcome
  BY DEF Received, ReturnedInOrder
<1>7. \A i \in DOMAIN outcome' : outcome'[i].frame = i
  BY <1>1, <1>2, <1>6
<1>8. ASSUME NEW i \in DOMAIN Packets', NEW j \in DOMAIN Packets', i < j
      PROVE  Packets'[i] < Packets'[j]
  <2>1. CASE j = Len(got) + 1
    <3>1. i \in 1..Len(got) /\ Packets[i] \in 1..Out
      BY <1>1, <1>5, <1>6, <1>8, <2>1
    <3>. QED BY <1>1, <1>5, <2>1, <3>1
  <2>2. CASE j # Len(got) + 1
    <3>1. i \in 1..Len(got) /\ j \in 1..Len(got)
      BY <1>1, <1>5, <1>8, <2>2
    <3>. QED BY <1>5, <1>6, <1>8, <3>1
  <2>. QED BY <2>1, <2>2
<1>9. ASSUME NEW m \in DOMAIN outcome'
      PROVE  outcome'[m].outcome = "packet" <=> \E i \in DOMAIN Packets' : Packets'[i] = m
  <2>1. CASE m = k
    <3>1. Len(got) + 1 \in DOMAIN Packets'
      BY <1>1, <1>5
    <3>. QED BY <1>2, <1>5, <2>1, <3>1
  <2>2. CASE m # k
    <3>1. m \in 1..Out /\ outcome'[m] = outcome[m]
      BY <1>1, <1>2, <1>9, <2>2
    <3>2. (\E i \in DOMAIN Packets' : Packets'[i] = m) <=> \E i \in DOMAIN Packets : Packets[i] = m
      <4>1. ASSUME NEW i \in DOMAIN Packets', Packets'[i] = m
            PROVE  \E j \in DOMAIN Packets : Packets[j] = m
        <5>1. i # Len(got) + 1
          BY <1>5, <2>2, <4>1
        <5>2. i \in 1..Len(got)
          BY <1>1, <1>5, <5>1
        <5>. QED BY <1>5, <4>1, <5>2
      <4>2. ASSUME NEW j \in DOMAIN Packets, Packets[j] = m
            PROVE  \E i \in DOMAIN Packets' : Packets'[i] = m
        <5>1. j \in 1..Len(got) /\ j \in 1..Len(got) + 1
          BY <1>1, <1>5
        <5>. QED BY <1>5, <4>2, <5>1
      <4>. QED BY <4>1, <4>2
    <3>. QED BY <1>1, <1>6, <3>1, <3>2
  <2>. QED BY <2>1, <2>2
<1>10. ASSUME NEW i \in DOMAIN Packets' PROVE Packets'[i] \in DOMAIN outcome'
  <2>1. CASE i = Len(got) + 1
    BY <1>1, <1>2, <1>5, <2>1
  <2>2. CASE i # Len(got) + 1
    <3>1. i \in 1..Len(got) /\ Packets[i] \in 1..Out
      BY <1>1, <1>5, <1>6, <1>10, <2>2
    <3>. QED BY <1>1, <1>2, <1>5, <3>1
  <2>. QED BY <2>1, <2>2
<1>. QED BY <1>1, <1>4, <1>7, <1>8, <1>9, <1>10 DEF Received, ReturnedInOrder

\* ... and what is not one changes nothing.
LEMMA NoPacket ==
    ASSUME Received, outcome \in Seq(Results), UNCHANGED <<got, bufferPkt>>,
           NEW r \in Results, r.frame = Out + 1, r.outcome # "packet",
           outcome' = Append(outcome, r)
    PROVE  Received'
<1>1. Out \in Nat /\ DOMAIN outcome = 1..Out
  BY DEF Out
<1>2. /\ DOMAIN outcome' = 1..Out + 1
      /\ outcome'[Out + 1] = r /\ \A i \in 1..Out : outcome'[i] = outcome[i]
  BY <1>1 DEF Out
<1>3. Packets' = Packets
  BY DEF Packets
<1>4. /\ \A i \in DOMAIN outcome : outcome[i].frame = i
      /\ \A m \in DOMAIN outcome :
            outcome[m].outcome = "packet" <=> \E i \in DOMAIN Packets : Packets[i] = m
      /\ \A i \in DOMAIN Packets : Packets[i] \in DOMAIN outcome
  BY DEF Received, ReturnedInOrder
<1>5. \A i \in DOMAIN outcome' : outcome'[i].frame = i
  BY <1>1, <1>2, <1>4
<1>6. ASSUME NEW m \in DOMAIN outcome'
      PROVE  outcome'[m].outcome = "packet" <=> \E i \in DOMAIN Packets' : Packets'[i] = m
  <2>1. CASE m = Out + 1
    BY <1>1, <1>2, <1>3, <1>4, <2>1
  <2>2. CASE m # Out + 1
    BY <1>1, <1>2, <1>3, <1>4, <2>2
  <2>. QED BY <2>1, <2>2
<1>7. ASSUME NEW i \in DOMAIN Packets' PROVE Packets'[i] \in DOMAIN outcome'
  BY <1>1, <1>2, <1>3, <1>4
<1>. QED BY <1>3, <1>5, <1>6, <1>7 DEF Received, ReturnedInOrder

\* The oldest result is returned, and the index moves on with it.
LEMMA TakesResultKeeps ==
    ASSUME IInv, TakesResult,
           UNCHANGED <<threadCount, taskFifo, taskIndex, exit, workers, delay, draining, sent, refs>>
    PROVE  IInv'
<1>. DEFINE r == finished[finishedIndex]
<1>1. /\ Places /\ Calls /\ Received /\ Collecting /\ r # None
      /\ finished' = [finished EXCEPT ![finishedIndex] = None]
      /\ finishedIndex' = (finishedIndex + 1) % BufferSize
      /\ outcome' = Append(outcome, r) /\ Returns(r)
      /\ UNCHANGED <<threadCount, taskFifo, taskIndex, exit, wpc, task, delay, draining, sent, refs>>
  BY DEF TakesResult, IInv, Collecting, workers
<1>2. /\ finishedIndex \in Indices /\ r \in Results
      /\ r.frame = Out + 1 /\ Out + 1 <= Handed
      /\ \A w \in Workers : task[w] # None => task[w].frame # Out + 1
      /\ \A i \in Indices : i # finishedIndex /\ finished[i] # None
                            => finished[i].frame # Out + 1
  BY <1>1, OldestIsNext
<1>. HIDE DEF r
<1>3. /\ sent \in Nat /\ Out \in Nat /\ Handed \in Int /\ Out <= Handed /\ Handed <= sent
      /\ sent - Out < BufferSize /\ outcome \in Seq(Results)
      /\ finished \in [Indices -> Results \union {None}] /\ IndexOf(taskIndex, sent)
      /\ IndexOf(finishedIndex, Out)
  BY <1>1, Numbers DEF Places, IndicesCount
<1>4. /\ outcome' \in Seq(Results) /\ Len(outcome') = Out + 1 /\ outcome'[Out + 1] = r
      /\ \A i \in 1..Out : outcome'[i] = outcome[i]
  BY <1>1, <1>2, <1>3 DEF Out
<1>5. Out' = Out + 1 /\ Handed' = Handed /\ Taken' = Taken
  BY <1>1, <1>4 DEF Out, Handed, Taken
<1>6. IndicesCount'
  <2>1. IndexOf(finishedIndex', Out')
    BY <1>1, <1>3, <1>5, NextIndex
  <2>2. Out' <= Handed' /\ sent' - Out' < BufferSize
    BY <1>1, <1>2, <1>3, <1>5, FrameEncoderAssumption
  <2>. QED BY <1>1, <1>3, <2>1, <2>2 DEF IndicesCount, IndexOf
<1>7. FifoIsNext'
  BY <1>1, <1>5 DEF Places, FifoIsNext, IndexOf
<1>8. TasksDiffer'
  <2>1. ASSUME NEW w \in Workers, task[w] # None
        PROVE  task[w].frame \in Out + 1..Handed /\ IndexOf(task[w].index, task[w].frame - 1)
    BY <1>1, <2>1 DEF Places, TasksDiffer
  <2>2. ASSUME NEW w \in Workers, task[w] # None PROVE task[w].frame \in Out' + 1..Handed'
    BY <1>2, <1>3, <1>5, <2>1, <2>2
  <2>3. ASSUME NEW w \in Workers
        PROVE  /\ task[w] # None <=> wpc[w] = "encode"
               /\ \A v \in Workers : v # w /\ task[v] # None /\ task[w] # None
                                     => task[v].frame # task[w].frame
    BY <1>1 DEF Places, TasksDiffer
  <2>. QED BY <1>1, <2>1, <2>2, <2>3 DEF TasksDiffer, IndexOf
<1>9. ResultsInPlace'
  <2>1. ASSUME NEW i \in Indices, finished'[i] # None
        PROVE  i # finishedIndex /\ finished'[i] = finished[i] /\ finished[i] # None
    BY <1>2, <1>1, <1>3, <2>1
  <2>2. ASSUME NEW i \in Indices, finished'[i] # None
        PROVE  /\ finished[i].frame \in Out + 1..Handed /\ IndexOf(i, finished[i].frame - 1)
               /\ \A w \in Workers : task[w] # None => task[w].frame # finished[i].frame
    BY <1>1, <2>1, <2>2 DEF Places, ResultsInPlace
  <2>3. ASSUME NEW i \in Indices, finished'[i] # None
        PROVE  finished[i].frame \in Out' + 1..Handed'
    BY <1>2, <1>3, <1>5, <2>1, <2>2, <2>3
  <2>. QED BY <1>1, <2>1, <2>2, <2>3 DEF ResultsInPlace, IndexOf
<1>10. finished' \in [Indices -> Results \union {None}]
  BY <1>1, <1>3
<1>11. Places'
  BY <1>1, <1>4, <1>5, <1>6, <1>7, <1>8, <1>9, <1>10 DEF Places
<1>12. /\ upc' = "idle" /\ call' = NoCall /\ bufferPkt = None
       /\ sent' - Out' <= threadCount' /\ threadCount \in 0..Threads
  <2>1. upc' = "idle" /\ call' = NoCall /\ bufferPkt = None /\ upc # "idle"
    BY <1>1 DEF Returns, Calls, Collecting
  <2>. QED BY <1>1, <1>3, <1>5, <2>1, FrameEncoderAssumption DEF Calls
<1>13. eof' \in BOOLEAN /\ (eof' => draining' /\ EofIsEnd')
  <2>1. CASE eof
    <3>1. draining' /\ \E i \in DOMAIN outcome : outcome[i].outcome = "nothing"
      BY <1>1, <1>2, <1>3, <2>1 DEF Calls, EofIsEnd, Out
    <3>2. PICK i \in DOMAIN outcome : outcome[i].outcome = "nothing"
      BY <3>1
    <3>3. i \in 1..Out /\ i \in DOMAIN outcome' /\ outcome'[i] = outcome[i]
      BY <1>3, <1>4 DEF Out
    <3>4. eof' \in BOOLEAN
      BY <1>1 DEF Returns, Calls
    <3>. QED BY <3>1, <3>2, <3>3, <3>4 DEF EofIsEnd
  <2>2. CASE ~eof
    <3>1. eof' \in BOOLEAN /\ (eof' => call.receives /\ r.outcome = "nothing")
      BY <1>1, <2>2 DEF Returns, Calls
    <3>2. Out + 1 \in DOMAIN outcome'
      BY <1>3, <1>4
    <3>3. eof' => draining'
      BY <1>1, <3>1 DEF Calls
    <3>. QED BY <1>4, <3>1, <3>2, <3>3 DEF EofIsEnd
  <2>. QED BY <2>1, <2>2
<1>14. Calls'
  <2>1. call' \in [frame : BOOLEAN, receives : BOOLEAN] /\ ~Collecting'
    BY <1>12 DEF NoCall, Collecting
  <2>2. sent' - Out' <= threadCount' + (IF upc' = "idle" THEN 0 ELSE 1)
    BY <1>1, <1>3, <1>5, <1>12
  <2>. QED BY <1>1, <1>12, <1>13, <2>1, <2>2 DEF Calls
<1>15. Received'
  <2>1. CASE r.outcome = "packet"
    <3>1. r.frame \in Frames
      BY <1>2 DEF Results
    <3>2. \/ got' = Append(got, r.frame) /\ bufferPkt' = bufferPkt
          \/ got' = got /\ bufferPkt' = r.frame
      BY <1>1, <2>1 DEF Returns
    <3>. QED BY <1>1, <1>2, <1>3, <1>12, <2>1, <3>1, <3>2, PacketIsLast
  <2>2. CASE r.outcome # "packet"
    <3>1. UNCHANGED <<got, bufferPkt>>
      BY <1>1, <2>2 DEF Returns
    <3>. QED BY <1>1, <1>2, <1>3, <2>2, <3>1, NoPacket
  <2>. QED BY <2>1, <2>2
<1>. QED BY <1>11, <1>14, <1>15 DEF IInv

-----------------------------------------------------------------------------
(* Theorems                                                                *)

LEMMA Initially == Init => IInv
<1>. SUFFICES ASSUME Init PROVE IInv
  OBVIOUS
<1>. USE DEF Init
<1>1. Out = 0 /\ Handed = 0 /\ Taken = {} /\ sent = 0 /\ Len(taskFifo) = 0
  <2>1. Len(taskFifo) = 0 /\ Len(outcome) = 0 /\ sent = 0
    OBVIOUS
  <2>2. Out = 0
    BY <2>1 DEF Out
  <2>3. Handed = 0
    <3>1. Handed = 0 - 0
      BY <2>1 DEF Handed
    <3>. QED BY ONLY <3>1
  <2>4. Taken = {}
    BY DEF Taken
  <2>. QED BY ONLY <2>1, <2>2, <2>3, <2>4
<1>2. IndexOf(0, 0)
  <2>1. BufferSize \in Int /\ BufferSize > 0 /\ BufferSize * 0 = 0
    BY FrameEncoderAssumption, Multiples
  <2>. QED BY <2>1 DEF IndexOf, Indices
<1>3. IndicesCount
  BY <1>1, <1>2, FrameEncoderAssumption DEF IndicesCount
<1>4. FifoIsNext /\ TasksDiffer /\ ResultsInPlace
  BY <1>1 DEF FifoIsNext, TasksDiffer, ResultsInPlace
<1>5. Places
  BY <1>1, <1>3, <1>4, FrameEncoderAssumption DEF Places
<1>6. Calls
  <2>1. call \in [frame : BOOLEAN, receives : BOOLEAN] /\ ~Collecting /\ ~eof
    BY DEF NoCall, Collecting
  <2>2. threadCount \in 0..Threads /\ sent - Out <= threadCount + (IF upc = "idle" THEN 0 ELSE 1)
    BY <1>1, FrameEncoderAssumption
  <2>3. /\ wpc \in [Workers -> {"none", "loop", "asleep", "encode", "ended"}]
        /\ \A w \in Workers : wpc[w] = "none"
    OBVIOUS
  <2>. QED BY <2>1, <2>2, <2>3 DEF Calls
<1>7. Received
  BY DEF Received, ReturnedInOrder, Packets
<1>. QED BY <1>5, <1>6, <1>7 DEF IInv

LEMMA WorkerKeeps ==
    ASSUME IInv, NEW w \in Workers, Worker(w) PROVE IInv'
<1>1. CASE (Ends(w) \/ Sleeps(w)) /\ UNCHANGED <<finished, refs, upc>>
  BY <1>1, IdleWorkerKeeps DEF Worker
<1>2. CASE TakesTask(w) /\ UNCHANGED <<finished, refs, upc>>
  BY <1>2, TakesTaskKeeps DEF Worker
<1>3. CASE \E o \in Outcomes : Encodes(w, o) /\ UNCHANGED taskFifo
  BY <1>3, EncodesKeeps DEF Worker
<1>. QED BY <1>1, <1>2, <1>3 DEF Worker

LEMMA StutterKeeps == ASSUME IInv, UNCHANGED vars PROVE IInv'
<1>. USE DEF vars, workers, api
<1>1. Places'
  BY PlacesAreKept DEF IInv
<1>2. Calls'
  BY DEF IInv, Calls, Collecting, EofIsEnd, Out, results
<1>3. Received'
  BY ReceivedIsKept DEF IInv, results
<1>. QED BY <1>1, <1>2, <1>3 DEF IInv

\* Every step, of any thread, leaves the indices, the tasks and the results
\* of the ring consistent with the frames that were sent.
THEOREM Invariant == Spec => []IInv
<1>1. Init => IInv
  BY Initially
<1>2. IInv /\ [Next]_vars => IInv'
  <2>. SUFFICES ASSUME IInv, [Next]_vars PROVE IInv'
    OBVIOUS
  <2>1. CASE CreateWorker
    BY <2>1, CreateWorkerKeeps
  <2>2. CASE SendFrame
    BY <2>2, SendFrameKeeps
  <2>3. CASE SendEof
    BY <2>3, SendEofKeeps
  <2>4. CASE ReceivePacket
    BY <2>4, ReceivePacketKeeps
  <2>5. CASE Free
    BY <2>5, FreeKeeps
  <2>6. CASE Collect
    BY <2>6, ReturnsNothingKeeps, WaitsKeeps, TakesResultKeeps DEF Collect
  <2>7. CASE Joined
    BY <2>7, JoinedKeeps
  <2>8. CASE SpuriousWakeup
    BY <2>8, SpuriousWakeupKeeps
  <2>9. CASE Freed \/ UNCHANGED vars
    BY <2>9, StutterKeeps DEF Freed
  <2>10. CASE \E w \in Workers : Worker(w)
    BY <2>10, WorkerKeeps
  <2>. QED
    BY <2>1, <2>2, <2>3, <2>4, <2>5, <2>6, <2>7, <2>8, <2>9, <2>10 DEF Next, InCall
<1>. QED BY <1>1, <1>2, PTL DEF Spec

\* The ring and the fifo never have more than they hold, and exactly the
\* frames that some task has are referenced (worker, ff_thread_video_encode_frame
\* and ff_frame_thread_encoder_free).
THEOREM Typing == Spec => []TypeOK
<1>1. IInv => TypeOK
  BY Implies
<1>. QED BY <1>1, Invariant, PTL

\* Results are returned in the order of the frames, and each packet among
\* them is received once and in that order, whichever worker is first.
THEOREM ResultsInOrder == Spec => []ReturnedInOrder
<1>1. IInv => ReturnedInOrder
  BY Implies
<1>. QED BY <1>1, Invariant, PTL

\* When avcodec_receive_packet says that there are no more packets, every
\* frame's result was returned, or the codec made nothing of one.
THEOREM EndIsReal == Spec => []EofIsEnd
<1>1. IInv => EofIsEnd
  BY Implies
<1>. QED BY <1>1, Invariant, PTL
===============================================================================
