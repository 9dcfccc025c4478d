-------------------------- MODULE SliceThreadProofs --------------------------
(***************************************************************************)
(* Proofs about the pool of SliceThread for every number of threads and    *)
(* jobs: execute returns only when no worker is left in its jobs, no two   *)
(* threads share a job or a threadnr, and a call's parameters do not       *)
(* change under the threads that use them.                                 *)
(***************************************************************************)
EXTENDS SliceThread, FiniteSetTheorems, TLAPS

\* The threads that have to run through run_jobs in the current call.
Participants == {t \in Threads : IF t = Main THEN ~runMain ELSE t <= ActiveWorkers}

\* Those that have not yet taken a number from first_job ...
Unstarted == {t \in Participants :
                IF t = Main THEN pc[Main] \in {"signal", "claim"}
                ELSE \/ t >= next
                     \/ pc[t] = "claim"
                     \/ pc[t] = "woken" /\ ~wdone[t]}

\* ... and those that have taken a number past the last job from current_job.
Left == {t \in Participants :
           IF t = Main THEN pc[Main] \in {"wait", "donesleep", "donewoken"}
           ELSE /\ t < next
                /\ pc[t] \in {"last", "loop"} \/ (pc[t] \in {"sleep", "woken"} /\ wdone[t])}

\* Where the caller is, and what that says of its loop and of the workers.
CallerInv ==
    /\ finished <=> pc[Main] \in {"freesignal", "join"}
    /\ pc[Main] \in {"createsleep", "createwoken"} => next <= NbWorkers
    /\ (Executing \/ pc[Main] \in {"create", "createsleep", "createwoken", "idle"}) => nbThreads >= 1
    /\ ~Executing => ~done

WorkerInv ==
    \A w \in Workers :
        /\ pc[w] = "born" => pc[Main] \in {"createsleep", "createwoken"} /\ w = next
        /\ pc[w] \in {"claim", "func", "next", "last"} => Executing /\ w < next
        /\ pc[w] = "sleep" => wdone[w]
        /\ pc[w] = "woken" /\ ~wdone[w] => (Executing /\ w < next) \/ finished

\* The workers there are: outside them nobody runs, so that after free none does.
PoolInv ==
    \A w \in Workers :
        (\/ w > NbWorkers
         \/ pc[Main] = "create" /\ w >= next
         \/ pc[Main] \in {"createsleep", "createwoken"} /\ w > next
         \/ pc[Main] = "join" /\ w < next
         \/ pc[Main] = "none") => pc[w] = "none"

\* The caller's own way through the call.
RoundInv ==
    Executing =>
        /\ nbActive \in 1 .. nbThreads /\ nbActive <= nbJobs
        /\ runMain => mainFunc
        /\ next <= ActiveWorkers + 1
        /\ pc[Main] # "signal" => next = ActiveWorkers + 1
        /\ pc[Main] \in {"claim", "func", "next"} => ~runMain
        /\ pc[Main] = "mainfunc" => runMain

\* The two counters count threads: first_job those that have started, and
\* current_job, beyond nb_jobs, those that have left.
CounterInv ==
    Executing =>
        /\ firstJob + Cardinality(Unstarted) = nbActive
        /\ nbActive <= currentJob
        /\ currentJob <= nbJobs => Left = {}
        /\ currentJob > nbJobs => Cardinality(Left) = currentJob - nbJobs

\* The numbers in use have been handed out, and none twice.
NumberInv ==
    \A t \in Threads : InJobs(t) =>
        /\ nr[t] < firstJob /\ cur[t] < nbJobs
        /\ cur[t] = nr[t] \/ (nbActive <= cur[t] /\ cur[t] < currentJob)
        /\ \A u \in Threads \ {t} : InJobs(u) => nr[u] # nr[t] /\ cur[u] # cur[t]

\* One thread of the call is the last, and sees the last number.
LastInv ==
    /\ done => currentJob = nbJobs + nbActive
    /\ \A w \in Workers : pc[w] = "last" =>
          /\ ~done /\ currentJob = nbJobs + nbActive
          /\ \A v \in Workers \ {w} : pc[v] # "last"

IInv == /\ TypeOK /\ CallerInv /\ WorkerInv /\ PoolInv /\ RoundInv
        /\ CounterInv /\ NumberInv /\ LastInv

-----------------------------------------------------------------------------
(* The sets are finite, and there are nbActive participants. *)
LEMMA Sets ==
    ASSUME TypeOK, RoundInv, Executing
    PROVE  /\ IsFiniteSet(Participants) /\ Cardinality(Participants) = nbActive
           /\ IsFiniteSet(Unstarted) /\ Cardinality(Unstarted) \in Nat
           /\ IsFiniteSet(Left) /\ Cardinality(Left) \in Nat
<1>1. /\ nbActive \in 1 .. MaxThreads /\ MaxThreads \in Nat
      /\ nbThreads \in 1 .. MaxThreads
  BY SliceThreadAssumption DEF TypeOK, RoundInv
<1>2. Participants = IF runMain THEN 1 .. nbActive ELSE 0 .. nbActive - 1
  BY <1>1 DEF Participants, Threads, Workers, Main, ActiveWorkers
<1>3. IsFiniteSet(Participants) /\ Cardinality(Participants) = nbActive
  <2>1. CASE runMain
    BY <1>1, <1>2, <2>1, FS_Interval
  <2>2. CASE ~runMain
    <3>1. Participants = 0 .. nbActive - 1 /\ nbActive - 1 \in Int /\ 0 <= nbActive - 1
      BY <1>1, <1>2, <2>2
    <3> QED BY <1>1, <3>1, FS_Interval
  <2> QED BY <2>1, <2>2
<1>4. Unstarted \subseteq Participants /\ Left \subseteq Participants
  BY DEF Unstarted, Left
<1> QED BY <1>3, <1>4, FS_Subset, FS_CardinalityType

(* One thread, or the caller and a worker, move to places of their kind.   *)
LEMMA CallerMoves ==
    ASSUME IInv, NEW p \in CallerPcs, Goto(Main, p)
    PROVE  PcOK'
<1>1. Main \in Threads /\ Main \notin Workers /\ Workers \subseteq Threads
  BY DEF Threads, Workers, Main
<1> QED BY <1>1 DEF IInv, TypeOK, PcOK, Goto

LEMMA WorkerMoves ==
    ASSUME IInv, NEW w \in Workers, NEW q \in WorkerPcs, Goto(w, q)
    PROVE  PcOK'
<1>1. Main \in Threads /\ Main \notin Workers /\ Workers \subseteq Threads
  BY DEF Threads, Workers, Main
<1> QED BY <1>1 DEF IInv, TypeOK, PcOK, Goto

LEMMA BothMove ==
    ASSUME IInv, NEW p \in CallerPcs, NEW w \in Workers, NEW q \in WorkerPcs,
           pc' = [pc EXCEPT ![Main] = p, ![w] = q]
    PROVE  PcOK'
<1>1. Main \in Threads /\ Main \notin Workers /\ Workers \subseteq Threads
  BY DEF Threads, Workers, Main
<1> QED BY <1>1 DEF IInv, TypeOK, PcOK

(* What each proof of a step needs to know of positions. *)
LEMMA Places == /\ "create" \in CallerPcs /\ "createsleep" \in CallerPcs
                /\ "createwoken" \in CallerPcs /\ "idle" \in CallerPcs
                /\ "signal" \in CallerPcs /\ "mainfunc" \in CallerPcs /\ "claim" \in CallerPcs
                /\ "func" \in CallerPcs /\ "next" \in CallerPcs /\ "wait" \in CallerPcs
                /\ "donesleep" \in CallerPcs /\ "donewoken" \in CallerPcs
                /\ "freesignal" \in CallerPcs /\ "join" \in CallerPcs /\ "none" \in CallerPcs
                /\ "none" \in WorkerPcs /\ "born" \in WorkerPcs /\ "sleep" \in WorkerPcs
                /\ "woken" \in WorkerPcs /\ "claim" \in WorkerPcs /\ "func" \in WorkerPcs
                /\ "next" \in WorkerPcs /\ "last" \in WorkerPcs /\ "loop" \in WorkerPcs
                /\ "ended" \in WorkerPcs
BY DEF CallerPcs, WorkerPcs

(* Once as many threads have left as take part, nobody is inside.          *)
LEMMA AllHaveLeft ==
    ASSUME TypeOK, RoundInv, WorkerInv, Executing,
           NEW S \in SUBSET Participants, Cardinality(S) = nbActive
    PROVE  S = Participants
BY Sets, FS_Subset

(* A participant inside run_jobs is the proof that the last number is      *)
(* still to be taken.                                                      *)
LEMMA InsideMeansNotLast ==
    ASSUME IInv, NEW t \in Threads, InJobs(t)
    PROVE  /\ Executing /\ t \in Participants /\ t \notin Left /\ t \notin Unstarted
           /\ currentJob < nbJobs + nbActive
           /\ ~done /\ \A w \in Workers : pc[w] # "last"
<1> USE DEF IInv
<1>1. Executing
  BY DEF InJobs, WorkerInv, Executing, Threads, Main
<1>2. t \in Participants /\ t \notin Left /\ t \notin Unstarted
  BY <1>1, SliceThreadAssumption DEF InJobs, WorkerInv, RoundInv, TypeOK, Participants, Left, Unstarted,
     ActiveWorkers, Threads, Workers, Main
<1>3. currentJob < nbJobs + nbActive
  <2> SUFFICES ASSUME currentJob >= nbJobs + nbActive PROVE FALSE
    BY DEF TypeOK
  <2>1. /\ currentJob > nbJobs /\ nbActive >= 1 /\ nbJobs \in Nat /\ nbActive \in Nat
        /\ currentJob \in Nat
    BY <1>1 DEF TypeOK, RoundInv
  <2>2. Cardinality(Left) = currentJob - nbJobs
    BY <1>1, <2>1 DEF CounterInv
  <2>3. Left \subseteq Participants
    BY DEF Left
  <2>4. Cardinality(Left) <= nbActive
    BY <1>1, <2>3, Sets, FS_Subset
  <2>5. Cardinality(Left) = nbActive
    BY <2>1, <2>2, <2>4
  <2> QED BY <1>1, <1>2, <2>3, <2>5, AllHaveLeft
<1> QED BY <1>1, <1>2, <1>3 DEF LastInv, TypeOK

(* Outside execute only the caller's and the workers' positions matter.    *)
LEMMA OutsideKeeps ==
    ASSUME ~Executing', TypeOK', CallerInv', WorkerInv', PoolInv'
    PROVE  IInv'
<1>1. \A t \in Threads : ~InJobs(t)'
  BY DEF InJobs, WorkerInv, Executing, Threads, Main, TypeOK
<1>2. ~done' /\ \A w \in Workers : pc'[w] # "last"
  BY DEF CallerInv, WorkerInv
<1> QED BY <1>1, <1>2 DEF IInv, RoundInv, CounterInv, NumberInv, LastInv

(* A step that moves no thread into or out of the jobs, and changes no     *)
(* number, keeps what the counters count.                                  *)
LEMMA CountersKeep ==
    ASSUME IInv, Executing' => Executing,
           Executing => Unstarted' = Unstarted /\ Left' = Left,
           UNCHANGED <<nbJobs, nbActive, firstJob, currentJob, nr, cur>>,
           \A t \in Threads : InJobs(t)' => InJobs(t)
    PROVE  CounterInv' /\ NumberInv'
BY DEF IInv, CounterInv, NumberInv

-----------------------------------------------------------------------------
(* The caller's steps outside execute *)

LEMMA CreateKeeps ==
    ASSUME IInv, NEW n \in 1 .. MaxThreads, NEW b \in BOOLEAN, Create(n, b)
    PROVE  IInv'
<1>1. PcOK'
  BY CallerMoves, Places DEF Create
<1>2. TypeOK'
  <2>1. nbThreads' \in 0 .. MaxThreads /\ nbJobs' \in 0 .. MaxJobs /\ nbActive' \in 0 .. MaxThreads
    BY SliceThreadAssumption DEF Create
  <2>2. firstJob' \in Nat /\ currentJob' \in Nat /\ next' \in 1 .. MaxThreads + 1
    BY SliceThreadAssumption DEF Create
  <2> QED BY <1>1, <2>1, <2>2 DEF IInv, TypeOK, Create
<1>3. ~Executing'
  BY DEF IInv, TypeOK, PcOK, Executing, Threads, Create, Goto
<1>4. CallerInv'
  BY <1>3, SliceThreadAssumption DEF IInv, TypeOK, PcOK, CallerInv, Create, Goto, Threads
<1>5. WorkerInv'
  BY DEF IInv, TypeOK, PcOK, WorkerInv, CallerInv, Executing, Threads, Workers, Main, Create, Goto
<1>9. PoolInv'
  BY SliceThreadAssumption DEF IInv, TypeOK, PcOK, PoolInv, NbWorkers, Threads, Workers, Main, Goto, shared, Create
<1> QED BY <1>2, <1>3, <1>4, <1>5, <1>9, OutsideKeeps

LEMMA CreateWorkerKeeps ==
    ASSUME IInv, CreateWorker
    PROVE  IInv'
<1>1. next \in Workers /\ NbWorkers' = NbWorkers
  BY SliceThreadAssumption DEF IInv, TypeOK, CreateWorker, shared, Workers, NbWorkers
<1>2. PcOK'
  BY <1>1, BothMove, Places DEF CreateWorker
<1>3. TypeOK'
  BY <1>1, <1>2, SliceThreadAssumption DEF IInv, TypeOK, shared, CreateWorker
<1>4. ~Executing'
  BY <1>1, SliceThreadAssumption DEF IInv, TypeOK, PcOK, Executing, Threads, Workers, Main, Goto, CreateWorker
<1>5. CallerInv'
  BY <1>1, <1>4, SliceThreadAssumption DEF IInv, TypeOK, PcOK, CallerInv, Executing, NbWorkers, Threads, Workers, Main, Goto, shared, CreateWorker
<1>6. WorkerInv'
  <2> SUFFICES ASSUME NEW w \in Workers
               PROVE  /\ pc'[w] = "born" => pc'[Main] \in {"createsleep", "createwoken"} /\ w = next'
                      /\ pc'[w] \in {"claim", "func", "next", "last"} => Executing' /\ w < next'
                      /\ pc'[w] = "sleep" => wdone'[w]
                      /\ pc'[w] = "woken" /\ ~wdone'[w] => (Executing' /\ w < next') \/ finished'
    BY DEF WorkerInv
  <2>1. CASE w = next
    BY <1>1, <2>1 DEF IInv, TypeOK, PcOK, CreateWorker, Threads, Workers, Main
  <2>2. CASE w # next
    <3>1. pc'[w] = pc[w] /\ wdone'[w] = wdone[w]
      BY <1>1, <2>2 DEF IInv, TypeOK, PcOK, CreateWorker, Threads, Workers, Main
    <3> QED BY <3>1 DEF IInv, WorkerInv, CreateWorker, Executing
  <2> QED BY <2>1, <2>2
<1>9. PoolInv'
  <2>1. \A w \in Workers \ {next} : pc'[w] = pc[w]
    BY <1>1 DEF IInv, TypeOK, PcOK, CreateWorker, Threads, Workers, Main
  <2>2. NbWorkers' = NbWorkers /\ next <= NbWorkers /\ next \in Nat /\ NbWorkers \in Int
    BY SliceThreadAssumption DEF IInv, TypeOK, CreateWorker, shared, NbWorkers
  <2>3. next' = next /\ pc'[Main] = "createsleep" /\ pc[Main] = "create"
    BY <1>1 DEF IInv, TypeOK, PcOK, CreateWorker, Threads, Workers, Main
  <2> QED BY <1>1, <2>1, <2>2, <2>3 DEF IInv, PoolInv, Workers
<1> QED BY <1>3, <1>4, <1>5, <1>6, <1>9, OutsideKeeps

LEMMA CreateFailsKeeps ==
    ASSUME IInv, CreateFails
    PROVE  IInv'
<1>1. PcOK'
  BY CallerMoves, Places DEF CreateFails
<1>2. TypeOK'
  <2>1. nbThreads' \in 0 .. MaxThreads /\ next' \in 1 .. MaxThreads + 1
    BY SliceThreadAssumption DEF IInv, TypeOK, NbWorkers, CreateFails
  <2> QED BY <1>1, <2>1 DEF IInv, TypeOK, CreateFails
<1>3. ~Executing'
  BY SliceThreadAssumption DEF IInv, TypeOK, PcOK, Executing, Threads, Workers, Main, Goto, CreateFails
<1>4. CallerInv'
  BY <1>3, SliceThreadAssumption DEF IInv, TypeOK, PcOK, CallerInv, Executing, NbWorkers, Threads, Workers, Main, Goto, shared, CreateFails
<1>5. WorkerInv'
  BY SliceThreadAssumption DEF IInv, TypeOK, PcOK, WorkerInv, CallerInv, Executing, Threads, Workers, Main, Goto, shared, CreateFails
<1>9. PoolInv'
  BY SliceThreadAssumption DEF IInv, TypeOK, PcOK, PoolInv, NbWorkers, Threads, Workers, Main, Goto, shared, CreateFails
<1> QED BY <1>2, <1>3, <1>4, <1>5, <1>9, OutsideKeeps

LEMMA CreateWakesKeeps ==
    ASSUME IInv, CreateWakes
    PROVE  IInv'
<1>1. next \in Workers /\ next <= NbWorkers /\ NbWorkers' = NbWorkers
  BY SliceThreadAssumption DEF IInv, TypeOK, CallerInv, CreateWakes, shared, Workers, NbWorkers
<1>2. next' \in 1 .. MaxThreads + 1
  BY <1>1, SliceThreadAssumption DEF IInv, TypeOK, Workers, CreateWakes
<1>3. PcOK'
  BY <1>1, <1>2, CallerMoves, Places DEF CreateWakes
<1>4. TypeOK'
  BY <1>1, <1>2, <1>3, SliceThreadAssumption DEF IInv, TypeOK, shared, MutexFree, CreateWakes
<1>5. ~Executing'
  BY <1>1, <1>2, SliceThreadAssumption DEF IInv, TypeOK, PcOK, Executing, Threads, Workers, Main, Goto, CreateWakes
<1>6. CallerInv'
  BY <1>1, <1>2, <1>5, SliceThreadAssumption DEF IInv, TypeOK, PcOK, CallerInv, Executing, NbWorkers, Threads, Workers, Main, Goto, shared, MutexFree, CreateWakes
<1>7. WorkerInv'
  BY <1>1, <1>2, SliceThreadAssumption DEF IInv, TypeOK, PcOK, WorkerInv, CallerInv, Executing, Threads, Workers, Main, Goto, shared, MutexFree, CreateWakes
<1>7a. pc[Main] = "createwoken" /\ \A w \in Workers : w > next => pc[w] = "none"
  BY DEF IInv, PoolInv, CreateWakes
<1>7b. \A w \in Workers : w # Main
  BY SliceThreadAssumption DEF Workers, Main
<1>7c. NbWorkers \in Int /\ next \in Int
  BY <1>1, SliceThreadAssumption DEF IInv, TypeOK, NbWorkers, Workers
<1>8. \A w \in Workers : pc'[w] = pc[w] /\ (w > next => pc'[w] = "none")
  BY <1>7a, <1>7b DEF Goto, CreateWakes, IInv, TypeOK, PcOK, Threads
<1>9. PoolInv'
  <2>1. CASE wdone[next]
    <3>1. pc'[Main] = "create" /\ next' = next + 1
      BY <2>1 DEF IInv, TypeOK, PcOK, Threads, Goto, CreateWakes
    <3> QED BY <3>1, <1>1, <1>7c, <1>8 DEF PoolInv, Workers
  <2>2. CASE ~wdone[next]
    <3>1. pc'[Main] = "createsleep" /\ next' = next
      BY <2>2 DEF IInv, TypeOK, PcOK, Threads, Goto, CreateWakes
    <3> QED BY <3>1, <1>1, <1>7c, <1>8 DEF PoolInv, Workers
  <2> QED BY <2>1, <2>2
<1> QED BY <1>4, <1>5, <1>6, <1>7, <1>9, OutsideKeeps

LEMMA CreateReturnsKeeps ==
    ASSUME IInv, CreateReturns
    PROVE  IInv'
<1>1. PcOK'
  BY CallerMoves, Places DEF CreateReturns
<1>2. TypeOK'
  BY <1>1, SliceThreadAssumption DEF IInv, TypeOK, shared, CreateReturns
<1>3. ~Executing'
  BY SliceThreadAssumption DEF IInv, TypeOK, PcOK, Executing, Threads, Workers, Main, Goto, CreateReturns
<1>4. CallerInv'
  BY <1>3, SliceThreadAssumption DEF IInv, TypeOK, PcOK, CallerInv, Executing, NbWorkers, Threads, Workers, Main, Goto, shared, CreateReturns
<1>5. WorkerInv'
  BY SliceThreadAssumption DEF IInv, TypeOK, PcOK, WorkerInv, CallerInv, Executing, Threads, Workers, Main, Goto, shared, CreateReturns
<1>9. PoolInv'
  BY SliceThreadAssumption DEF IInv, TypeOK, PcOK, PoolInv, NbWorkers, Threads, Workers, Main, Goto, shared, CreateReturns
<1> QED BY <1>2, <1>3, <1>4, <1>5, <1>9, OutsideKeeps

LEMMA FreeKeeps ==
    ASSUME IInv, Free
    PROVE  IInv'
<1>1. PcOK'
  BY CallerMoves, Places DEF Free
<1>2. TypeOK'
  BY <1>1, SliceThreadAssumption DEF IInv, TypeOK, shared, Free
<1>3. ~Executing'
  BY SliceThreadAssumption DEF IInv, TypeOK, PcOK, Executing, Threads, Workers, Main, Goto, Free
<1>4. CallerInv'
  BY <1>3, SliceThreadAssumption DEF IInv, TypeOK, PcOK, CallerInv, Executing, NbWorkers, Threads, Workers, Main, Goto, shared, Free
<1>5. WorkerInv'
  BY SliceThreadAssumption DEF IInv, TypeOK, PcOK, WorkerInv, CallerInv, Executing, Threads, Workers, Main, Goto, shared, Free
<1>9. PoolInv'
  BY SliceThreadAssumption DEF IInv, TypeOK, PcOK, PoolInv, NbWorkers, Threads, Workers, Main, Goto, shared, Free
<1> QED BY <1>2, <1>3, <1>4, <1>5, <1>9, OutsideKeeps

LEMMA FreeSignalledKeeps ==
    ASSUME IInv, FreeSignalled
    PROVE  IInv'
<1>1. PcOK'
  BY CallerMoves, Places DEF FreeSignalled
<1>2. TypeOK'
  BY <1>1, SliceThreadAssumption DEF IInv, TypeOK, shared, FreeSignalled
<1>3. ~Executing'
  BY SliceThreadAssumption DEF IInv, TypeOK, PcOK, Executing, Threads, Workers, Main, Goto, FreeSignalled
<1>4. CallerInv'
  BY <1>3, SliceThreadAssumption DEF IInv, TypeOK, PcOK, CallerInv, Executing, NbWorkers, Threads, Workers, Main, Goto, shared, FreeSignalled
<1>5. WorkerInv'
  BY SliceThreadAssumption DEF IInv, TypeOK, PcOK, WorkerInv, CallerInv, Executing, Threads, Workers, Main, Goto, shared, FreeSignalled
<1>9. PoolInv'
  BY SliceThreadAssumption DEF IInv, TypeOK, PcOK, PoolInv, NbWorkers, Threads, Workers, Main, Goto, shared, FreeSignalled
<1> QED BY <1>2, <1>3, <1>4, <1>5, <1>9, OutsideKeeps

LEMMA FreeReturnsKeeps ==
    ASSUME IInv, FreeReturns
    PROVE  IInv'
<1>1. PcOK'
  BY CallerMoves, Places DEF FreeReturns
<1>2. TypeOK'
  <2>1. nbThreads' \in 0 .. MaxThreads /\ nbJobs' \in 0 .. MaxJobs /\ nbActive' \in 0 .. MaxThreads
    BY SliceThreadAssumption DEF FreeReturns
  <2>2. firstJob' \in Nat /\ currentJob' \in Nat /\ next' \in 1 .. MaxThreads + 1
    BY SliceThreadAssumption DEF FreeReturns
  <2> QED BY <1>1, <2>1, <2>2 DEF IInv, TypeOK, FreeReturns
<1>3. ~Executing'
  BY SliceThreadAssumption DEF IInv, TypeOK, PcOK, Executing, Threads, Workers, Main, Goto, FreeReturns
<1>4. CallerInv'
  BY <1>3, SliceThreadAssumption DEF IInv, TypeOK, PcOK, CallerInv, Executing, NbWorkers, Threads, Workers, Main, Goto, shared, FreeReturns
<1>5. WorkerInv'
  BY SliceThreadAssumption DEF IInv, TypeOK, PcOK, PoolInv, NbWorkers, WorkerInv, CallerInv, Executing, Threads, Workers, Main, Goto, shared, FreeReturns
<1>9. PoolInv'
  BY SliceThreadAssumption DEF IInv, TypeOK, PcOK, PoolInv, NbWorkers, Threads, Workers, Main, Goto, shared, FreeReturns
<1> QED BY <1>2, <1>3, <1>4, <1>5, <1>9, OutsideKeeps

LEMMA FreeSignalsKeeps ==
    ASSUME IInv, FreeSignals
    PROVE  IInv'
<1>1. next \in Workers /\ next' \in 1 .. MaxThreads + 1
  BY SliceThreadAssumption DEF IInv, TypeOK, FreeSignals, Workers, NbWorkers
<1>2. pc' = [pc EXCEPT ![Main] = "freesignal", ![next] = "woken"]
  BY <1>1 DEF IInv, TypeOK, PcOK, FreeSignals, GotoAndSignal, MutexFree, Threads, Workers, Main
<1>3. PcOK'
  BY <1>1, <1>2, BothMove, Places
<1>4. TypeOK'
  BY <1>1, <1>2, <1>3, SliceThreadAssumption DEF IInv, TypeOK, shared, FreeSignals
<1>5. ~Executing'
  BY <1>1, <1>2, SliceThreadAssumption DEF IInv, TypeOK, PcOK, Executing, Threads, Workers, Main, Goto, FreeSignals
<1>6. CallerInv'
  BY <1>1, <1>2, <1>5, SliceThreadAssumption DEF IInv, TypeOK, PcOK, CallerInv, Executing, NbWorkers, Threads, Workers, Main, Goto, shared, FreeSignals
<1>7. WorkerInv'
  BY <1>1, <1>2, SliceThreadAssumption DEF IInv, TypeOK, PcOK, WorkerInv, CallerInv, Executing, Threads, Workers, Main, Goto, shared, FreeSignals
<1>9. PoolInv'
  <2>1. \A w \in Workers \ {next} : pc'[w] = pc[w]
    BY <1>1, <1>2 DEF IInv, TypeOK, PcOK, FreeSignals, Threads, Workers, Main
  <2>2. NbWorkers' = NbWorkers /\ next <= NbWorkers /\ next \in Nat /\ NbWorkers \in Int
    BY SliceThreadAssumption DEF IInv, TypeOK, FreeSignals, shared, NbWorkers
  <2>3. pc'[Main] = "freesignal"
    BY <1>1, <1>2 DEF IInv, TypeOK, PcOK, FreeSignals, Threads, Workers, Main
  <2> QED BY <1>1, <2>1, <2>2, <2>3 DEF IInv, PoolInv, Workers
<1> QED BY <1>4, <1>5, <1>6, <1>7, <1>9, OutsideKeeps

LEMMA JoinKeeps ==
    ASSUME IInv, Join
    PROVE  IInv'
<1>1. next \in Workers /\ next' \in 1 .. MaxThreads + 1
  BY SliceThreadAssumption DEF IInv, TypeOK, Join, Workers, NbWorkers
<1>2. pc[Main] = "join" /\ pc' = [pc EXCEPT ![Main] = "join", ![next] = "none"]
  BY <1>1 DEF IInv, TypeOK, PcOK, Join, Threads, Workers, Main
<1>3. PcOK'
  BY <1>1, <1>2, BothMove, Places
<1>4. TypeOK'
  BY <1>1, <1>2, <1>3, SliceThreadAssumption DEF IInv, TypeOK, shared, Join
<1>5. ~Executing'
  BY <1>1, <1>2, SliceThreadAssumption DEF IInv, TypeOK, PcOK, Executing, Threads, Workers, Main, Goto, Join
<1>6. CallerInv'
  BY <1>1, <1>2, <1>5, SliceThreadAssumption DEF IInv, TypeOK, PcOK, CallerInv, Executing, NbWorkers, Threads, Workers, Main, Goto, shared, Join
<1>7. WorkerInv'
  BY <1>1, <1>2, SliceThreadAssumption DEF IInv, TypeOK, PcOK, WorkerInv, CallerInv, Executing, Threads, Workers, Main, Goto, shared, Join
<1>9. PoolInv'
  BY <1>1, <1>2, SliceThreadAssumption DEF IInv, TypeOK, PcOK, PoolInv, NbWorkers, Threads, Workers, Main, Goto, shared, Join
<1> QED BY <1>4, <1>5, <1>6, <1>7, <1>9, OutsideKeeps

-----------------------------------------------------------------------------
(* The caller's steps inside execute *)

LEMMA ExecuteKeeps ==
    ASSUME IInv, NEW n \in 1 .. MaxJobs, NEW b \in BOOLEAN, Execute(n, b)
    PROVE  IInv'
<1>1. /\ nbThreads \in 1 .. MaxThreads /\ nbActive' \in 1 .. nbThreads /\ nbActive' <= nbJobs'
      /\ nbJobs' \in 1 .. MaxJobs /\ MaxThreads \in Nat /\ NbWorkers' = NbWorkers
      /\ firstJob' = 0 /\ currentJob' = nbActive' /\ next' = 1
  BY SliceThreadAssumption DEF IInv, TypeOK, CallerInv, Execute, NbWorkers
<1>2. /\ pc[Main] = "idle" /\ pc'[Main] = "signal" /\ Executing' /\ ~Executing
      /\ \A w \in Workers : pc'[w] = pc[w] /\ wdone'[w] = wdone[w]
  BY DEF IInv, TypeOK, PcOK, Execute, Goto, Executing, Threads, Workers, Main
<1>3. PcOK'
  BY CallerMoves, Places DEF Execute
<1>4. TypeOK'
  BY <1>1, <1>3 DEF IInv, TypeOK, Execute
<1>5. CallerInv' /\ PoolInv'
  BY <1>1, <1>2 DEF IInv, CallerInv, PoolInv, Execute, Executing
<1>6. WorkerInv'
  BY <1>1, <1>2 DEF IInv, CallerInv, WorkerInv, Execute
<1>7. RoundInv'
  BY <1>1, <1>2 DEF IInv, TypeOK, Execute, RoundInv, ActiveWorkers
<1>8. CounterInv'
  <2>1. PICK a \in 1 .. MaxThreads : nbActive' = a
    BY <1>1
  <2>2. Unstarted' = Participants' /\ Left' = {}
    BY <1>1, <1>2 DEF Unstarted, Left, Participants, Threads, Workers, Main
  <2>3. Cardinality(Participants') = a
    <3>1. CASE runMain'
      <4>1. Participants' = 1 .. a
        BY <1>1, <2>1, <3>1 DEF Participants, Threads, Workers, Main, ActiveWorkers
      <4> QED BY <1>1, <4>1, FS_Interval
    <3>2. CASE ~runMain'
      <4>1. Participants' = 0 .. a - 1
        BY <1>1, <2>1, <3>2 DEF Participants, Threads, Workers, Main, ActiveWorkers
      <4>2. a - 1 \in Int /\ 0 <= a - 1 /\ (a - 1) - 0 + 1 = a
        BY <1>1
      <4> QED BY <4>1, <4>2, FS_Interval
    <3> QED BY <3>1, <3>2
  <2>4. 0 + Cardinality(Unstarted') = a
    BY <1>1, <2>2, <2>3
  <2>5. PICK k \in 1 .. MaxJobs : nbJobs' = k /\ a <= k
    BY <1>1, <2>1
  <2>6. nbActive' <= currentJob' /\ ~(currentJob' > nbJobs')
    BY <1>1, <2>1, <2>5
  <2> QED BY <1>1, <2>1, <2>2, <2>4, <2>6 DEF CounterInv
<1>9. NumberInv' /\ LastInv'
  BY <1>2 DEF IInv, NumberInv, LastInv, InJobs, WorkerInv, CallerInv, Execute, Threads, Main
<1> QED BY <1>4, <1>5, <1>6, <1>7, <1>8, <1>9 DEF IInv

LEMMA SignalWorkerKeeps ==
    ASSUME IInv, SignalWorker
    PROVE  IInv'
<1>1. /\ next \in Workers /\ next' = next + 1 /\ next <= ActiveWorkers /\ next <= NbWorkers
      /\ ActiveWorkers' = ActiveWorkers /\ NbWorkers' = NbWorkers /\ Executing
      /\ ActiveWorkers \in Int /\ next' \in 1 .. MaxThreads + 1
  BY SliceThreadAssumption DEF IInv, TypeOK, RoundInv, SignalWorker, Workers, NbWorkers, ActiveWorkers, shared, Executing
<1>2. pc' = [pc EXCEPT ![Main] = "signal", ![next] = "woken"]
  BY <1>1 DEF IInv, TypeOK, PcOK, SignalWorker, GotoAndSignal, MutexFree, Threads, Workers, Main
<1>3. /\ pc[Main] = "signal" /\ pc'[Main] = "signal" /\ Executing' /\ pc'[next] = "woken"
      /\ ~wdone'[next] /\ pc[next] \in {"sleep", "woken"}
      /\ \A w \in Workers \ {next} : pc'[w] = pc[w] /\ wdone'[w] = wdone[w]
  BY <1>1, <1>2 DEF IInv, TypeOK, PcOK, SignalWorker, MutexFree, Executing, Threads, Workers, Main
<1>4. PcOK'
  BY <1>1, <1>2, BothMove, Places
<1>5. TypeOK'
  BY <1>1, <1>4 DEF IInv, TypeOK, SignalWorker, shared
<1>6. CallerInv' /\ PoolInv'
  BY <1>1, <1>3 DEF IInv, CallerInv, PoolInv, SignalWorker, shared, Workers
<1>7. WorkerInv'
  BY <1>1, <1>3 DEF IInv, WorkerInv, SignalWorker, Workers
<1>8. RoundInv'
  BY <1>1, <1>3 DEF IInv, TypeOK, SignalWorker, RoundInv, shared
<1>9. Participants' = Participants /\ Unstarted' = Unstarted /\ Left' = Left
  <2>1. Participants' = Participants
    BY <1>1 DEF Participants, SignalWorker
  <2>2. Unstarted' = Unstarted
    BY <1>1, <1>3, <2>1 DEF Unstarted, Participants, Threads, Workers, Main
  <2>3. Left' = Left
    BY <1>1, <1>3, <2>1 DEF Left, Participants, Threads, Workers, Main
  <2> QED BY <2>1, <2>2, <2>3
<1>10. \A t \in Threads : InJobs(t)' => InJobs(t)
  BY <1>3 DEF InJobs, Threads
<1>11. CounterInv' /\ NumberInv'
  BY <1>1, <1>9, <1>10, CountersKeep DEF SignalWorker, shared
<1>12. LastInv'
  BY <1>1, <1>3 DEF IInv, LastInv, SignalWorker, shared
<1> QED BY <1>5, <1>6, <1>7, <1>8, <1>11, <1>12 DEF IInv

\* The steps of the caller that change nothing but its position.
LEMMA CallerGoesOn ==
    ASSUME IInv, AllSignalled \/ MainFuncReturns
    PROVE  IInv'
<1> DEFINE A == AllSignalled \/ MainFuncReturns
<1>1. PICK p \in {"mainfunc", "claim", "wait"} :
        /\ Goto(Main, p)
        /\ p = "mainfunc" => pc[Main] = "signal" /\ next > ActiveWorkers /\ runMain
        /\ p = "claim"    => pc[Main] = "signal" /\ next > ActiveWorkers /\ ~runMain
        /\ p = "wait"     => pc[Main] = "mainfunc"
  BY DEF AllSignalled, MainFuncReturns
<1>2. UNCHANGED <<shared, firstJob, currentJob, done, finished, wdone, runMain, next, nr, cur>>
  BY DEF AllSignalled, MainFuncReturns
<1>3. /\ Executing /\ Executing' /\ pc'[Main] = p
      /\ \A w \in Workers : pc'[w] = pc[w]
  BY <1>1 DEF IInv, TypeOK, PcOK, Goto, Executing, Threads, Workers, Main
<1>4. PcOK'
  BY <1>1, CallerMoves, Places
<1>5. TypeOK'
  BY <1>2, <1>4 DEF IInv, TypeOK, shared
<1>6. NbWorkers' = NbWorkers /\ ActiveWorkers' = ActiveWorkers /\ Participants' = Participants
  BY <1>2 DEF NbWorkers, ActiveWorkers, Participants, shared
<1>7. CallerInv' /\ PoolInv' /\ WorkerInv'
  BY <1>1, <1>2, <1>3, <1>6 DEF IInv, CallerInv, PoolInv, WorkerInv, shared
<1>8. RoundInv'
  <2>1. pc'[Main] # "signal" => next' = ActiveWorkers' + 1
    BY <1>1, <1>2, <1>3, <1>6 DEF IInv, TypeOK, RoundInv, ActiveWorkers
  <2> QED BY <1>1, <1>2, <1>3, <1>6, <2>1 DEF IInv, RoundInv, shared
<1>9. Unstarted' = Unstarted /\ Left' = Left
  BY <1>1, <1>2, <1>3, <1>6 DEF IInv, RoundInv, Unstarted, Left, Participants, Threads, Workers, Main
<1>10. \A t \in Threads : InJobs(t)' => InJobs(t)
  BY <1>3 DEF InJobs, Threads
<1>11. CounterInv' /\ NumberInv'
  BY <1>2, <1>3, <1>9, <1>10, CountersKeep DEF shared
<1>12. LastInv'
  BY <1>2, <1>3 DEF IInv, LastInv, shared
<1> QED BY <1>5, <1>7, <1>8, <1>11, <1>12 DEF IInv

LEMMA WaitDoneKeeps ==
    ASSUME IInv, WaitDone
    PROVE  IInv'
<1>1. UNCHANGED <<shared, firstJob, currentJob, finished, wdone, runMain, next, nr, cur>>
  BY DEF WaitDone
<1>2. Executing /\ done' \in BOOLEAN
  BY DEF IInv, TypeOK, WaitDone, Executing
<1>3. NbWorkers' = NbWorkers /\ ActiveWorkers' = ActiveWorkers /\ Participants' = Participants
  BY <1>1 DEF NbWorkers, ActiveWorkers, Participants, shared
<1>4. CASE done
  <2>1. Goto(Main, "idle") /\ ~done'
    BY <1>4 DEF WaitDone
  <2>2. /\ pc'[Main] = "idle" /\ ~Executing' /\ \A w \in Workers : pc'[w] = pc[w]
    BY <2>1 DEF IInv, TypeOK, PcOK, Goto, Executing, Threads, Workers, Main
  <2>3. PcOK'
    BY <2>1, CallerMoves, Places
  <2>4. TypeOK'
    BY <1>1, <1>2, <2>3 DEF IInv, TypeOK, shared
  <2>5. Left = Participants
    <3>1. /\ currentJob = nbJobs + nbActive /\ nbActive >= 1 /\ nbJobs \in Nat /\ nbActive \in Nat
      BY <1>2, <1>4 DEF IInv, TypeOK, RoundInv, LastInv
    <3>2. currentJob > nbJobs /\ currentJob - nbJobs = nbActive
      BY <3>1
    <3>3. Cardinality(Left) = nbActive
      BY <1>2, <3>2 DEF IInv, CounterInv
    <3> QED BY <1>2, <3>3, AllHaveLeft DEF IInv, Left
  <2>6. \A w \in Workers : pc[w] \notin {"claim", "func", "next", "last"} /\ ~(pc[w] = "woken" /\ ~wdone[w])
    <3> SUFFICES ASSUME NEW w \in Workers, w < next
                 PROVE  pc[w] \notin {"claim", "func", "next", "last"} /\ ~(pc[w] = "woken" /\ ~wdone[w])
      BY <1>2 DEF IInv, WorkerInv, CallerInv, Executing
    <3>1. w \in Participants
      BY <1>2, SliceThreadAssumption DEF IInv, TypeOK, RoundInv, Participants, ActiveWorkers, Threads, Workers, Main
    <3>2. pc[w] \notin {"claim", "func", "next"} /\ ~(pc[w] = "woken" /\ ~wdone[w])
      BY <2>5, <3>1 DEF Left, Main, Workers
    <3>3. pc[w] # "last"
      BY <1>4 DEF IInv, LastInv
    <3> QED BY <3>2, <3>3
  <2>7. CallerInv' /\ PoolInv'
    BY <1>1, <1>2, <1>3, <2>1, <2>2 DEF IInv, CallerInv, PoolInv, shared, Executing
  <2>8. WorkerInv'
    BY <1>1, <1>2, <2>2, <2>6 DEF IInv, WorkerInv, Executing
  <2> QED BY <2>2, <2>4, <2>7, <2>8, OutsideKeeps
<1>5. CASE ~done
  <2>1. Goto(Main, "donesleep") /\ ~done'
    BY <1>5 DEF WaitDone
  <2>2. /\ pc'[Main] = "donesleep" /\ Executing' /\ \A w \in Workers : pc'[w] = pc[w]
    BY <2>1 DEF IInv, TypeOK, PcOK, Goto, Executing, Threads, Workers, Main
  <2>3. PcOK'
    BY <2>1, CallerMoves, Places
  <2>4. TypeOK'
    BY <1>1, <1>2, <2>3 DEF IInv, TypeOK, shared
  <2>5. CallerInv' /\ PoolInv' /\ WorkerInv'
    BY <1>1, <1>2, <1>3, <2>1, <2>2 DEF IInv, CallerInv, PoolInv, WorkerInv, shared, Executing
  <2>6. RoundInv'
    BY <1>1, <1>2, <1>3, <2>2 DEF IInv, RoundInv, shared, WaitDone
  <2>7. Unstarted' = Unstarted /\ Left' = Left
    BY <1>1, <1>3, <2>2 DEF WaitDone, Unstarted, Left, Participants, Threads, Workers, Main
  <2>8. \A t \in Threads : InJobs(t)' => InJobs(t)
    BY <2>2 DEF InJobs, Threads
  <2>9. CounterInv' /\ NumberInv'
    BY <1>1, <1>2, <2>7, <2>8, CountersKeep DEF shared
  <2>10. LastInv'
    BY <1>1, <2>1, <2>2 DEF IInv, LastInv, shared
  <2> QED BY <2>4, <2>5, <2>6, <2>9, <2>10 DEF IInv
<1> QED BY <1>4, <1>5

-----------------------------------------------------------------------------
(* run_jobs, in the caller or a worker *)

\* Where a thread of the call stands, and that it moves alone.
LEMMA JobsPosition ==
    ASSUME IInv, NEW t \in Threads, pc[t] \in {"claim", "func", "next"}, NEW q, Goto(t, q),
           q \in {"func", "next", "last", "loop", "wait", "idle"},
           IF t = Main THEN q \in CallerPcs ELSE q \in WorkerPcs
    PROVE  /\ PcOK' /\ pc'[t] = q /\ \A u \in Threads \ {t} : pc'[u] = pc[u]
           /\ Executing /\ (q # "idle" => Executing')
           /\ t \in Participants /\ (t # Main => t \in Workers /\ t < next)
           /\ t = Main => ~runMain /\ next = ActiveWorkers + 1
<1>1. PcOK' /\ pc'[t] = q /\ \A u \in Threads \ {t} : pc'[u] = pc[u]
  <2>1. CASE t = Main
    BY <2>1, CallerMoves DEF IInv, TypeOK, PcOK, Goto
  <2>2. CASE t # Main
    BY <2>2, WorkerMoves DEF IInv, TypeOK, PcOK, Goto, Threads
  <2> QED BY <2>1, <2>2
<1>2. Executing /\ (t # Main => t \in Workers /\ t < next)
  BY DEF IInv, WorkerInv, Executing, Threads, Main
<1>3. q # "idle" => Executing'
  <2>1. CASE t = Main
    BY <1>1, <2>1 DEF CallerPcs, Executing
  <2>2. CASE t # Main
    BY <1>1, <1>2, <2>2 DEF Executing, Threads
  <2> QED BY <2>1, <2>2
<1>4. t = Main => ~runMain /\ next = ActiveWorkers + 1
  BY <1>2 DEF IInv, RoundInv
<1>5. t \in Participants
  BY <1>2, <1>4, SliceThreadAssumption DEF IInv, TypeOK, RoundInv, Participants, ActiveWorkers, Threads, Workers, Main
<1> QED BY <1>1, <1>2, <1>3, <1>4, <1>5

LEMMA ClaimKeeps ==
    ASSUME IInv, NEW t \in Threads, Claim(t)
    PROVE  IInv'
<1>1. /\ UNCHANGED <<shared, currentJob, done, finished, wdone, runMain, next>>
      /\ pc[t] = "claim" /\ Goto(t, "func") /\ firstJob' = firstJob + 1
      /\ nr' = [nr EXCEPT ![t] = firstJob] /\ cur' = [cur EXCEPT ![t] = firstJob]
  BY DEF Claim
<1>2. /\ PcOK' /\ pc'[t] = "func" /\ \A u \in Threads \ {t} : pc'[u] = pc[u]
      /\ Executing /\ Executing' /\ t \in Participants
      /\ t # Main => t \in Workers /\ t < next
      /\ t = Main => ~runMain /\ next = ActiveWorkers + 1
  BY <1>1, Places, JobsPosition
<1>3. TypeOK'
  BY <1>1, <1>2 DEF IInv, TypeOK, shared
<1>4. NbWorkers' = NbWorkers /\ ActiveWorkers' = ActiveWorkers /\ Participants' = Participants
  BY <1>1 DEF NbWorkers, ActiveWorkers, Participants, shared
<1>5. CallerInv' /\ PoolInv' /\ WorkerInv'
  BY <1>1, <1>2, <1>4 DEF IInv, CallerInv, PoolInv, WorkerInv, shared, Threads, Workers, Main, Executing
<1>6. RoundInv'
  BY <1>1, <1>2, <1>4 DEF IInv, RoundInv, shared, Threads, Workers, Main
<1>7. t \in Unstarted /\ Unstarted' = Unstarted \ {t} /\ Left' = Left
  <2>1. t \in Unstarted
    BY <1>1, <1>2 DEF Unstarted
  <2>2. t \notin Unstarted'
    BY <1>1, <1>2, SliceThreadAssumption DEF IInv, TypeOK, Unstarted, Workers
  <2>3. \A u \in Participants \ {t} : u \in Unstarted' <=> u \in Unstarted
    BY <1>1, <1>2, <1>4 DEF Unstarted, Participants, Threads
  <2>4. Left' = Left
    BY <1>1, <1>2, <1>4 DEF Left, Participants, Threads, Workers, Main
  <2> QED BY <1>2, <1>4, <2>1, <2>2, <2>3, <2>4 DEF Unstarted
<1>8. /\ Cardinality(Unstarted') = Cardinality(Unstarted) - 1
      /\ Cardinality(Unstarted) \in Nat /\ Cardinality(Unstarted) > 0
  <2>1. IsFiniteSet(Unstarted) /\ IsFiniteSet(Unstarted \ {t})
    BY <1>2, Sets, FS_RemoveElement DEF IInv
  <2>2. Cardinality(Unstarted \ {t}) = Cardinality(Unstarted) - 1
    BY <1>7, <2>1, FS_RemoveElement
  <2>3. Cardinality(Unstarted \ {t}) \in Nat /\ Cardinality(Unstarted) \in Nat
    BY <2>1, FS_CardinalityType
  <2> QED BY <1>7, <2>2, <2>3
<1>9. CounterInv' /\ firstJob < nbActive
  <2>1. firstJob + Cardinality(Unstarted) = nbActive
    BY <1>2 DEF IInv, CounterInv
  <2>2. firstJob < nbActive /\ (firstJob + 1) + Cardinality(Unstarted') = nbActive
    BY <1>8, <2>1 DEF IInv, TypeOK
  <2> QED BY <1>1, <1>2, <1>7, <2>2 DEF IInv, CounterInv, shared
<1>10. NumberInv'
  <2>1. \A u \in Threads : InJobs(u)' => u = t \/ InJobs(u)
    BY <1>2 DEF InJobs
  <2>2. nr'[t] = firstJob /\ cur'[t] = firstJob
    BY <1>1 DEF IInv, TypeOK
  <2>3. \A u \in Threads \ {t} : nr'[u] = nr[u] /\ cur'[u] = cur[u]
    BY <1>1 DEF IInv, TypeOK
  <2>4. firstJob < nbJobs
    BY <1>2, <1>9 DEF IInv, TypeOK, RoundInv
  <2>5. \A u \in Threads \ {t} : InJobs(u) =>
           /\ nr[u] < firstJob /\ cur[u] < nbJobs /\ cur[u] # firstJob
           /\ cur[u] = nr[u] \/ (nbActive <= cur[u] /\ cur[u] < currentJob)
    BY <1>9 DEF IInv, TypeOK, NumberInv
  <2>6. nbJobs' = nbJobs /\ nbActive' = nbActive /\ currentJob' = currentJob
    BY <1>1 DEF shared
  <2>7. \A u \in Threads : nr[u] \in Nat /\ cur[u] \in Nat /\ firstJob \in Nat
    BY DEF IInv, TypeOK
  <2> QED BY <1>1, <2>1, <2>2, <2>3, <2>4, <2>5, <2>6, <2>7 DEF IInv, NumberInv
<1>11. LastInv'
  BY <1>1, <1>2 DEF IInv, LastInv, shared, Threads
<1> QED BY <1>3, <1>5, <1>6, <1>9, <1>10, <1>11 DEF IInv

LEMMA WorkerFuncReturnsKeeps ==
    ASSUME IInv, NEW t \in Threads, WorkerFuncReturns(t)
    PROVE  IInv'
<1>1. /\ UNCHANGED <<shared, firstJob, currentJob, done, finished, wdone, runMain, next, nr, cur>>
      /\ pc[t] = "func" /\ Goto(t, "next")
  BY DEF WorkerFuncReturns
<1>2. /\ PcOK' /\ pc'[t] = "next" /\ \A u \in Threads \ {t} : pc'[u] = pc[u]
      /\ Executing /\ Executing' /\ t \in Participants
      /\ t # Main => t \in Workers /\ t < next
      /\ t = Main => ~runMain /\ next = ActiveWorkers + 1
  BY <1>1, Places, JobsPosition
<1>3. TypeOK'
  BY <1>1, <1>2 DEF IInv, TypeOK, shared
<1>4. NbWorkers' = NbWorkers /\ ActiveWorkers' = ActiveWorkers /\ Participants' = Participants
  BY <1>1 DEF NbWorkers, ActiveWorkers, Participants, shared
<1>5. CallerInv' /\ PoolInv' /\ WorkerInv'
  BY <1>1, <1>2, <1>4 DEF IInv, CallerInv, PoolInv, WorkerInv, shared, Threads, Workers, Main, Executing
<1>6. RoundInv'
  BY <1>1, <1>2, <1>4 DEF IInv, RoundInv, shared, Threads, Workers, Main
<1>7. Unstarted' = Unstarted /\ Left' = Left
  BY <1>1, <1>2, <1>4 DEF Unstarted, Left, Participants, Threads, Workers, Main
<1>8. \A u \in Threads : InJobs(u)' => InJobs(u)
  BY <1>1, <1>2 DEF InJobs
<1>9. CounterInv' /\ NumberInv'
  BY <1>1, <1>2, <1>7, <1>8, CountersKeep DEF shared
<1>10. LastInv'
  BY <1>1, <1>2 DEF IInv, LastInv, shared, Threads
<1> QED BY <1>3, <1>5, <1>6, <1>9, <1>10 DEF IInv

LEMMA TakesAJobKeeps ==
    ASSUME IInv, NEW t \in Threads, NextJob(t), currentJob < nbJobs
    PROVE  IInv'
<1>1. /\ UNCHANGED <<shared, firstJob, done, finished, wdone, runMain, next, nr>>
      /\ pc[t] = "next" /\ Goto(t, "func") /\ currentJob' = currentJob + 1
      /\ cur' = [cur EXCEPT ![t] = currentJob]
  BY DEF NextJob
<1>2. /\ PcOK' /\ pc'[t] = "func" /\ \A u \in Threads \ {t} : pc'[u] = pc[u]
      /\ Executing /\ Executing' /\ t \in Participants
      /\ t # Main => t \in Workers /\ t < next
      /\ t = Main => ~runMain /\ next = ActiveWorkers + 1
  BY <1>1, Places, JobsPosition
<1>3. TypeOK'
  BY <1>1, <1>2 DEF IInv, TypeOK, shared
<1>4. NbWorkers' = NbWorkers /\ ActiveWorkers' = ActiveWorkers /\ Participants' = Participants
  BY <1>1 DEF NbWorkers, ActiveWorkers, Participants, shared
<1>5. CallerInv' /\ PoolInv' /\ WorkerInv'
  BY <1>1, <1>2, <1>4 DEF IInv, CallerInv, PoolInv, WorkerInv, shared, Threads, Workers, Main, Executing
<1>6. RoundInv'
  BY <1>1, <1>2, <1>4 DEF IInv, RoundInv, shared, Threads, Workers, Main
<1>7. Unstarted' = Unstarted /\ Left' = Left
  BY <1>1, <1>2, <1>4 DEF Unstarted, Left, Participants, Threads, Workers, Main
<1>8. CounterInv'
  <2>1. currentJob + 1 <= nbJobs /\ nbActive <= currentJob + 1 /\ Left = {} /\ ~(currentJob + 1 > nbJobs)
    BY <1>2 DEF IInv, TypeOK, CounterInv
  <2> QED BY <1>1, <1>2, <1>7, <2>1 DEF IInv, CounterInv, shared
<1>9. NumberInv'
  <2>1. \A u \in Threads : InJobs(u)' => InJobs(u)
    BY <1>1, <1>2 DEF InJobs
  <2>2. cur'[t] = currentJob /\ \A u \in Threads \ {t} : cur'[u] = cur[u]
    BY <1>1 DEF IInv, TypeOK
  <2>3. \A u \in Threads : InJobs(u) => cur[u] < currentJob
    <3>1. firstJob <= nbActive /\ nbActive <= currentJob
      BY <1>2, Sets DEF IInv, TypeOK, CounterInv
    <3> QED BY <3>1 DEF IInv, TypeOK, NumberInv
  <2>4. nbActive <= currentJob /\ InJobs(t) /\ currentJob < currentJob + 1
    BY <1>1, <1>2 DEF IInv, TypeOK, CounterInv, InJobs
  <2>5. nbJobs' = nbJobs /\ nbActive' = nbActive /\ firstJob' = firstJob /\ nr' = nr
    BY <1>1 DEF shared
  <2>6. \A u \in Threads : cur[u] \in Nat /\ currentJob \in Nat
    BY DEF IInv, TypeOK
  <2> QED BY <1>1, <2>1, <2>2, <2>3, <2>4, <2>5, <2>6 DEF IInv, NumberInv
<1>10. LastInv'
  <2>1. ~done /\ \A w \in Workers : pc[w] # "last"
    BY <1>1, InsideMeansNotLast DEF InJobs
  <2> QED BY <1>1, <1>2, <2>1 DEF LastInv, Threads
<1> QED BY <1>3, <1>5, <1>6, <1>8, <1>9, <1>10 DEF IInv

LEMMA LeavesKeeps ==
    ASSUME IInv, NEW t \in Threads, NextJob(t), currentJob >= nbJobs
    PROVE  IInv'
<1> DEFINE isLast == currentJob = nbJobs + nbActive - 1
<1>1. PICK q \in {"idle", "wait", "last", "loop"} :
        /\ Goto(t, q)
        /\ IF t = Main THEN q = (IF isLast THEN "idle" ELSE "wait")
                       ELSE q = (IF isLast THEN "last" ELSE "loop")
  BY DEF NextJob, AfterJobs, IInv, TypeOK
<1>2. /\ UNCHANGED <<shared, firstJob, done, finished, wdone, runMain, next>>
      /\ pc[t] = "next" /\ currentJob' = currentJob + 1
      /\ cur' = [cur EXCEPT ![t] = 0] /\ nr' = [nr EXCEPT ![t] = 0]
  BY DEF NextJob, IInv, TypeOK
<1>3. /\ PcOK' /\ pc'[t] = q /\ \A u \in Threads \ {t} : pc'[u] = pc[u]
      /\ Executing /\ (q # "idle" => Executing') /\ t \in Participants
      /\ t # Main => t \in Workers /\ t < next
      /\ t = Main => ~runMain /\ next = ActiveWorkers + 1
  <2>1. IF t = Main THEN q \in CallerPcs ELSE q \in WorkerPcs
    BY <1>1, Places
  <2> QED BY <1>1, <1>2, <2>1, JobsPosition
<1>4. TypeOK'
  BY <1>2, <1>3 DEF IInv, TypeOK, shared
<1>5. NbWorkers' = NbWorkers /\ ActiveWorkers' = ActiveWorkers /\ Participants' = Participants
  BY <1>2 DEF NbWorkers, ActiveWorkers, Participants, shared
<1>6. t \notin Left /\ currentJob < nbJobs + nbActive /\ ~done /\ \A w \in Workers : pc[w] # "last"
  BY <1>2, InsideMeansNotLast DEF InJobs
<1>7. Cardinality(Left \cup {t}) = currentJob + 1 - nbJobs
  <2>1. Cardinality(Left \cup {t}) = Cardinality(Left) + 1
    BY <1>3, <1>6, Sets, FS_AddElement DEF IInv
  <2>2. Cardinality(Left) = currentJob - nbJobs
    BY <1>3, FS_EmptySet DEF IInv, TypeOK, CounterInv
  <2> QED BY <2>1, <2>2 DEF IInv, TypeOK
<1>8. CASE q = "idle"
  <2>1. t = Main /\ isLast /\ ~Executing' /\ pc'[Main] = "idle"
    BY <1>1, <1>3, <1>8 DEF Executing
  <2>2. Left \cup {t} = Participants
    <3>1. Cardinality(Left \cup {t}) = nbActive
      BY <1>7, <2>1 DEF IInv, TypeOK
    <3> QED BY <1>3, <3>1, AllHaveLeft DEF IInv, Left
  <2>3. \A w \in Workers : pc[w] \notin {"claim", "func", "next", "last"} /\ ~(pc[w] = "woken" /\ ~wdone[w])
    <3> SUFFICES ASSUME NEW w \in Workers, w < next
                 PROVE  pc[w] \notin {"claim", "func", "next"} /\ ~(pc[w] = "woken" /\ ~wdone[w])
      BY <1>3, <1>6 DEF IInv, WorkerInv, CallerInv, Executing
    <3>1. w \in Participants /\ w # t
      BY <1>3, <2>1, SliceThreadAssumption DEF IInv, TypeOK, Participants, ActiveWorkers, Threads, Workers, Main
    <3> QED BY <2>2, <3>1 DEF Left, Main, Workers
  <2>4. \A w \in Workers : pc'[w] = pc[w]
    BY <1>3, <2>1 DEF Threads, Workers, Main
  <2>5. CallerInv' /\ PoolInv'
    BY <1>2, <1>3, <1>5, <1>6, <2>1, <2>4 DEF IInv, CallerInv, PoolInv, shared, Executing
  <2>6. WorkerInv'
    BY <1>2, <1>3, <2>1, <2>3, <2>4 DEF IInv, WorkerInv, Executing
  <2> QED BY <1>4, <2>1, <2>5, <2>6, OutsideKeeps
<1>9. CASE q # "idle"
  <2>1. CallerInv' /\ PoolInv'
    BY <1>1, <1>2, <1>3, <1>5, <1>9 DEF IInv, CallerInv, PoolInv, shared, Threads, Workers, Main, Executing
  <2>2. WorkerInv'
    BY <1>1, <1>2, <1>3, <1>5, <1>9 DEF IInv, CallerInv, WorkerInv, shared, Threads, Workers, Main, Executing
  <2>3. RoundInv'
    BY <1>1, <1>2, <1>3, <1>5, <1>9 DEF IInv, RoundInv, shared, Threads, Workers, Main
  <2>4. Unstarted' = Unstarted
    BY <1>1, <1>2, <1>3, <1>5, <1>9 DEF Unstarted, Participants, Threads, Workers, Main
  <2>5. Left' = Left \cup {t}
    <3>1. t \in Left'
      BY <1>1, <1>2, <1>3, <1>5, <1>9 DEF Left
    <3>2. \A u \in Participants \ {t} : u \in Left' <=> u \in Left
      BY <1>2, <1>3, <1>5, SliceThreadAssumption DEF Left, Participants, Threads
    <3> QED BY <1>3, <1>5, <3>1, <3>2 DEF Left
  <2>6. CounterInv'
    <3>1. currentJob + 1 > nbJobs /\ nbActive <= currentJob + 1 /\ ~(currentJob + 1 <= nbJobs)
      BY <1>3 DEF IInv, TypeOK, CounterInv
    <3>2. Cardinality(Left') = currentJob + 1 - nbJobs
      BY <1>7, <2>5
    <3>3. firstJob + Cardinality(Unstarted) = nbActive
      BY <1>3 DEF IInv, CounterInv
    <3>4. nbJobs' = nbJobs /\ nbActive' = nbActive
      BY <1>2 DEF shared
    <3>5. firstJob' = firstJob /\ currentJob' = currentJob + 1
      BY <1>2
    <3>6. /\ ~(currentJob' <= nbJobs') /\ nbActive' <= currentJob'
          /\ Cardinality(Left') = currentJob' - nbJobs'
      BY <3>1, <3>2, <3>4, <3>5 DEF IInv, TypeOK
    <3>7. firstJob' + Cardinality(Unstarted') = nbActive'
      BY <2>4, <3>3, <3>4, <3>5
    <3> QED BY <3>6, <3>7 DEF CounterInv
  <2>7. NumberInv'
    <3>1. \A u \in Threads : InJobs(u)' => InJobs(u) /\ u # t
      BY <1>1, <1>3 DEF InJobs
    <3>2. \A u \in Threads \ {t} : cur'[u] = cur[u] /\ nr'[u] = nr[u]
      BY <1>2 DEF IInv, TypeOK
    <3>3. \A u \in Threads : InJobs(u) /\ cur[u] < currentJob => cur[u] < currentJob + 1
      BY DEF IInv, TypeOK
    <3> QED BY <1>2, <3>1, <3>2, <3>3 DEF IInv, NumberInv, shared
  <2>8. LastInv'
    <3>1. \A w \in Workers \ {t} : pc'[w] # "last"
      BY <1>3, <1>6 DEF Threads
    <3>2. pc'[t] = "last" => isLast
      BY <1>1, <1>3
    <3>3. isLast => currentJob + 1 = nbJobs + nbActive
      BY DEF IInv, TypeOK
    <3> QED BY <1>2, <1>6, <3>1, <3>2, <3>3 DEF LastInv, shared
  <2> QED BY <1>4, <2>1, <2>2, <2>3, <2>6, <2>7, <2>8 DEF IInv
<1> QED BY <1>8, <1>9

LEMMA RunJobsKeeps ==
    ASSUME IInv, NEW t \in Threads, RunJobs(t)
    PROVE  IInv'
<1>1. currentJob < nbJobs \/ currentJob >= nbJobs
  BY DEF IInv, TypeOK
<1> QED BY <1>1, ClaimKeeps, WorkerFuncReturnsKeeps, TakesAJobKeeps, LeavesKeeps DEF RunJobs

-----------------------------------------------------------------------------
(* thread_worker *)

\* The part of the invariant that a step keeps when it touches neither the
\* counters nor the caller's loop, and moves no thread in or out of the jobs.
LEMMA AsideKeeps ==
    ASSUME IInv, UNCHANGED <<shared, firstJob, currentJob, finished, runMain, next, nr, cur>>,
           \/ pc'[Main] = pc[Main]
           \/ pc[Main] = "createsleep" /\ pc'[Main] = "createwoken"
           \/ pc[Main] = "donesleep" /\ pc'[Main] = "donewoken",
           \A t \in Threads : InJobs(t)' => InJobs(t),
           Executing => Unstarted' = Unstarted /\ Left' = Left
    PROVE  RoundInv' /\ CounterInv' /\ NumberInv' /\ Executing' = Executing
<1>1. Executing' <=> Executing
  BY DEF Executing
<1>2. ActiveWorkers' = ActiveWorkers
  BY DEF ActiveWorkers, shared
<1>3. RoundInv'
  BY <1>1, <1>2 DEF IInv, RoundInv, Executing, shared
<1>4. CounterInv' /\ NumberInv'
  BY <1>1, CountersKeep DEF shared
<1> QED BY <1>1, <1>3, <1>4 DEF Executing

LEMMA WorkerStartsKeeps ==
    ASSUME IInv, NEW w \in Workers, WorkerStarts(w)
    PROVE  IInv'
<1>1. pc[Main] \in {"createsleep", "createwoken"} /\ w = next
  BY DEF IInv, WorkerInv, WorkerStarts
<1>2. pc' = [pc EXCEPT ![Main] = "createwoken", ![w] = "sleep"]
  BY <1>1 DEF IInv, TypeOK, PcOK, WorkerStarts, Threads, Workers, Main
<1>3. /\ pc'[Main] = "createwoken" /\ pc'[w] = "sleep" /\ pc[w] = "born"
      /\ wdone'[w] /\ \A v \in Workers \ {w} : pc'[v] = pc[v] /\ wdone'[v] = wdone[v]
  <2>1. pc'[Main] = "createwoken" /\ pc'[w] = "sleep" /\ \A v \in Workers \ {w} : pc'[v] = pc[v]
    <3>1. Main \in Threads /\ Main \notin Workers /\ Workers \subseteq Threads
      BY DEF Threads, Workers, Main
    <3> QED BY <1>2, <3>1 DEF IInv, TypeOK, PcOK
  <2>2. pc[w] = "born" /\ wdone'[w] /\ \A v \in Workers \ {w} : wdone'[v] = wdone[v]
    BY DEF IInv, TypeOK, WorkerStarts
  <2> QED BY <2>1, <2>2
<1>4. PcOK'
  BY <1>2, BothMove, Places
<1>5. TypeOK'
  BY <1>4 DEF IInv, TypeOK, WorkerStarts, shared
<1>6. ~Executing' /\ ~Executing
  BY <1>1, <1>3 DEF Executing
<1>7. CallerInv'
  BY <1>1, <1>3, <1>6 DEF IInv, CallerInv, WorkerStarts, NbWorkers, shared
<1>8. WorkerInv'
  <2>1. next' = next /\ finished' = finished
    BY DEF WorkerStarts
  <2>2. \A v \in Workers \ {w} : pc[v] # "born" /\ pc'[v] = pc[v] /\ wdone'[v] = wdone[v]
    BY <1>1, <1>3 DEF IInv, WorkerInv
  <2> QED BY <1>3, <1>6, <2>1, <2>2 DEF IInv, WorkerInv
<1>9. PoolInv'
  BY <1>1, <1>3 DEF IInv, PoolInv, WorkerStarts, NbWorkers, shared
<1> QED BY <1>5, <1>6, <1>7, <1>8, <1>9, OutsideKeeps

LEMMA WorkerWakesKeeps ==
    ASSUME IInv, NEW w \in Workers, WorkerWakes(w)
    PROVE  IInv'
<1>1. PICK q \in {"sleep", "ended", "claim"} :
        /\ Goto(w, q)
        /\ q = "sleep" => wdone[w]
        /\ q = "ended" => finished
        /\ q = "claim" => ~wdone[w] /\ ~finished
  BY DEF WorkerWakes, IInv, TypeOK
<1>2. /\ UNCHANGED <<shared, firstJob, currentJob, done, finished, wdone, runMain, next, nr, cur>>
      /\ pc[w] = "woken"
  BY DEF WorkerWakes
<1>3. pc'[w] = q /\ pc'[Main] = pc[Main] /\ \A v \in Workers \ {w} : pc'[v] = pc[v]
  BY <1>1 DEF IInv, TypeOK, PcOK, Goto, Threads, Workers, Main
<1>4. PcOK'
  BY <1>1, WorkerMoves, Places
<1>5. TypeOK'
  BY <1>2, <1>4 DEF IInv, TypeOK, shared
<1>6. Executing' = Executing /\ (Executing => ~finished)
  BY <1>3 DEF IInv, CallerInv, Executing
<1>7. CallerInv' /\ PoolInv'
  BY <1>2, <1>3, <1>6 DEF IInv, CallerInv, PoolInv, NbWorkers, shared
<1>8. WorkerInv'
  BY <1>1, <1>2, <1>3, <1>6 DEF IInv, WorkerInv
<1>9. Executing => Unstarted' = Unstarted /\ Left' = Left
  <2>1. Participants' = Participants
    BY <1>2 DEF Participants, ActiveWorkers, shared
  <2> SUFFICES ASSUME Executing PROVE Unstarted' = Unstarted /\ Left' = Left
    OBVIOUS
  <2>2. q = "claim" => w < next
    BY <1>1, <1>2 DEF IInv, WorkerInv
  <2>3. Unstarted' = Unstarted
    BY <1>1, <1>2, <1>3, <1>6, <2>1 DEF Unstarted, Participants, Threads, Workers, Main
  <2>4. Left' = Left
    BY <1>1, <1>2, <1>3, <1>6, <2>1 DEF Left, Participants, Threads, Workers, Main
  <2> QED BY <2>3, <2>4
<1>10. \A t \in Threads : InJobs(t)' => InJobs(t)
  BY <1>1, <1>3 DEF InJobs, Threads
<1>11. RoundInv' /\ CounterInv' /\ NumberInv'
  BY <1>2, <1>3, <1>9, <1>10, AsideKeeps
<1>12. LastInv'
  BY <1>1, <1>2, <1>3 DEF IInv, LastInv, shared
<1> QED BY <1>5, <1>7, <1>8, <1>11, <1>12 DEF IInv

LEMMA SetDoneKeeps ==
    ASSUME IInv, NEW w \in Workers, SetDone(w)
    PROVE  IInv'
<1>1. /\ UNCHANGED <<shared, firstJob, currentJob, finished, wdone, runMain, next, nr, cur>>
      /\ pc[w] = "last" /\ done' /\ Executing /\ w < next
  BY DEF SetDone, IInv, WorkerInv
<1>2. PICK p \in CallerPcs :
        /\ pc' = [pc EXCEPT ![Main] = p, ![w] = "loop"]
        /\ IF pc[Main] = "donesleep" THEN p = "donewoken" ELSE p = pc[Main]
  <2>1. CASE pc[Main] = "donesleep"
    BY <2>1, Places DEF SetDone
  <2>2. CASE pc[Main] # "donesleep"
    <3>1. pc[Main] \in CallerPcs /\ pc' = [pc EXCEPT ![Main] = pc[Main], ![w] = "loop"]
      BY <2>2 DEF IInv, TypeOK, PcOK, SetDone
    <3> QED BY <2>2, <3>1
  <2> QED BY <2>1, <2>2
<1>3. pc'[w] = "loop" /\ pc'[Main] = p /\ \A v \in Workers \ {w} : pc'[v] = pc[v]
  BY <1>2 DEF IInv, TypeOK, PcOK, Threads, Workers, Main
<1>4. PcOK'
  BY <1>2, BothMove, Places
<1>5. TypeOK'
  BY <1>1, <1>4 DEF IInv, TypeOK, SetDone, shared
<1>6. Executing'
  BY <1>1, <1>2, <1>3 DEF Executing
<1>7. CallerInv' /\ PoolInv'
  BY <1>1, <1>2, <1>3, <1>6 DEF IInv, CallerInv, PoolInv, NbWorkers, shared
<1>8. WorkerInv'
  BY <1>1, <1>2, <1>3, <1>6 DEF IInv, WorkerInv
<1>9. Unstarted' = Unstarted /\ Left' = Left
  <2>1. Participants' = Participants
    BY <1>1 DEF Participants, ActiveWorkers, shared
  <2>2. Unstarted' = Unstarted
    BY <1>1, <1>2, <1>3, <2>1 DEF Unstarted, Participants, Threads, Workers, Main
  <2>3. Left' = Left
    BY <1>1, <1>2, <1>3, <2>1 DEF Left, Participants, Threads, Workers, Main
  <2> QED BY <2>2, <2>3
<1>10. \A t \in Threads : InJobs(t)' => InJobs(t)
  BY <1>2, <1>3 DEF InJobs, Threads
<1>11. RoundInv' /\ CounterInv' /\ NumberInv'
  BY <1>1, <1>2, <1>3, <1>9, <1>10, AsideKeeps
<1>12. LastInv'
  BY <1>1, <1>3 DEF IInv, LastInv, shared
<1> QED BY <1>5, <1>7, <1>8, <1>11, <1>12 DEF IInv

LEMMA WorkerSleepsKeeps ==
    ASSUME IInv, NEW w \in Workers, WorkerSleeps(w)
    PROVE  IInv'
<1>1. /\ UNCHANGED <<shared, firstJob, currentJob, done, finished, runMain, next, nr, cur>>
      /\ pc[w] = "loop" /\ Goto(w, "sleep")
  BY DEF WorkerSleeps
<1>2. /\ pc'[w] = "sleep" /\ wdone'[w] /\ pc'[Main] = pc[Main]
      /\ \A v \in Workers \ {w} : pc'[v] = pc[v] /\ wdone'[v] = wdone[v]
  BY <1>1 DEF IInv, TypeOK, PcOK, WorkerSleeps, Goto, Threads, Workers, Main
<1>3. PcOK'
  BY <1>1, WorkerMoves, Places
<1>4. TypeOK'
  BY <1>1, <1>3 DEF IInv, TypeOK, WorkerSleeps, shared
<1>5. Executing' = Executing
  BY <1>2 DEF Executing
<1>6. CallerInv' /\ PoolInv'
  BY <1>1, <1>2, <1>5 DEF IInv, CallerInv, PoolInv, NbWorkers, shared
<1>7. WorkerInv'
  BY <1>1, <1>2, <1>5 DEF IInv, WorkerInv
<1>8. Unstarted' = Unstarted /\ Left' = Left
  <2>1. Participants' = Participants
    BY <1>1 DEF Participants, ActiveWorkers, shared
  <2>2. Unstarted' = Unstarted
    BY <1>1, <1>2, <2>1 DEF Unstarted, Participants, Threads, Workers, Main
  <2>3. Left' = Left
    BY <1>1, <1>2, <2>1 DEF Left, Participants, Threads, Workers, Main
  <2> QED BY <2>2, <2>3
<1>9. \A t \in Threads : InJobs(t)' => InJobs(t)
  BY <1>2 DEF InJobs, Threads
<1>10. RoundInv' /\ CounterInv' /\ NumberInv'
  BY <1>1, <1>2, <1>8, <1>9, AsideKeeps
<1>11. LastInv'
  BY <1>1, <1>2 DEF IInv, LastInv, shared
<1> QED BY <1>4, <1>6, <1>7, <1>10, <1>11 DEF IInv

LEMMA SpuriousWakeupKeeps ==
    ASSUME IInv, NEW t \in Threads, SpuriousWakeup(t)
    PROVE  IInv'
<1>1. /\ UNCHANGED <<shared, firstJob, currentJob, done, finished, wdone, runMain, next, nr, cur>>
      /\ \/ pc[t] = "sleep" /\ Goto(t, "woken")
         \/ pc[t] = "createsleep" /\ Goto(t, "createwoken")
         \/ pc[t] = "donesleep" /\ Goto(t, "donewoken")
  BY DEF SpuriousWakeup
<1>2. /\ \A u \in Threads \ {t} : pc'[u] = pc[u]
      /\ \/ t \in Workers /\ pc[t] = "sleep" /\ pc'[t] = "woken" /\ wdone[t]
         \/ t = Main /\ pc[t] = "createsleep" /\ pc'[t] = "createwoken"
         \/ t = Main /\ pc[t] = "donesleep" /\ pc'[t] = "donewoken"
  <2>1. CASE t \in Workers
    BY <1>1, <2>1 DEF IInv, TypeOK, PcOK, WorkerPcs, WorkerInv, Goto
  <2>2. CASE t = Main
    BY <1>1, <2>2 DEF IInv, TypeOK, PcOK, CallerPcs, Goto
  <2> QED BY <2>1, <2>2 DEF Threads
<1>3. PcOK'
  <2>1. CASE t \in Workers
    BY <1>1, <1>2, <2>1, WorkerMoves, Places DEF Workers, Main
  <2>2. CASE t = Main
    BY <1>1, <1>2, <2>2, CallerMoves, Places DEF Workers, Main
  <2> QED BY <2>1, <2>2 DEF Threads
<1>4. TypeOK'
  BY <1>1, <1>3 DEF IInv, TypeOK, shared
<1>5. \/ pc'[Main] = pc[Main]
      \/ pc[Main] = "createsleep" /\ pc'[Main] = "createwoken"
      \/ pc[Main] = "donesleep" /\ pc'[Main] = "donewoken"
  BY <1>2 DEF Threads, Workers, Main
<1>6. \A v \in Workers : pc'[v] = pc[v] \/ (pc[v] = "sleep" /\ pc'[v] = "woken" /\ wdone[v])
  BY <1>2 DEF Threads, Workers, Main
<1>7. Executing' <=> Executing
  BY <1>5 DEF Executing
<1>8. CallerInv' /\ PoolInv'
  BY <1>1, <1>5, <1>6, <1>7 DEF IInv, CallerInv, PoolInv, NbWorkers, shared
<1>9. WorkerInv'
  BY <1>1, <1>5, <1>6, <1>7 DEF IInv, WorkerInv
<1>10. Unstarted' = Unstarted /\ Left' = Left
  <2>1. Participants' = Participants
    BY <1>1 DEF Participants, ActiveWorkers, shared
  <2>2. Unstarted' = Unstarted
    BY <1>1, <1>5, <1>6, <2>1 DEF Unstarted, Participants, Threads, Workers, Main
  <2>3. Left' = Left
    BY <1>1, <1>5, <1>6, <2>1 DEF Left, Participants, Threads, Workers, Main
  <2> QED BY <2>2, <2>3
<1>11. \A u \in Threads : InJobs(u)' => InJobs(u)
  BY <1>5, <1>6 DEF InJobs, Threads
<1>12. RoundInv' /\ CounterInv' /\ NumberInv'
  BY <1>1, <1>5, <1>10, <1>11, AsideKeeps
<1>13. LastInv'
  BY <1>1, <1>6 DEF IInv, LastInv, shared
<1> QED BY <1>4, <1>8, <1>9, <1>12, <1>13 DEF IInv

-----------------------------------------------------------------------------
(* The invariant is inductive. *)
THEOREM Inductive == Spec => []IInv
<1>1. Init => IInv
  <2> SUFFICES ASSUME Init PROVE IInv
    OBVIOUS
  <2>1. TypeOK
    <3>1. PcOK
      BY Places DEF Init, PcOK, Threads
    <3>2. /\ nbThreads \in 0 .. MaxThreads /\ nbJobs \in 0 .. MaxJobs /\ nbActive \in 0 .. MaxThreads
          /\ firstJob \in Nat /\ currentJob \in Nat /\ next \in 1 .. MaxThreads + 1
      BY SliceThreadAssumption DEF Init
    <3>3. /\ mainFunc \in BOOLEAN /\ done \in BOOLEAN /\ finished \in BOOLEAN /\ runMain \in BOOLEAN
          /\ wdone \in [Workers -> BOOLEAN]
      BY DEF Init
    <3>4. nr \in [Threads -> Nat] /\ cur \in [Threads -> Nat]
      BY DEF Init
    <3> QED BY <3>1, <3>2, <3>3, <3>4 DEF TypeOK
  <2>2. CallerInv /\ WorkerInv /\ PoolInv
    BY SliceThreadAssumption DEF Init, CallerInv, WorkerInv, PoolInv, Executing, Threads, Workers, Main
  <2>3. RoundInv /\ CounterInv /\ NumberInv /\ LastInv
    BY SliceThreadAssumption DEF Init, RoundInv, CounterInv, NumberInv, LastInv, InJobs, Executing, Threads, Workers, Main
  <2> QED BY <2>1, <2>2, <2>3 DEF IInv
<1>2. IInv /\ [Next]_vars => IInv'
  <2> SUFFICES ASSUME IInv, [Next]_vars PROVE IInv'
    OBVIOUS
  <2>1. CASE UNCHANGED vars
    BY <2>1 DEF IInv, TypeOK, PcOK, CallerInv, WorkerInv, PoolInv, RoundInv, CounterInv, NumberInv,
       LastInv, InJobs, Executing, Unstarted, Left, Participants, ActiveWorkers, NbWorkers, vars
  <2>2. CASE \E n \in 1 .. MaxThreads, b \in BOOLEAN : Create(n, b)
    BY <2>2, CreateKeeps
  <2>3. CASE \E n \in 1 .. MaxJobs, b \in BOOLEAN : Execute(n, b)
    BY <2>3, ExecuteKeeps
  <2>4. CASE Free
    BY <2>4, FreeKeeps
  <2>5. CASE CallerStep
    BY <2>5, CreateWorkerKeeps, CreateFailsKeeps, CreateWakesKeeps, CreateReturnsKeeps,
       SignalWorkerKeeps, CallerGoesOn, WaitDoneKeeps, FreeSignalsKeeps, FreeSignalledKeeps,
       JoinKeeps, FreeReturnsKeeps, RunJobsKeeps DEF CallerStep, Threads
  <2>6. CASE \E w \in Workers : WorkerStep(w)
    BY <2>6, WorkerStartsKeeps, WorkerWakesKeeps, SetDoneKeeps, WorkerSleepsKeeps, RunJobsKeeps
       DEF WorkerStep, Threads
  <2>7. CASE \E t \in Threads : SpuriousWakeup(t)
    BY <2>7, SpuriousWakeupKeeps
  <2> QED BY <2>1, <2>2, <2>3, <2>4, <2>5, <2>6, <2>7 DEF Next
<1> QED BY <1>1, <1>2, PTL DEF Spec

(* Every field, and every thread's position, stays of its kind. *)
THEOREM Typing == Spec => []TypeOK
<1>1. IInv => TypeOK
  BY DEF IInv
<1> QED BY <1>1, Inductive, PTL

(* When execute has returned no worker is in its jobs or about to set      *)
(* ctx->done, and ctx->done is clear, whatever the number of threads.      *)
THEOREM ExecuteLeavesNobody == Spec => []Quiet
<1>1. IInv => Quiet
  BY DEF IInv, Quiet, CallerInv, WorkerInv
<1> QED BY <1>1, Inductive, PTL

(* No two threads are ever given the same job or the same threadnr. *)
THEOREM NumbersAreDistinct == Spec => []DistinctNumbers
<1>1. IInv => DistinctNumbers
  <2> SUFFICES ASSUME IInv, NEW t \in Threads, InJobs(t)
               PROVE  /\ nr[t] < nbActive /\ cur[t] < nbJobs
                      /\ \A u \in Threads \ {t} : InJobs(u) => nr[u] # nr[t] /\ cur[u] # cur[t]
    BY DEF DistinctNumbers
  <2>1. firstJob <= nbActive
    BY InsideMeansNotLast, Sets DEF IInv, TypeOK, CounterInv
  <2> QED BY <2>1 DEF IInv, TypeOK, NumberInv
<1> QED BY <1>1, Inductive, PTL

(* The parameters of a call stay put while a thread works with its copies. *)
THEOREM CopiesAreFresh == Spec => RoundFixed
<1>1. IInv /\ [Next]_vars => [(\E t \in Threads : InJobs(t)) => UNCHANGED <<nbJobs, nbActive>>]_vars
  <2> SUFFICES ASSUME IInv, Next, NEW t \in Threads, InJobs(t)
               PROVE  UNCHANGED <<nbJobs, nbActive>>
    OBVIOUS
  <2>1. Executing
    BY InsideMeansNotLast
  <2>2. ~(\E n \in 1 .. MaxThreads, b \in BOOLEAN : Create(n, b)) /\ ~FreeReturns
        /\ ~(\E n \in 1 .. MaxJobs, b \in BOOLEAN : Execute(n, b))
    BY <2>1 DEF Executing, Create, Execute, FreeReturns
  <2> QED BY <2>2 DEF Next, Free, CallerStep, CreateWorker, CreateFails, CreateWakes, CreateReturns,
          SignalWorker, AllSignalled, MainFuncReturns, WaitDone, FreeSignals, FreeSignalled, Join,
          RunJobs, Claim, WorkerFuncReturns, NextJob, WorkerStep, WorkerStarts, WorkerWakes,
          SetDone, WorkerSleeps, SpuriousWakeup, shared
<1> QED BY <1>1, Inductive, PTL DEF Spec, RoundFixed

-----------------------------------------------------------------------------
(***************************************************************************)
(* The pool of SliceThread implements the safety part of ParallelFor for   *)
(* every number of threads and jobs: each job of a call is run once, and   *)
(* execute returns when all of them are done.                              *)
(***************************************************************************)

\* The jobs of the call, as ParallelFor sees them.
Jobs == IF Executing THEN [j \in 0 .. nbJobs - 1 |-> JobState(j)] ELSE <<>>

\* The steps of the pool that ParallelFor does not see.
Silent == (Executing' <=> Executing) /\ Jobs' = Jobs

(* A step is silent if it is outside a call, or if no job is handed out or *)
(* finished by it.                                                         *)
LEMMA OutsideIsSilent ==
    ASSUME ~Executing, ~Executing'
    PROVE  Silent
BY DEF Silent, Jobs

LEMMA AsideIsSilent ==
    ASSUME Executing' <=> Executing,
           UNCHANGED <<nbJobs, nbActive, firstJob, currentJob, cur>>,
           \A t \in Threads : pc'[t] = "func" <=> pc[t] = "func"
    PROVE  Silent
<1>1. \A j \in 0 .. nbJobs - 1 : JobState(j)' = JobState(j)
  BY DEF JobState, Claimed
<1> QED BY <1>1 DEF Silent, Jobs

(* What the invariant says of numbers while a call runs. *)
LEMMA Numbers ==
    ASSUME IInv, Executing
    PROVE  /\ nbJobs \in 1 .. MaxJobs /\ MaxJobs \in Nat
           /\ firstJob \in Nat /\ nbActive \in Nat /\ currentJob \in Nat
           /\ firstJob <= nbActive /\ nbActive <= nbJobs /\ nbActive <= currentJob
<1>1. Cardinality(Unstarted) \in Nat
  BY Sets DEF IInv
<1> QED BY <1>1, SliceThreadAssumption DEF IInv, TypeOK, RoundInv, CounterInv

(* If only job k changes its state, k is what changes of the function.     *)
LEMMA OneJobChanges ==
    ASSUME Executing, Executing', nbJobs' = nbJobs, NEW k \in 0 .. nbJobs - 1,
           \A j \in (0 .. nbJobs - 1) \ {k} : JobState(j)' = JobState(j)
    PROVE  /\ k \in DOMAIN Jobs /\ Jobs[k] = JobState(k)
           /\ Jobs' = [Jobs EXCEPT ![k] = JobState(k)']
BY DEF Jobs

-----------------------------------------------------------------------------
(* The steps that ParallelFor sees                                         *)

LEMMA ExecuteImplements ==
    ASSUME IInv, NEW n \in 1 .. MaxJobs, NEW b \in BOOLEAN, Execute(n, b)
    PROVE  Parallel!Execute(n)
<1>1. ~Executing /\ Executing'
  BY DEF IInv, TypeOK, PcOK, Execute, Goto, Executing, Threads, Main
<1>2. \A j \in 0 .. n - 1 : ~Claimed(j)'
  BY SliceThreadAssumption DEF Execute, Claimed, IInv, TypeOK
<1>3. Jobs' = [j \in 0 .. n - 1 |-> "todo"]
  BY <1>1, <1>2 DEF Jobs, JobState, Execute
<1> QED BY <1>1, <1>3 DEF Parallel!Execute, Jobs

(* Taking a number starts the job that has it, and nobody had it before.   *)
LEMMA StartImplements ==
    ASSUME IInv, Executing, Executing', NEW t \in Threads, NEW k \in 0 .. nbJobs - 1,
           nbJobs' = nbJobs, pc[t] # "func", pc'[t] = "func", cur'[t] = k,
           \A u \in Threads \ {t} : pc'[u] = pc[u] /\ cur'[u] = cur[u],
           ~Claimed(k), Claimed(k)',
           \A j \in (0 .. nbJobs - 1) \ {k} : Claimed(j)' <=> Claimed(j)
    PROVE  Parallel!Start(k)
<1>1. JobState(k) = "todo" /\ JobState(k)' = "running"
  BY DEF JobState
<1>2. ASSUME NEW j \in (0 .. nbJobs - 1) \ {k}
      PROVE  JobState(j)' = JobState(j)
  <2>1. (\E u \in Threads : pc'[u] = "func" /\ cur'[u] = j)
          <=> (\E u \in Threads : pc[u] = "func" /\ cur[u] = j)
    OBVIOUS
  <2> QED BY <2>1 DEF JobState
<1>3. /\ k \in DOMAIN Jobs /\ Jobs[k] = "todo"
      /\ Jobs' = [Jobs EXCEPT ![k] = "running"]
  BY <1>1, <1>2, OneJobChanges
<1> QED BY <1>3 DEF Parallel!Start, Jobs

LEMMA ClaimImplements ==
    ASSUME IInv, NEW t \in Threads, Claim(t)
    PROVE  \E k \in 0 .. MaxJobs - 1 : Parallel!Start(k)
<1>1. /\ pc[t] = "claim" /\ Goto(t, "func") /\ firstJob' = firstJob + 1
      /\ UNCHANGED <<nbJobs, nbActive, currentJob>>
      /\ cur' = [cur EXCEPT ![t] = firstJob]
  BY DEF Claim, shared
<1>2. /\ pc'[t] = "func" /\ \A u \in Threads \ {t} : pc'[u] = pc[u]
      /\ Executing /\ Executing' /\ t \in Participants
  BY <1>1, Places, JobsPosition
<1>3. firstJob < nbActive
  <2>1. t \in Unstarted
    BY <1>1, <1>2 DEF Unstarted
  <2>2. Cardinality(Unstarted) \in Nat /\ Cardinality(Unstarted) # 0
    BY <1>2, <2>1, Sets, FS_EmptySet DEF IInv
  <2> QED BY <1>2, <2>2 DEF IInv, TypeOK, CounterInv
<1>4. PICK k \in 0 .. nbJobs - 1 : k = firstJob /\ k \in 0 .. MaxJobs - 1
  <2>1. firstJob \in 0 .. nbJobs - 1 /\ firstJob \in 0 .. MaxJobs - 1
    BY <1>2, <1>3, Numbers
  <2> QED BY <2>1
<1>5. ~Claimed(k) /\ Claimed(k)'
  BY <1>1, <1>2, <1>3, <1>4, Numbers DEF Claimed
<1>6. \A j \in (0 .. nbJobs - 1) \ {k} : Claimed(j)' <=> Claimed(j)
  BY <1>1, <1>4 DEF Claimed
<1>7. cur'[t] = k /\ \A u \in Threads \ {t} : cur'[u] = cur[u]
  BY <1>1, <1>4 DEF IInv, TypeOK
<1>8. Parallel!Start(k)
  BY <1>1, <1>2, <1>4, <1>5, <1>6, <1>7, StartImplements
<1> QED BY <1>4, <1>8

LEMMA TakesAJobImplements ==
    ASSUME IInv, NEW t \in Threads, NextJob(t), currentJob < nbJobs
    PROVE  \E k \in 0 .. MaxJobs - 1 : Parallel!Start(k)
<1>1. /\ pc[t] = "next" /\ Goto(t, "func") /\ currentJob' = currentJob + 1
      /\ UNCHANGED <<nbJobs, nbActive, firstJob>>
      /\ cur' = [cur EXCEPT ![t] = currentJob]
  BY DEF NextJob, shared
<1>2. /\ pc'[t] = "func" /\ \A u \in Threads \ {t} : pc'[u] = pc[u]
      /\ Executing /\ Executing'
  BY <1>1, Places, JobsPosition
<1>4. PICK k \in 0 .. nbJobs - 1 : k = currentJob /\ k \in 0 .. MaxJobs - 1
  BY <1>2, Numbers
<1>5. ~Claimed(k) /\ Claimed(k)'
  BY <1>1, <1>2, <1>4, Numbers DEF Claimed
<1>6. \A j \in (0 .. nbJobs - 1) \ {k} : Claimed(j)' <=> Claimed(j)
  BY <1>1, <1>4 DEF Claimed
<1>7. cur'[t] = k /\ \A u \in Threads \ {t} : cur'[u] = cur[u]
  BY <1>1, <1>4 DEF IInv, TypeOK
<1>8. Parallel!Start(k)
  BY <1>1, <1>2, <1>4, <1>5, <1>6, <1>7, StartImplements
<1> QED BY <1>4, <1>8

(* When worker_func returns the job is done: nobody else runs it.          *)
LEMMA FuncReturnsImplements ==
    ASSUME IInv, NEW t \in Threads, WorkerFuncReturns(t)
    PROVE  \E k \in 0 .. MaxJobs - 1 : Parallel!Finish(k)
<1>1. /\ UNCHANGED <<nbJobs, nbActive, firstJob, currentJob, cur>>
      /\ pc[t] = "func" /\ Goto(t, "next")
  BY DEF WorkerFuncReturns, shared
<1>2. /\ pc'[t] = "next" /\ \A u \in Threads \ {t} : pc'[u] = pc[u]
      /\ Executing /\ Executing'
  BY <1>1, Places, JobsPosition
<1>3. /\ cur[t] \in Nat /\ cur[t] < nbJobs /\ nr[t] \in Nat /\ nr[t] < firstJob
      /\ cur[t] = nr[t] \/ (nbActive <= cur[t] /\ cur[t] < currentJob)
      /\ \A u \in Threads \ {t} : pc[u] = "func" => cur[u] # cur[t]
  BY <1>1 DEF IInv, TypeOK, NumberInv, InJobs
<1>4. PICK k \in 0 .. nbJobs - 1 : k = cur[t] /\ k \in 0 .. MaxJobs - 1
  BY <1>2, <1>3, Numbers
<1>5. \A j \in 0 .. nbJobs - 1 : Claimed(j)' <=> Claimed(j)
  BY <1>1 DEF Claimed
<1>6. JobState(k) = "running" /\ JobState(k)' = "done"
  <2>1. Claimed(k)
    BY <1>3, <1>4 DEF Claimed
  <2> QED BY <1>1, <1>2, <1>3, <1>4, <1>5, <2>1 DEF JobState
<1>7. ASSUME NEW j \in (0 .. nbJobs - 1) \ {k}
      PROVE  JobState(j)' = JobState(j)
  <2>1. (\E u \in Threads : pc'[u] = "func" /\ cur'[u] = j)
          <=> (\E u \in Threads : pc[u] = "func" /\ cur[u] = j)
    BY <1>1, <1>2, <1>4
  <2> QED BY <1>5, <2>1 DEF JobState
<1>8. /\ k \in DOMAIN Jobs /\ Jobs[k] = "running"
      /\ Jobs' = [Jobs EXCEPT ![k] = "done"]
  BY <1>1, <1>2, <1>6, <1>7, OneJobChanges
<1> QED BY <1>2, <1>4, <1>8 DEF Parallel!Finish, Jobs

(* The caller leaves the call when every job has been handed out and no    *)
(* thread is left in one.                                                  *)
LEMMA ReturnImplements ==
    ASSUME IInv, IInv', Executing, ~Executing', pc[Main] # "func", pc[Main] \notin {"signal", "claim"},
           ~finished, UNCHANGED <<finished, wdone>>, nbJobs <= currentJob,
           \A w \in Workers : pc'[w] = pc[w]
    PROVE  Parallel!Return
<1>1. \A w \in Workers : pc[w] \notin {"claim", "func"} /\ ~(pc[w] = "woken" /\ ~wdone[w])
  BY DEF IInv, WorkerInv
<1>2. Unstarted = {}
  <2>1. next = ActiveWorkers + 1
    BY DEF IInv, RoundInv
  <2>2. ActiveWorkers \in Int
    BY DEF IInv, TypeOK, ActiveWorkers
  <2>3. \A w \in Workers : w \in Participants => ~(w >= next)
    BY <2>1, <2>2 DEF Participants, Workers, Main
  <2>4. \A t \in Participants : t \notin Unstarted
    BY <1>1, <2>3 DEF Unstarted, Participants, Threads
  <2> QED BY <2>4 DEF Unstarted
<1>3. firstJob = nbActive
  BY <1>2, FS_EmptySet DEF IInv, TypeOK, CounterInv
<1>4. \A j \in 0 .. nbJobs - 1 : Claimed(j)
  BY <1>3, Numbers DEF Claimed
<1>5. \A j \in 0 .. nbJobs - 1 : JobState(j) = "done"
  BY <1>1, <1>4 DEF JobState, Threads
<1> QED BY <1>5 DEF Parallel!Return

-----------------------------------------------------------------------------
(* The threads' steps *)

LEMMA RunJobsImplements ==
    ASSUME IInv, IInv', NEW t \in Threads, RunJobs(t)
    PROVE  Parallel!Next \/ Silent
<1>1. CASE Claim(t)
  BY <1>1, ClaimImplements DEF Parallel!Next, Parallel!Work
<1>2. CASE WorkerFuncReturns(t)
  BY <1>2, FuncReturnsImplements DEF Parallel!Next, Parallel!Work
<1>3. CASE NextJob(t) /\ currentJob < nbJobs
  BY <1>3, TakesAJobImplements DEF Parallel!Next, Parallel!Work
<1>4. CASE NextJob(t) /\ ~(currentJob < nbJobs)
  <2>1. /\ UNCHANGED <<nbJobs, nbActive, firstJob, finished, wdone>>
        /\ pc[t] = "next" /\ Goto(t, AfterJobs(t, currentJob)) /\ currentJob' = currentJob + 1
        /\ cur' = [cur EXCEPT ![t] = 0]
    BY <1>4 DEF NextJob, shared
  <2>2. PICK q \in {"idle", "wait", "last", "loop"} :
          /\ q = AfterJobs(t, currentJob)
          /\ IF t = Main THEN q \in {"idle", "wait"} ELSE q \in {"last", "loop"}
    BY DEF AfterJobs
  <2>3. /\ pc'[t] = q /\ \A u \in Threads \ {t} : pc'[u] = pc[u]
        /\ Executing /\ (q # "idle" => Executing')
    BY <2>1, <2>2, Places, JobsPosition
  <2>4. nbJobs <= currentJob
    BY <1>4, <2>3, Numbers
  <2>5. CASE q = "idle"
    <3>1. t = Main /\ ~Executing' /\ \A w \in Workers : pc'[w] = pc[w]
      BY <2>2, <2>3, <2>5 DEF Executing, Threads, Workers, Main
    <3>2. ~finished
      BY <2>3 DEF IInv, CallerInv, Executing
    <3> QED BY <2>1, <2>3, <2>4, <3>1, <3>2, ReturnImplements DEF Parallel!Next, Parallel!Work
  <2>6. CASE q # "idle"
    <3>1. ASSUME NEW j \in 0 .. nbJobs - 1
          PROVE  JobState(j)' = JobState(j)
      <4>1. Claimed(j)' <=> Claimed(j)
        BY <2>1, <2>3, <2>4, Numbers DEF Claimed
      <4>2. \A u \in Threads : pc'[u] = "func" /\ cur'[u] = j <=> pc[u] = "func" /\ cur[u] = j
        BY <2>1, <2>3 DEF IInv, TypeOK
      <4> QED BY <4>1, <4>2 DEF JobState
    <3> QED BY <2>1, <2>3, <2>6, <3>1 DEF Silent, Jobs
  <2> QED BY <2>5, <2>6
<1> QED BY <1>1, <1>2, <1>3, <1>4 DEF RunJobs

LEMMA WaitDoneImplements ==
    ASSUME IInv, IInv', WaitDone
    PROVE  Parallel!Next \/ Silent
<1>1. /\ UNCHANGED <<nbJobs, nbActive, firstJob, currentJob, finished, wdone, cur>>
      /\ pc[Main] \in {"wait", "donewoken"} /\ Executing
  BY DEF WaitDone, shared, Executing
<1>2. CASE done
  <2>1. /\ pc'[Main] = "idle" /\ ~Executing' /\ \A w \in Workers : pc'[w] = pc[w]
    BY <1>2 DEF IInv, TypeOK, PcOK, WaitDone, Goto, Executing, Threads, Workers, Main
  <2>2. nbJobs <= currentJob /\ ~finished
    BY <1>1, <1>2, Numbers DEF IInv, LastInv, CallerInv
  <2> QED BY <1>1, <2>1, <2>2, ReturnImplements DEF Parallel!Next, Parallel!Work
<1>3. CASE ~done
  <2>1. /\ pc'[Main] = "donesleep" /\ \A u \in Threads \ {Main} : pc'[u] = pc[u]
    BY <1>3 DEF IInv, TypeOK, PcOK, WaitDone, Goto, Threads, Main
  <2> QED BY <1>1, <2>1, AsideIsSilent DEF Executing
<1> QED BY <1>2, <1>3

(* The caller outside execute.  Create and Free begin there.               *)
LEMMA CallerOutside ==
    ASSUME IInv,
           \/ \E n \in 1 .. MaxThreads, b \in BOOLEAN : Create(n, b)
           \/ CreateWorker \/ CreateFails \/ CreateWakes \/ CreateReturns
           \/ Free \/ FreeSignals \/ FreeSignalled \/ Join \/ FreeReturns
    PROVE  Silent
<1> USE DEF Goto, GotoAndSignal, Executing
<1>1. pc \in [Threads -> CallerPcs \cup WorkerPcs] /\ Main \in Threads /\ next # Main
  BY SliceThreadAssumption DEF IInv, TypeOK, PcOK, Threads, Main
<1>2. CASE \/ \E n \in 1 .. MaxThreads, b \in BOOLEAN : Create(n, b)
           \/ CreateFails \/ CreateReturns \/ Free \/ FreeSignalled \/ FreeReturns
  BY <1>1, <1>2, OutsideIsSilent DEF Create, CreateFails, CreateReturns, Free, FreeSignalled, FreeReturns
<1>3. CASE CreateWorker \/ CreateWakes \/ FreeSignals \/ Join
  BY <1>1, <1>3, OutsideIsSilent DEF CreateWorker, CreateWakes, FreeSignals, Join
<1> QED BY <1>2, <1>3

(* The caller in execute, before its own jobs.                             *)
LEMMA CallerAside ==
    ASSUME IInv, SignalWorker \/ AllSignalled \/ MainFuncReturns
    PROVE  Silent
<1>1. pc \in [Threads -> CallerPcs \cup WorkerPcs] /\ Main \in Threads /\ next # Main
  BY SliceThreadAssumption DEF IInv, TypeOK, PcOK, Threads, Main
<1>2. UNCHANGED <<nbJobs, nbActive, firstJob, currentJob, cur>>
  BY DEF SignalWorker, AllSignalled, MainFuncReturns, shared
<1>3. /\ Executing /\ Executing'
      /\ \A t \in Threads : pc'[t] = "func" <=> pc[t] = "func"
  BY <1>1 DEF SignalWorker, AllSignalled, MainFuncReturns, Goto, GotoAndSignal, MutexFree, Executing
<1> QED BY <1>2, <1>3, AsideIsSilent

LEMMA WorkerAside ==
    ASSUME IInv, NEW w \in Workers,
           WorkerStarts(w) \/ WorkerWakes(w) \/ SetDone(w) \/ WorkerSleeps(w)
    PROVE  Silent
<1>1. /\ pc \in [Threads -> CallerPcs \cup WorkerPcs]
      /\ Main \in Threads /\ w \in Threads /\ w # Main
  BY SliceThreadAssumption DEF IInv, TypeOK, PcOK, Threads, Workers, Main
<1>2. UNCHANGED <<nbJobs, nbActive, firstJob, currentJob, cur>>
  BY DEF WorkerStarts, WorkerWakes, SetDone, WorkerSleeps, shared
<1>3. \A t \in Threads : pc'[t] = "func" <=> pc[t] = "func"
  BY <1>1 DEF WorkerStarts, WorkerWakes, SetDone, WorkerSleeps, Goto
<1>4. \/ pc'[Main] = pc[Main]
      \/ pc[Main] = "createsleep" /\ pc'[Main] = "createwoken"
      \/ pc[Main] = "donesleep" /\ pc'[Main] = "donewoken"
  BY <1>1 DEF WorkerStarts, WorkerWakes, SetDone, WorkerSleeps, Goto
<1> QED BY <1>2, <1>3, <1>4, AsideIsSilent DEF Executing

LEMMA SpuriousAside ==
    ASSUME IInv, NEW t \in Threads, SpuriousWakeup(t)
    PROVE  Silent
<1>1. pc \in [Threads -> CallerPcs \cup WorkerPcs] /\ Main \in Threads
  BY DEF IInv, TypeOK, PcOK, Threads
<1>2. UNCHANGED <<nbJobs, nbActive, firstJob, currentJob, cur>>
  BY DEF SpuriousWakeup, shared
<1>3. \E q \in {"woken", "createwoken", "donewoken"} :
         /\ pc' = [pc EXCEPT ![t] = q]
         /\ q = "woken" => pc[t] = "sleep"
         /\ q = "createwoken" => pc[t] = "createsleep"
         /\ q = "donewoken" => pc[t] = "donesleep"
  BY DEF SpuriousWakeup, Goto
<1>4. Executing' <=> Executing
  BY <1>1, <1>3 DEF Executing
<1>5. \A u \in Threads : pc'[u] = "func" <=> pc[u] = "func"
  BY <1>1, <1>3
<1> QED BY <1>2, <1>4, <1>5, AsideIsSilent

-----------------------------------------------------------------------------
(* Whatever the number of threads and jobs, and whichever of them is late, *)
(* execute runs each job once and returns when the last has been done.     *)
THEOREM PoolImplementsParallelFor == Spec => Parallel!Safety
<1>1. Init => Parallel!Init
  BY DEF Init, Parallel!Init, Executing, Threads, Main
<1>2. IInv /\ IInv' /\ [Next]_vars => [Parallel!Next]_(Parallel!pvars)
  <2> SUFFICES ASSUME IInv, IInv', [Next]_vars
               PROVE  Parallel!Next \/ Silent
    BY DEF Silent, Jobs, Executing, Parallel!pvars
  <2>1. CASE UNCHANGED vars
    BY <2>1, AsideIsSilent DEF vars, shared, Executing
  <2>2. CASE \E n \in 1 .. MaxThreads, b \in BOOLEAN : Create(n, b)
    BY <2>2, CallerOutside
  <2>3. CASE \E n \in 1 .. MaxJobs, b \in BOOLEAN : Execute(n, b)
    BY <2>3, ExecuteImplements DEF Parallel!Next
  <2>4. CASE Free
    BY <2>4, CallerOutside
  <2>5. CASE CallerStep
    BY <2>5, CallerOutside, CallerAside, WaitDoneImplements, RunJobsImplements
       DEF CallerStep, Threads
  <2>6. CASE \E w \in Workers : WorkerStep(w)
    BY <2>6, WorkerAside, RunJobsImplements DEF WorkerStep, Threads
  <2>7. CASE \E t \in Threads : SpuriousWakeup(t)
    BY <2>7, SpuriousAside
  <2> QED BY <2>1, <2>2, <2>3, <2>4, <2>5, <2>6, <2>7 DEF Next
<1> QED BY <1>1, <1>2, Inductive, PTL DEF Spec, Parallel!Safety
=============================================================================
