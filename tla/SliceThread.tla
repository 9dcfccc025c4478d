----------------------------- MODULE SliceThread -----------------------------
(***************************************************************************)
(* libavutil/slicethread.c: a pool of workers that runs the jobs of one    *)
(* execute call after another.  Thread Main is the caller; the others are  *)
(* ctx->workers[0 ..] numbered from 1.                                     *)
(*                                                                         *)
(* A worker holds its own w->mutex from its birth to its end except inside *)
(* pthread_cond_wait, so the caller gets that mutex only while the worker  *)
(* is "sleep" (in the wait) or "woken" (signalled, or spuriously awake,    *)
(* and not yet back with the mutex).  What a thread does with a mutex held *)
(* and no wait in it is one step, and so is each atomic counter access.    *)
(***************************************************************************)
EXTENDS Naturals, FiniteSets

CONSTANTS MaxThreads,   \* bound on nb_threads of avpriv_slicethread_create
          MaxJobs       \* bound on nb_jobs of avpriv_slicethread_execute

ASSUME SliceThreadAssumption == MaxThreads \in Nat \ {0} /\ MaxJobs \in Nat \ {0}

VARIABLES nbThreads,    \* ctx->nb_threads
          mainFunc,     \* ctx->main_func # NULL
          nbJobs,       \* ctx->nb_jobs
          nbActive,     \* ctx->nb_active_threads
          firstJob,     \* ctx->first_job, atomic
          currentJob,   \* ctx->current_job, atomic
          done,         \* ctx->done, under done_mutex
          finished,     \* ctx->finished
          wdone,        \* w->done of each worker, under its mutex
          runMain,      \* main_func && execute_main of the current execute
          next,         \* the worker the caller's loop is at
          pc,           \* where each thread is
          nr,           \* first_job of run_jobs in each thread: its threadnr
          cur           \* current_job of run_jobs in each thread

shared == <<nbThreads, mainFunc, nbJobs, nbActive>>
vars == <<nbThreads, mainFunc, nbJobs, nbActive, firstJob, currentJob, done,
          finished, wdone, runMain, next, pc, nr, cur>>

Main     == 0
Workers  == 1 .. MaxThreads
Threads  == {Main} \cup Workers

\* main_func lets every thread be a worker; otherwise the caller is one of them.
NbWorkers     == IF mainFunc THEN nbThreads ELSE nbThreads - 1
ActiveWorkers == IF runMain THEN nbActive ELSE nbActive - 1

\* The mutex of worker w is free, or only waited for.
MutexFree(w) == pc[w] \in {"sleep", "woken"}

\* pthread_cond_signal(&w->cond) by the caller, who then goes to "then".
Goto(t, then) == pc' = [pc EXCEPT ![t] = then]
GotoAndSignal(t, then, w) ==
    pc' = [pc EXCEPT ![t] = then, ![w] = IF @ = "sleep" THEN "woken" ELSE @]

Init == /\ nbThreads = 0 /\ mainFunc = FALSE
        /\ nbJobs = 0 /\ nbActive = 0 /\ firstJob = 0 /\ currentJob = 0
        /\ done = FALSE /\ finished = FALSE
        /\ wdone = [w \in Workers |-> FALSE]
        /\ runMain = FALSE /\ next = 1
        /\ pc  = [t \in Threads |-> "none"]
        /\ nr  = [t \in Threads |-> 0]
        /\ cur = [t \in Threads |-> 0]

-----------------------------------------------------------------------------
(* avpriv_slicethread_create                                               *)

Create(n, withMain) ==
    /\ pc[Main] = "none"
    /\ nbThreads' = n /\ mainFunc' = withMain
    /\ nbActive' = 0 /\ nbJobs' = 0 /\ finished' = FALSE
    /\ firstJob' = 0 /\ currentJob' = 0 /\ done' = FALSE
    /\ next' = 1
    /\ Goto(Main, "create")
    /\ UNCHANGED <<wdone, runMain, nr, cur>>

\* pthread_create with w->mutex held, and the wait for w->done, which the
\* worker cannot have set before the wait releases the mutex.
CreateWorker ==
    /\ pc[Main] = "create" /\ next <= NbWorkers
    /\ wdone' = [wdone EXCEPT ![next] = FALSE]
    /\ pc' = [pc EXCEPT ![Main] = "createsleep", ![next] = "born"]
    /\ UNCHANGED <<shared, firstJob, currentJob, done, finished, runMain, next, nr, cur>>

CreateFails ==
    /\ pc[Main] = "create" /\ next <= NbWorkers
    /\ nbThreads' = IF mainFunc THEN next - 1 ELSE next
    /\ finished' = TRUE /\ next' = 1
    /\ Goto(Main, "freesignal")
    /\ UNCHANGED <<mainFunc, nbJobs, nbActive, firstJob, currentJob, done, wdone,
                   runMain, nr, cur>>

CreateWakes ==
    /\ pc[Main] = "createwoken" /\ MutexFree(next)
    /\ IF wdone[next] THEN Goto(Main, "create") /\ next' = next + 1
                      ELSE Goto(Main, "createsleep") /\ UNCHANGED next
    /\ UNCHANGED <<shared, firstJob, currentJob, done, finished, wdone, runMain, nr, cur>>

CreateReturns ==
    /\ pc[Main] = "create" /\ next > NbWorkers
    /\ Goto(Main, "idle")
    /\ UNCHANGED <<shared, firstJob, currentJob, done, finished, wdone, runMain, next, nr, cur>>

-----------------------------------------------------------------------------
(* avpriv_slicethread_execute                                              *)

\* Mutant: more threads than there are.
ExecuteOverbooks(n, execMain) ==
    /\ pc[Main] = "idle"
    /\ nbJobs' = n /\ nbActive' = n
    /\ firstJob' = 0 /\ currentJob' = nbActive'
    /\ runMain' = (mainFunc /\ execMain)
    /\ next' = 1
    /\ Goto(Main, "signal")
    /\ UNCHANGED <<nbThreads, mainFunc, done, finished, wdone, nr, cur>>

Execute(n, execMain) ==
    /\ pc[Main] = "idle"
    /\ nbJobs' = n
    /\ nbActive' = IF n < nbThreads THEN n ELSE nbThreads
    /\ firstJob' = 0 /\ currentJob' = nbActive'
    /\ runMain' = (mainFunc /\ execMain)
    /\ next' = 1
    /\ Goto(Main, "signal")
    /\ UNCHANGED <<nbThreads, mainFunc, done, finished, wdone, nr, cur>>

SignalWorker ==
    /\ pc[Main] = "signal" /\ next <= ActiveWorkers /\ MutexFree(next)
    /\ wdone' = [wdone EXCEPT ![next] = FALSE]
    /\ GotoAndSignal(Main, "signal", next)
    /\ next' = next + 1
    /\ UNCHANGED <<shared, firstJob, currentJob, done, finished, runMain, nr, cur>>

AllSignalled ==
    /\ pc[Main] = "signal" /\ next > ActiveWorkers
    /\ Goto(Main, IF runMain THEN "mainfunc" ELSE "claim")
    /\ UNCHANGED <<shared, firstJob, currentJob, done, finished, wdone, runMain, next, nr, cur>>

MainFuncReturns ==
    /\ pc[Main] = "mainfunc"
    /\ Goto(Main, "wait")
    /\ UNCHANGED <<shared, firstJob, currentJob, done, finished, wdone, runMain, next, nr, cur>>

\* The wait for ctx->done, with done_mutex held except while asleep.
WaitDone ==
    /\ pc[Main] \in {"wait", "donewoken"}
    /\ IF done THEN Goto(Main, "idle") /\ done' = FALSE
               ELSE Goto(Main, "donesleep") /\ UNCHANGED done
    /\ UNCHANGED <<shared, firstJob, currentJob, finished, wdone, runMain, next, nr, cur>>

-----------------------------------------------------------------------------
(* run_jobs, in the caller or in a worker                                  *)

\* Mutant: the counter is read but not incremented.
ClaimLoads(t) ==
    /\ pc[t] = "claim"
    /\ nr'  = [nr EXCEPT ![t] = firstJob]
    /\ cur' = [cur EXCEPT ![t] = firstJob]
    /\ Goto(t, "func")
    /\ UNCHANGED <<shared, firstJob, currentJob, done, finished, wdone, runMain, next>>

\* nb_jobs and nb_active_threads are copied to locals here; RoundFixed says
\* that the fields keep their value until the thread has left run_jobs.
Claim(t) ==
    /\ pc[t] = "claim"
    /\ nr'  = [nr EXCEPT ![t] = firstJob]
    /\ cur' = [cur EXCEPT ![t] = firstJob]
    /\ firstJob' = firstJob + 1
    /\ Goto(t, "func")
    /\ UNCHANGED <<shared, currentJob, done, finished, wdone, runMain, next>>

WorkerFuncReturns(t) ==
    /\ pc[t] = "func"
    /\ Goto(t, "next")
    /\ UNCHANGED <<shared, firstJob, currentJob, done, finished, wdone, runMain, next, nr, cur>>

\* Mutant: the last thread but one is taken for the last.
AfterJobsEarly(t, c) ==
    LET isLast == c = nbJobs + nbActive - 2 IN
    IF t = Main THEN (IF isLast THEN "idle" ELSE "wait")
                ELSE (IF isLast THEN "last" ELSE "loop")

\* Where a thread goes when run_jobs returns with the counter value c.
AfterJobs(t, c) ==
    LET isLast == c = nbJobs + nbActive - 1 IN
    IF t = Main THEN (IF isLast THEN "idle" ELSE "wait")
                ELSE (IF isLast THEN "last" ELSE "loop")

\* Mutant: <= for <
NextJobOneMore(t) ==
    /\ pc[t] = "next"
    /\ currentJob' = currentJob + 1
    /\ IF currentJob <= nbJobs
         THEN /\ cur' = [cur EXCEPT ![t] = currentJob]
              /\ Goto(t, "func")
              /\ UNCHANGED nr
         ELSE /\ cur' = [cur EXCEPT ![t] = 0]
              /\ nr' = [nr EXCEPT ![t] = 0]
              /\ Goto(t, AfterJobs(t, currentJob))
    /\ UNCHANGED <<shared, firstJob, done, finished, wdone, runMain, next>>

\* The locals nr and cur end with run_jobs.
NextJob(t) ==
    /\ pc[t] = "next"
    /\ currentJob' = currentJob + 1
    /\ IF currentJob < nbJobs
         THEN /\ cur' = [cur EXCEPT ![t] = currentJob]
              /\ Goto(t, "func")
              /\ UNCHANGED nr
         ELSE /\ cur' = [cur EXCEPT ![t] = 0]
              /\ nr' = [nr EXCEPT ![t] = 0]
              /\ Goto(t, AfterJobs(t, currentJob))
    /\ UNCHANGED <<shared, firstJob, done, finished, wdone, runMain, next>>

-----------------------------------------------------------------------------
(* thread_worker                                                           *)

\* The worker signals the creator, sets w->done and waits.
WorkerStarts(w) ==
    /\ pc[w] = "born"
    /\ wdone' = [wdone EXCEPT ![w] = TRUE]
    /\ pc' = [pc EXCEPT ![Main] = IF @ = "createsleep" THEN "createwoken" ELSE @,
                        ![w] = "sleep"]
    /\ UNCHANGED <<shared, firstJob, currentJob, done, finished, runMain, next, nr, cur>>

WorkerWakes(w) ==
    /\ pc[w] = "woken"
    /\ Goto(w, IF wdone[w] THEN "sleep" ELSE IF finished THEN "ended" ELSE "claim")
    /\ UNCHANGED <<shared, firstJob, currentJob, done, finished, wdone, runMain, next, nr, cur>>

\* Mutant: it does not signal.
SetDoneQuietly(w) ==
    /\ pc[w] = "last"
    /\ done' = TRUE
    /\ Goto(w, "loop")
    /\ UNCHANGED <<shared, firstJob, currentJob, finished, wdone, runMain, next, nr, cur>>

\* The last thread of the round tells the caller.
SetDone(w) ==
    /\ pc[w] = "last"
    /\ done' = TRUE
    /\ pc' = [pc EXCEPT ![Main] = IF @ = "donesleep" THEN "donewoken" ELSE @,
                        ![w] = "loop"]
    /\ UNCHANGED <<shared, firstJob, currentJob, finished, wdone, runMain, next, nr, cur>>

WorkerSleeps(w) ==
    /\ pc[w] = "loop"
    /\ wdone' = [wdone EXCEPT ![w] = TRUE]
    /\ Goto(w, "sleep")
    /\ UNCHANGED <<shared, firstJob, currentJob, done, finished, runMain, next, nr, cur>>

-----------------------------------------------------------------------------
(* avpriv_slicethread_free                                                 *)

Free ==
    /\ pc[Main] = "idle"
    /\ finished' = TRUE /\ next' = 1
    /\ Goto(Main, "freesignal")
    /\ UNCHANGED <<shared, firstJob, currentJob, done, wdone, runMain, nr, cur>>

FreeSignals ==
    /\ pc[Main] = "freesignal" /\ next <= NbWorkers /\ MutexFree(next)
    /\ wdone' = [wdone EXCEPT ![next] = FALSE]
    /\ GotoAndSignal(Main, "freesignal", next)
    /\ next' = next + 1
    /\ UNCHANGED <<shared, firstJob, currentJob, done, finished, runMain, nr, cur>>

FreeSignalled ==
    /\ pc[Main] = "freesignal" /\ next > NbWorkers
    /\ Goto(Main, "join") /\ next' = 1
    /\ UNCHANGED <<shared, firstJob, currentJob, done, finished, wdone, runMain, nr, cur>>

Join ==
    /\ pc[Main] = "join" /\ next <= NbWorkers /\ pc[next] = "ended"
    /\ next' = next + 1
    /\ wdone' = [wdone EXCEPT ![next] = FALSE]
    /\ pc' = [pc EXCEPT ![next] = "none"]
    /\ UNCHANGED <<shared, firstJob, currentJob, done, finished, runMain, nr, cur>>

\* The context is released, and its contents with it (those of a worker are
\* in Join).
FreeReturns ==
    /\ pc[Main] = "join" /\ next > NbWorkers
    /\ nbThreads' = 0 /\ mainFunc' = FALSE /\ nbJobs' = 0 /\ nbActive' = 0
    /\ firstJob' = 0 /\ currentJob' = 0 /\ done' = FALSE /\ finished' = FALSE
    /\ runMain' = FALSE /\ next' = 1
    /\ Goto(Main, "none")
    /\ UNCHANGED <<wdone, nr, cur>>

-----------------------------------------------------------------------------
\* POSIX lets pthread_cond_wait return without a signal.
SpuriousWakeup(t) ==
    /\ pc[t] \in {"sleep", "createsleep", "donesleep"}
    /\ Goto(t, CASE pc[t] = "sleep"       -> "woken"
                 [] pc[t] = "createsleep" -> "createwoken"
                 [] pc[t] = "donesleep"   -> "donewoken")
    /\ UNCHANGED <<shared, firstJob, currentJob, done, finished, wdone, runMain, next, nr, cur>>

RunJobs(t) == Claim(t) \/ WorkerFuncReturns(t) \/ NextJob(t)

CallerStep == \/ CreateWorker \/ CreateFails \/ CreateWakes \/ CreateReturns
              \/ SignalWorker \/ AllSignalled \/ MainFuncReturns \/ WaitDone
              \/ FreeSignals \/ FreeSignalled \/ Join \/ FreeReturns
              \/ RunJobs(Main)

WorkerStep(w) == \/ WorkerStarts(w) \/ WorkerWakes(w)
                 \/ SetDone(w) \/ WorkerSleeps(w)
                 \/ RunJobs(w)

Next == \/ \E n \in 1 .. MaxThreads, b \in BOOLEAN : Create(n, b)
        \/ \E n \in 1 .. MaxJobs, b \in BOOLEAN : Execute(n, b)
        \/ Free
        \/ CallerStep
        \/ \E w \in Workers : WorkerStep(w)
        \/ \E t \in Threads : SpuriousWakeup(t)

\* The scheduler runs every thread that can run, and worker_func and main_func
\* return.  Nobody is obliged to make a call.
Fairness == WF_vars(CallerStep) /\ \A w \in Workers : WF_vars(WorkerStep(w))

Spec == Init /\ [][Next]_vars /\ Fairness

-----------------------------------------------------------------------------
(* Properties                                                              *)

CallerPcs == {"none", "create", "createsleep", "createwoken", "idle", "signal", "mainfunc",
              "claim", "func", "next", "wait", "donesleep", "donewoken", "freesignal", "join"}
WorkerPcs == {"none", "born", "sleep", "woken", "claim", "func", "next", "last", "loop", "ended"}

PcOK == /\ pc \in [Threads -> CallerPcs \cup WorkerPcs]
        /\ pc[Main] \in CallerPcs /\ \A w \in Workers : pc[w] \in WorkerPcs

TypeOK == /\ nbThreads \in 0 .. MaxThreads /\ mainFunc \in BOOLEAN
          /\ nbJobs \in 0 .. MaxJobs /\ nbActive \in 0 .. MaxThreads
          /\ firstJob \in Nat /\ currentJob \in Nat
          /\ done \in BOOLEAN /\ finished \in BOOLEAN
          /\ wdone \in [Workers -> BOOLEAN]
          /\ runMain \in BOOLEAN /\ next \in 1 .. MaxThreads + 1
          /\ PcOK
          /\ nr \in [Threads -> Nat] /\ cur \in [Threads -> Nat]

InJobs(t)  == pc[t] \in {"func", "next"}
Executing  == pc[Main] \in {"signal", "mainfunc", "claim", "func", "next", "wait",
                            "donesleep", "donewoken"}

(* Two threads inside run_jobs never share a job number or a threadnr, and *)
(* a threadnr is below the nb_threads they are told: callers index their   *)
(* per-thread buffers with it.                                             *)
DistinctNumbers ==
    \A t \in Threads : InJobs(t) =>
        /\ nr[t] < nbActive /\ cur[t] < nbJobs
        /\ \A u \in Threads \ {t} : InJobs(u) => nr[u] # nr[t] /\ cur[u] # cur[t]

(* When execute has returned, no worker is still on its way through the    *)
(* call's jobs or about to set ctx->done, and no ctx->done is left over    *)
(* that would end the next call early.                                     *)
Quiet == ~Executing => /\ ~done
                       /\ \A w \in Workers : pc[w] \notin {"claim", "func", "next", "last"}

(* The fields of the call do not change under a thread that has copied     *)
(* them at the start of run_jobs.                                          *)
RoundFixed == [][(\E t \in Threads : InJobs(t)) => UNCHANGED <<nbJobs, nbActive>>]_vars

(* No wakeup is lost: every create, execute and free comes to its end.     *)
EveryCallReturns == pc[Main] \notin {"idle", "none"} ~> pc[Main] \in {"idle", "none"}

(* Executing a job is Start and Finish of ParallelFor: the counters say    *)
(* which jobs have been handed out, the threads which are being run.       *)
Claimed(j) == j < firstJob \/ (nbActive <= j /\ j < currentJob)
JobState(j) == IF ~Claimed(j) THEN "todo"
               ELSE IF \E t \in Threads : pc[t] = "func" /\ cur[t] = j THEN "running"
               ELSE "done"

Parallel == INSTANCE ParallelFor WITH
               busy <- Executing,
               job  <- IF Executing THEN [j \in 0 .. nbJobs - 1 |-> JobState(j)] ELSE <<>>

ImplementsParallelFor == Parallel!Spec
=============================================================================
