----------------------------- MODULE ParallelFor -----------------------------
(***************************************************************************)
(* What libavutil/slicethread.h promises to its callers: execute runs each *)
(* of its jobs exactly once, in any order and side by side, and returns    *)
(* when all of them are done.  SliceThread implements this specification.  *)
(***************************************************************************)
EXTENDS Naturals

CONSTANT MaxJobs

VARIABLES busy,         \* TRUE while execute runs
          job           \* the state of each of its jobs

pvars == <<busy, job>>

JobStates == {"todo", "running", "done"}

Init == busy = FALSE /\ job = <<>>

Execute(n) == /\ ~busy
              /\ busy' = TRUE
              /\ job' = [j \in 0 .. n - 1 |-> "todo"]

Start(j) == /\ busy /\ j \in DOMAIN job /\ job[j] = "todo"
            /\ job' = [job EXCEPT ![j] = "running"]
            /\ UNCHANGED busy

Finish(j) == /\ busy /\ j \in DOMAIN job /\ job[j] = "running"
             /\ job' = [job EXCEPT ![j] = "done"]
             /\ UNCHANGED busy

Return == /\ busy /\ \A j \in DOMAIN job : job[j] = "done"
          /\ busy' = FALSE /\ job' = <<>>

Work == Return \/ \E j \in 0 .. MaxJobs - 1 : Start(j) \/ Finish(j)

Next == Work \/ \E n \in 1 .. MaxJobs : Execute(n)

Safety == Init /\ [][Next]_pvars

\* Every job is started and ends, and then execute returns.
Spec == Safety /\ WF_pvars(Work)
=============================================================================
