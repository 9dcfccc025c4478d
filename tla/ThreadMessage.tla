---------------------------- MODULE ThreadMessage ----------------------------
(***************************************************************************)
(* libavutil/threadmessage.c: a bounded queue of messages between threads, *)
(* one mutex and two condition variables.  All state is read and written   *)
(* with mq->lock held, so a critical section is one step; it is split only *)
(* where pthread_cond_wait releases the lock.  A blocked call is in        *)
(*     "sendwait" / "recvwait"   asleep on cond_send / cond_recv           *)
(*     "sendwoken" / "recvwoken" signalled, about to re-test its condition *)
(* The AVFifoBuffer of element-sized slots is a sequence of messages.      *)
(***************************************************************************)
EXTENDS Naturals, Sequences, FiniteSets

CONSTANTS Threads,      \* the threads that share the queue
          Messages,     \* the messages that may be sent
          Capacity,     \* nelem of av_thread_message_queue_alloc
          Errors,       \* the error codes a caller sets
          Ok,           \* the code 0, no error set
          Nil           \* no message

ASSUME ThreadMessageAssumption ==
    /\ IsFiniteSet(Threads)
    /\ Capacity \in Nat \ {0}
    /\ Ok \notin Errors
    /\ Nil \notin Messages

VARIABLES fifo,         \* mq->fifo, oldest message first
          errSend,      \* mq->err_send
          errRecv,      \* mq->err_recv
          pc,           \* where each thread is in send or recv
          msg,          \* the message a blocked sender holds
          got           \* the message recv last stored for each thread

vars == <<fifo, errSend, errRecv, pc, msg, got>>

At(where) == {t \in Threads : pc[t] = where}

Blocked == {"sendwait", "sendwoken", "recvwait", "recvwoken"}

Init == /\ fifo = <<>>
        /\ errSend = Ok /\ errRecv = Ok
        /\ pc  = [t \in Threads |-> "idle"]
        /\ msg = [t \in Threads |-> Nil]
        /\ got = [t \in Threads |-> Nil]

(***************************************************************************)
(* pthread_cond_signal moves one sleeper, if there is one, and             *)
(* pthread_cond_broadcast all of them.  "then" is the pc of the running    *)
(* thread t after its critical section.                                    *)
(***************************************************************************)
SignalOne(t, then, sleep, woken) ==
    IF At(sleep) = {}
      THEN pc' = [pc EXCEPT ![t] = then]
      ELSE \E s \in At(sleep) : pc' = [pc EXCEPT ![t] = then, ![s] = woken]

WakeAll(sleep, woken) ==
    pc' = [t \in Threads |-> IF pc[t] = sleep THEN woken ELSE pc[t]]

-----------------------------------------------------------------------------
(* av_thread_message_queue_send_locked, one evaluation of its loop         *)

SendFails(t) ==
    /\ errSend # Ok
    /\ pc'  = [pc EXCEPT ![t] = "idle"]
    /\ msg' = [msg EXCEPT ![t] = Nil]
    /\ UNCHANGED <<fifo, errSend, errRecv, got>>

\* Mutant: the room in the queue is not looked at.
SendOverfills(t, m) ==
    /\ errSend = Ok
    /\ fifo' = Append(fifo, m)
    /\ SignalOne(t, "idle", "recvwait", "recvwoken")
    /\ msg' = [msg EXCEPT ![t] = Nil]
    /\ UNCHANGED <<errSend, errRecv, got>>

SendAppends(t, m) ==
    /\ errSend = Ok /\ Len(fifo) < Capacity
    /\ fifo' = Append(fifo, m)
    /\ SignalOne(t, "idle", "recvwait", "recvwoken")
    /\ msg' = [msg EXCEPT ![t] = Nil]
    /\ UNCHANGED <<errSend, errRecv, got>>

SendWaits(t, m) ==
    /\ errSend = Ok /\ Len(fifo) >= Capacity
    /\ pc'  = [pc EXCEPT ![t] = "sendwait"]
    /\ msg' = [msg EXCEPT ![t] = m]
    /\ UNCHANGED <<fifo, errSend, errRecv, got>>

SendTries(t, m) == SendFails(t) \/ SendAppends(t, m) \/ SendWaits(t, m)

\* A blocking call.  With AV_THREAD_MESSAGE_NONBLOCK the call that would wait
\* returns AVERROR(EAGAIN) instead, without changing anything.
Send(t, m) == pc[t] = "idle" /\ SendTries(t, m)

SendNonblock(t, m) == /\ pc[t] = "idle"
                      /\ \/ SendFails(t)
                         \/ SendAppends(t, m)
                         \/ errSend = Ok /\ Len(fifo) >= Capacity /\ UNCHANGED vars

SendResumes(t) == pc[t] = "sendwoken" /\ SendTries(t, msg[t])

-----------------------------------------------------------------------------
(* av_thread_message_queue_recv_locked, one evaluation of its loop         *)

\* Mutant: senders are not told of the free slot.
RecvTakesQuietly(t) ==
    /\ fifo # <<>>
    /\ got'  = [got EXCEPT ![t] = Head(fifo)]
    /\ fifo' = Tail(fifo)
    /\ pc' = [pc EXCEPT ![t] = "idle"]
    /\ UNCHANGED <<errSend, errRecv, msg>>

RecvTakes(t) ==
    /\ fifo # <<>>
    /\ got'  = [got EXCEPT ![t] = Head(fifo)]
    /\ fifo' = Tail(fifo)
    /\ SignalOne(t, "idle", "sendwait", "sendwoken")
    /\ UNCHANGED <<errSend, errRecv, msg>>

\* Mutant: the error comes before the messages.
RecvFailsEarly(t) ==
    /\ errRecv # Ok
    /\ pc' = [pc EXCEPT ![t] = "idle"]
    /\ UNCHANGED <<fifo, errSend, errRecv, msg, got>>

RecvFails(t) ==
    /\ errRecv # Ok /\ fifo = <<>>
    /\ pc' = [pc EXCEPT ![t] = "idle"]
    /\ UNCHANGED <<fifo, errSend, errRecv, msg, got>>

RecvWaits(t) ==
    /\ errRecv = Ok /\ fifo = <<>>
    /\ pc' = [pc EXCEPT ![t] = "recvwait"]
    /\ UNCHANGED <<fifo, errSend, errRecv, msg, got>>

RecvTries(t) == RecvTakes(t) \/ RecvFails(t) \/ RecvWaits(t)

Recv(t) == pc[t] = "idle" /\ RecvTries(t)

RecvNonblock(t) == /\ pc[t] = "idle"
                   /\ \/ RecvTakes(t)
                      \/ RecvFails(t)
                      \/ errRecv = Ok /\ fifo = <<>> /\ UNCHANGED vars

RecvResumes(t) == pc[t] = "recvwoken" /\ RecvTries(t)

-----------------------------------------------------------------------------
(* the error codes and the flush                                           *)

SetErrSend(e) == /\ errSend' = e
                 /\ WakeAll("sendwait", "sendwoken")
                 /\ UNCHANGED <<fifo, errRecv, msg, got>>

SetErrRecv(e) == /\ errRecv' = e
                 /\ WakeAll("recvwait", "recvwoken")
                 /\ UNCHANGED <<fifo, errSend, msg, got>>

Flush == /\ fifo' = <<>>
         /\ WakeAll("sendwait", "sendwoken")
         /\ UNCHANGED <<errSend, errRecv, msg, got>>

\* POSIX lets pthread_cond_wait return without a signal.
SpuriousWakeup(t) ==
    /\ pc[t] \in {"sendwait", "recvwait"}
    /\ pc' = [pc EXCEPT ![t] = IF @ = "sendwait" THEN "sendwoken" ELSE "recvwoken"]
    /\ UNCHANGED <<fifo, errSend, errRecv, msg, got>>

Next == \/ \E t \in Threads, m \in Messages : Send(t, m) \/ SendNonblock(t, m)
        \/ \E t \in Threads : SendResumes(t)
        \/ \E t \in Threads : Recv(t) \/ RecvNonblock(t)
        \/ \E t \in Threads : RecvResumes(t)
        \/ \E e \in Errors \cup {Ok} : SetErrSend(e) \/ SetErrRecv(e)
        \/ Flush
        \/ \E t \in Threads : SpuriousWakeup(t)

\* A thread that was woken gets the lock back: nothing else is assumed, in
\* particular nobody is obliged to call send, recv or set_err.
Fairness == \A t \in Threads : WF_vars(SendResumes(t)) /\ WF_vars(RecvResumes(t))

Spec == Init /\ [][Next]_vars /\ Fairness

-----------------------------------------------------------------------------
(* Properties                                                              *)

TypeOK == /\ fifo \in Seq(Messages) /\ Len(fifo) <= Capacity
          /\ errSend \in Errors \cup {Ok}
          /\ errRecv \in Errors \cup {Ok}
          /\ pc  \in [Threads -> Blocked \cup {"idle"}]
          /\ msg \in [Threads -> Messages \cup {Nil}]
          /\ got \in [Threads -> Messages \cup {Nil}]
          /\ \A t \in Threads : pc[t] \in {"sendwait", "sendwoken"} => msg[t] \in Messages

(* One pthread_cond_signal per message or slot is enough: while a receiver *)
(* sleeps, each queued message has a receiver already woken for it, and    *)
(* while a sender sleeps so has each free slot, whatever calls steal the   *)
(* message or the slot in between.                                         *)
NoLostWakeup ==
    /\ At("recvwait") # {} => Len(fifo) <= Cardinality(At("recvwoken"))
    /\ At("sendwait") # {} => Capacity - Len(fifo) <= Cardinality(At("sendwoken"))

(* Nobody sleeps through an error code: setting it wakes every caller of   *)
(* its side and no caller goes to sleep while it is set.                   *)
NoSleepPastError == /\ errRecv # Ok => At("recvwait") = {}
                    /\ errSend # Ok => At("sendwait") = {}

(* The queue implements the channel of MessageChannel, progress included.  *)
CallOf(t) == IF pc[t] \in {"sendwait", "sendwoken"} THEN "send"
             ELSE IF pc[t] \in {"recvwait", "recvwoken"} THEN "recv" ELSE "idle"

Channel == INSTANCE MessageChannel WITH chan <- fifo,
               call <- [t \in Threads |-> CallOf(t)],
               arg  <- msg

ImplementsChannel == Channel!Spec
=============================================================================
