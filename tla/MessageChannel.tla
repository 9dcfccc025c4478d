--------------------------- MODULE MessageChannel ---------------------------
(***************************************************************************)
(* What libavutil/threadmessage.h promises, without locks or condition     *)
(* variables: a bounded channel on which a call to send or recv is pending *)
(* from the moment it is made until, in one atomic step, it takes effect   *)
(* and returns.  ThreadMessage is shown to implement this specification.   *)
(***************************************************************************)
EXTENDS Naturals, Sequences

CONSTANTS Threads,      \* the threads that share the queue
          Messages,     \* the messages that may be sent
          Capacity,     \* nelem of av_thread_message_queue_alloc
          Errors,       \* the non-zero error codes
          Ok,           \* the error code 0
          Nil           \* no message

VARIABLES chan,         \* the messages in the channel, oldest first
          errSend,      \* what av_thread_message_queue_set_err_send last set
          errRecv,      \* what av_thread_message_queue_set_err_recv last set
          call,         \* the pending call of each thread
          arg,          \* the message a pending send wants to send
          got           \* the message each thread received last

cvars == <<chan, errSend, errRecv, call, arg, got>>

Init == /\ chan = <<>>
        /\ errSend = Ok /\ errRecv = Ok
        /\ call = [t \in Threads |-> "idle"]
        /\ arg  = [t \in Threads |-> Nil]
        /\ got  = [t \in Threads |-> Nil]

Begin(t, c, m) == /\ call[t] = "idle"
                  /\ call' = [call EXCEPT ![t] = c]
                  /\ arg'  = [arg EXCEPT ![t] = m]
                  /\ UNCHANGED <<chan, errSend, errRecv, got>>

Return(t) == /\ call' = [call EXCEPT ![t] = "idle"]
             /\ arg'  = [arg EXCEPT ![t] = Nil]

\* A message is accepted only while there is room and no error is set.  The
\* call may begin and return in the same step: m is then its argument.
Accept(t, m) ==
    /\ errSend = Ok /\ Len(chan) < Capacity
    /\ chan' = Append(chan, m)
    /\ Return(t)
    /\ UNCHANGED <<errSend, errRecv, got>>

SendNow(t)      == \E m \in Messages : call[t] = "idle" /\ Accept(t, m)
CompleteSend(t) == call[t] = "send" /\ Accept(t, arg[t])

FailSend(t) == /\ errSend # Ok /\ call[t] = "send"
               /\ Return(t)
               /\ UNCHANGED <<chan, errSend, errRecv, got>>

\* A receiver is given the oldest message, even when an error is set.
Deliver(t) == /\ chan # <<>>
              /\ got'  = [got EXCEPT ![t] = Head(chan)]
              /\ chan' = Tail(chan)
              /\ Return(t)
              /\ UNCHANGED <<errSend, errRecv>>

RecvNow(t)      == call[t] = "idle" /\ Deliver(t)
CompleteRecv(t) == call[t] = "recv" /\ Deliver(t)

\* The error is returned only when no message is left.
FailRecv(t) == /\ errRecv # Ok /\ chan = <<>> /\ call[t] = "recv"
               /\ Return(t)
               /\ UNCHANGED <<chan, errSend, errRecv, got>>

SetErrSend(e) == /\ errSend' = e
                 /\ UNCHANGED <<chan, errRecv, call, arg, got>>

SetErrRecv(e) == /\ errRecv' = e
                 /\ UNCHANGED <<chan, errSend, call, arg, got>>

Flush == /\ chan' = <<>>
         /\ UNCHANGED <<errSend, errRecv, call, arg, got>>

Next == \/ \E t \in Threads, m \in Messages : Begin(t, "send", m)
        \/ \E t \in Threads : Begin(t, "recv", Nil)
        \/ \E t \in Threads : SendNow(t) \/ CompleteSend(t) \/ FailSend(t)
        \/ \E t \in Threads : RecvNow(t) \/ CompleteRecv(t) \/ FailRecv(t)
        \/ \E e \in Errors \cup {Ok} : SetErrSend(e) \/ SetErrRecv(e)
        \/ Flush

(***************************************************************************)
(* Progress: a channel with a message serves one of the pending receivers, *)
(* one with room one of the pending senders, and an error that stays set   *)
(* releases every caller it applies to.                                    *)
(***************************************************************************)
Progress == /\ WF_cvars(\E t \in Threads : CompleteRecv(t))
            /\ WF_cvars(\E t \in Threads : CompleteSend(t))
            /\ \A t \in Threads : WF_cvars(FailRecv(t)) /\ WF_cvars(FailSend(t))

Safety == Init /\ [][Next]_cvars
Spec   == Safety /\ Progress
=============================================================================
