------------------------- MODULE ThreadMessageProofs -------------------------
(***************************************************************************)
(* Proofs about the queue of ThreadMessage for every set of threads, every *)
(* capacity and every set of error codes: no wakeup is lost, nobody sleeps *)
(* past an error, and the queue implements the safety part of the channel. *)
(***************************************************************************)
EXTENDS ThreadMessage, FiniteSetTheorems, TLAPS

(* The inductive invariant.  NoLostWakeup alone is not inductive: a woken  *)
(* sender that returns the error leaves its slot to nobody, which is only  *)
(* right because no sender sleeps while the error is set.                  *)
IInv == TypeOK /\ NoSleepPastError /\ NoLostWakeup

(* Sets of threads picked by their pc are finite. *)
LEMMA AtFinite ==
    ASSUME NEW where
    PROVE  IsFiniteSet(At(where)) /\ IsFiniteSet(At(where)')
<1>1. At(where) \subseteq Threads /\ At(where)' \subseteq Threads
  BY DEF At
<1> QED BY <1>1, ThreadMessageAssumption, FS_Subset

(* A wait set that only grows does not get smaller. *)
LEMMA AtGrows ==
    ASSUME NEW where, At(where) \subseteq At(where)'
    PROVE  Cardinality(At(where)) <= Cardinality(At(where)')
BY AtFinite, FS_Subset

(* A signal adds one woken thread whenever somebody sleeps, and wakes      *)
(* nobody otherwise.                                                       *)
LEMMA SignalOneAdds ==
    ASSUME NEW t \in Threads, NEW sleep, NEW woken, NEW then,
           pc \in [Threads -> Blocked \cup {"idle"}],
           sleep # woken, pc[t] # sleep, pc[t] # woken,
           then # sleep, then # woken,
           SignalOne(t, then, sleep, woken)
    PROVE  /\ At(sleep) = {} => At(sleep)' = {}
           /\ At(sleep) # {} =>
                Cardinality(At(woken)') = Cardinality(At(woken)) + 1
<1>1. CASE At(sleep) = {}
  BY <1>1 DEF SignalOne, At
<1>2. CASE At(sleep) # {}
  <2>1. PICK s \in At(sleep) : pc' = [pc EXCEPT ![t] = then, ![s] = woken]
    BY <1>2 DEF SignalOne
  <2>2. At(woken)' = At(woken) \cup {s} /\ s \notin At(woken)
    BY <2>1 DEF At
  <2> QED BY <1>2, <2>2, AtFinite, FS_AddElement
<1> QED BY <1>1, <1>2

(* A thread that leaves the wait set "where" makes it at most one smaller. *)
LEMMA AtLoses ==
    ASSUME NEW where, NEW t \in Threads, At(where) \ {t} \subseteq At(where)'
    PROVE  Cardinality(At(where)) - 1 <= Cardinality(At(where)')
<1> DEFINE S == At(where)
<1>1. IsFiniteSet(S) /\ IsFiniteSet(At(where)') /\ IsFiniteSet(S \ {t})
  BY AtFinite, FS_RemoveElement
<1>2. Cardinality(S \ {t}) <= Cardinality(At(where)')
  BY <1>1, FS_Subset
<1>3. CASE t \in S
  BY <1>1, <1>2, <1>3, FS_RemoveElement, FS_CardinalityType
<1>4. CASE t \notin S
  <2>1. S \ {t} = S
    BY <1>4
  <2>2. Cardinality(S) \in Nat /\ Cardinality(At(where)') \in Nat
    BY <1>1, FS_CardinalityType
  <2>3. Cardinality(S) <= Cardinality(At(where)')
    BY <1>2, <2>1
  <2> QED BY <2>2, <2>3
<1> QED BY <1>3, <1>4

-----------------------------------------------------------------------------
(* The three outcomes of one evaluation of the loop of send_locked         *)

LEMMA SendFailsKeeps ==
    ASSUME IInv, NEW t \in Threads, pc[t] \in {"idle", "sendwoken"}, SendFails(t)
    PROVE  IInv'
<1> USE DEF IInv, SendFails
<1>1. TypeOK'
  BY DEF TypeOK, Blocked
<1>2. /\ At("sendwait")' = {}
      /\ At("recvwait")' = At("recvwait") /\ At("recvwoken")' = At("recvwoken")
  BY DEF TypeOK, Blocked, At, NoSleepPastError
<1> QED BY <1>1, <1>2 DEF NoSleepPastError, NoLostWakeup

LEMMA SendAppendsKeeps ==
    ASSUME IInv, NEW t \in Threads, NEW m \in Messages,
           pc[t] \in {"idle", "sendwoken"}, SendAppends(t, m)
    PROVE  IInv'
<1> USE DEF IInv, SendAppends
<1>1. PICK s \in Threads :
        \/ pc' = [pc EXCEPT ![t] = "idle"]
        \/ pc[s] = "recvwait" /\ pc' = [pc EXCEPT ![t] = "idle", ![s] = "recvwoken"]
  BY DEF SignalOne, At
<1>2. Len(fifo') = Len(fifo) + 1 /\ Len(fifo) \in Nat
  BY DEF TypeOK
<1>3. TypeOK'
  <2>1. fifo' \in Seq(Messages) /\ Len(fifo') <= Capacity
    BY <1>2, ThreadMessageAssumption DEF TypeOK
  <2>2. pc' \in [Threads -> Blocked \cup {"idle"}] /\ msg' \in [Threads -> Messages \cup {Nil}]
    BY <1>1 DEF TypeOK, Blocked
  <2>3. \A u \in Threads : pc'[u] \in {"sendwait", "sendwoken"} => msg'[u] \in Messages
    BY <1>1 DEF TypeOK, Blocked
  <2> QED BY <2>1, <2>2, <2>3 DEF TypeOK
<1>4. /\ At("recvwait") = {} => At("recvwait")' = {}
      /\ At("recvwait") # {} =>
           Cardinality(At("recvwoken")') = Cardinality(At("recvwoken")) + 1
  <2>1. SignalOne(t, "idle", "recvwait", "recvwoken") /\ pc \in [Threads -> Blocked \cup {"idle"}]
    BY DEF TypeOK
  <2> QED BY <2>1, SignalOneAdds
<1>5. At("sendwait")' = At("sendwait") /\ At("sendwoken") \ {t} \subseteq At("sendwoken")'
  BY <1>1 DEF TypeOK, Blocked, At
<1>6. Cardinality(At("sendwoken")) - 1 <= Cardinality(At("sendwoken")')
  BY <1>5, AtLoses
<1>7. NoSleepPastError'
  BY <1>4, <1>5 DEF NoSleepPastError
<1>8. (At("recvwait") # {} => Len(fifo) <= Cardinality(At("recvwoken")))'
  BY <1>2, <1>4, AtFinite, FS_CardinalityType DEF NoLostWakeup
<1>9. (At("sendwait") # {} => Capacity - Len(fifo) <= Cardinality(At("sendwoken")))'
  BY <1>2, <1>5, <1>6, AtFinite, FS_CardinalityType, ThreadMessageAssumption DEF NoLostWakeup
<1> QED BY <1>3, <1>7, <1>8, <1>9 DEF NoLostWakeup

LEMMA SendWaitsKeeps ==
    ASSUME IInv, NEW t \in Threads, NEW m \in Messages,
           pc[t] \in {"idle", "sendwoken"}, SendWaits(t, m)
    PROVE  IInv'
<1> USE DEF IInv, SendWaits
<1>1. TypeOK'
  BY DEF TypeOK, Blocked
<1>2. At("recvwait")' = At("recvwait") /\ At("recvwoken")' = At("recvwoken")
  BY DEF TypeOK, Blocked, At
<1>3. NoSleepPastError'
  BY <1>2 DEF NoSleepPastError
<1>4. Capacity - Len(fifo') <= 0 /\ Capacity - Len(fifo') \in Int
  BY ThreadMessageAssumption DEF TypeOK
<1>5. Cardinality(At("sendwoken")') \in Nat
  BY AtFinite, FS_CardinalityType
<1> QED BY <1>1, <1>2, <1>3, <1>4, <1>5 DEF NoLostWakeup

LEMMA SendTriesKeeps ==
    ASSUME IInv, NEW t \in Threads, NEW m \in Messages,
           pc[t] \in {"idle", "sendwoken"}, SendTries(t, m)
    PROVE  IInv'
BY SendFailsKeeps, SendAppendsKeeps, SendWaitsKeeps DEF SendTries

-----------------------------------------------------------------------------
(* The three outcomes of one evaluation of the loop of recv_locked         *)

LEMMA RecvFailsKeeps ==
    ASSUME IInv, NEW t \in Threads, pc[t] \in {"idle", "recvwoken"}, RecvFails(t)
    PROVE  IInv'
<1> USE DEF IInv, RecvFails
<1>1. TypeOK'
  BY DEF TypeOK, Blocked
<1>2. /\ At("recvwait")' = {}
      /\ At("sendwait")' = At("sendwait") /\ At("sendwoken")' = At("sendwoken")
  BY DEF TypeOK, Blocked, At, NoSleepPastError
<1> QED BY <1>1, <1>2 DEF NoSleepPastError, NoLostWakeup

LEMMA RecvTakesKeeps ==
    ASSUME IInv, NEW t \in Threads, pc[t] \in {"idle", "recvwoken"}, RecvTakes(t)
    PROVE  IInv'
<1> USE DEF IInv, RecvTakes
<1>1. PICK s \in Threads :
        \/ pc' = [pc EXCEPT ![t] = "idle"]
        \/ pc[s] = "sendwait" /\ pc' = [pc EXCEPT ![t] = "idle", ![s] = "sendwoken"]
  BY DEF SignalOne, At
<1>2. /\ Len(fifo') = Len(fifo) - 1 /\ Len(fifo) \in Nat /\ Len(fifo) # 0
      /\ fifo' \in Seq(Messages) /\ Head(fifo) \in Messages
  BY DEF TypeOK
<1>3. TypeOK'
  BY <1>1, <1>2, ThreadMessageAssumption DEF TypeOK, Blocked
<1>4. /\ At("sendwait") = {} => At("sendwait")' = {}
      /\ At("sendwait") # {} =>
           Cardinality(At("sendwoken")') = Cardinality(At("sendwoken")) + 1
  <2>1. SignalOne(t, "idle", "sendwait", "sendwoken") /\ pc \in [Threads -> Blocked \cup {"idle"}]
    BY DEF TypeOK
  <2> QED BY <2>1, SignalOneAdds
<1>5. At("recvwait")' = At("recvwait") /\ At("recvwoken") \ {t} \subseteq At("recvwoken")'
  BY <1>1 DEF TypeOK, Blocked, At
<1>6. Cardinality(At("recvwoken")) - 1 <= Cardinality(At("recvwoken")')
  BY <1>5, AtLoses
<1>7. NoSleepPastError'
  BY <1>4, <1>5 DEF NoSleepPastError
<1>8. (At("recvwait") # {} => Len(fifo) <= Cardinality(At("recvwoken")))'
  BY <1>2, <1>5, <1>6, AtFinite, FS_CardinalityType DEF NoLostWakeup
<1>9. (At("sendwait") # {} => Capacity - Len(fifo) <= Cardinality(At("sendwoken")))'
  BY <1>2, <1>4, AtFinite, FS_CardinalityType, ThreadMessageAssumption DEF NoLostWakeup
<1> QED BY <1>3, <1>7, <1>8, <1>9 DEF NoLostWakeup

LEMMA RecvWaitsKeeps ==
    ASSUME IInv, NEW t \in Threads, pc[t] \in {"idle", "recvwoken"}, RecvWaits(t)
    PROVE  IInv'
<1> USE DEF IInv, RecvWaits
<1>1. TypeOK'
  BY DEF TypeOK, Blocked
<1>2. At("sendwait")' = At("sendwait") /\ At("sendwoken")' = At("sendwoken")
  BY DEF TypeOK, Blocked, At
<1>3. NoSleepPastError'
  BY <1>2 DEF NoSleepPastError
<1>4. Len(fifo') = 0 /\ Cardinality(At("recvwoken")') \in Nat
  BY AtFinite, FS_CardinalityType
<1> QED BY <1>1, <1>2, <1>3, <1>4 DEF NoLostWakeup

LEMMA RecvTriesKeeps ==
    ASSUME IInv, NEW t \in Threads, pc[t] \in {"idle", "recvwoken"}, RecvTries(t)
    PROVE  IInv'
BY RecvFailsKeeps, RecvTakesKeeps, RecvWaitsKeeps DEF RecvTries

-----------------------------------------------------------------------------
(* Error codes, flush and spurious wakeups                                 *)

LEMMA SetErrSendKeeps ==
    ASSUME IInv, NEW e \in Errors \cup {Ok}, SetErrSend(e)
    PROVE  IInv'
<1> USE DEF IInv, SetErrSend, WakeAll
<1>1. TypeOK'
  BY DEF TypeOK, Blocked
<1>2. /\ At("sendwait")' = {}
      /\ At("recvwait")' = At("recvwait") /\ At("recvwoken")' = At("recvwoken")
  BY DEF TypeOK, Blocked, At
<1> QED BY <1>1, <1>2 DEF NoSleepPastError, NoLostWakeup

LEMMA SetErrRecvKeeps ==
    ASSUME IInv, NEW e \in Errors \cup {Ok}, SetErrRecv(e)
    PROVE  IInv'
<1> USE DEF IInv, SetErrRecv, WakeAll
<1>1. TypeOK'
  BY DEF TypeOK, Blocked
<1>2. /\ At("recvwait")' = {}
      /\ At("sendwait")' = At("sendwait") /\ At("sendwoken")' = At("sendwoken")
  BY DEF TypeOK, Blocked, At
<1> QED BY <1>1, <1>2 DEF NoSleepPastError, NoLostWakeup

LEMMA FlushKeeps ==
    ASSUME IInv, Flush
    PROVE  IInv'
<1> USE DEF IInv, Flush, WakeAll
<1>1. TypeOK'
  BY ThreadMessageAssumption DEF TypeOK, Blocked
<1>2. At("sendwait")' = {} /\ At("recvwait")' = At("recvwait")
  BY DEF TypeOK, Blocked, At
<1>3. Len(fifo') = 0 /\ Cardinality(At("recvwoken")') \in Nat
  BY AtFinite, FS_CardinalityType
<1> QED BY <1>1, <1>2, <1>3 DEF NoSleepPastError, NoLostWakeup

LEMMA SpuriousWakeupKeeps ==
    ASSUME IInv, NEW t \in Threads, SpuriousWakeup(t)
    PROVE  IInv'
<1> USE DEF IInv, SpuriousWakeup
<1>1. TypeOK'
  BY DEF TypeOK, Blocked
<1>2. /\ At("sendwait")' \subseteq At("sendwait") /\ At("sendwoken") \subseteq At("sendwoken")'
      /\ At("recvwait")' \subseteq At("recvwait") /\ At("recvwoken") \subseteq At("recvwoken")'
  BY DEF TypeOK, Blocked, At
<1>3. /\ Cardinality(At("sendwoken")) <= Cardinality(At("sendwoken")')
      /\ Cardinality(At("recvwoken")) <= Cardinality(At("recvwoken")')
  BY <1>2, AtGrows
<1>4. Len(fifo) \in Nat /\ Capacity \in Nat
  BY ThreadMessageAssumption DEF TypeOK
<1>5. NoSleepPastError'
  BY <1>2 DEF NoSleepPastError
<1>6. NoLostWakeup'
  BY <1>2, <1>3, <1>4, AtFinite, FS_CardinalityType DEF NoLostWakeup
<1> QED BY <1>1, <1>5, <1>6

-----------------------------------------------------------------------------
(* The invariant is inductive. *)
LEMMA InitEstablishes == Init => IInv
<1> SUFFICES ASSUME Init PROVE IInv
  OBVIOUS
<1>1. TypeOK
  BY ThreadMessageAssumption DEF Init, TypeOK, Blocked
<1>2. At("sendwait") = {} /\ At("recvwait") = {}
  BY DEF Init, At
<1> QED BY <1>1, <1>2 DEF IInv, NoSleepPastError, NoLostWakeup

LEMMA NextKeeps == IInv /\ [Next]_vars => IInv'
<1> SUFFICES ASSUME IInv, [Next]_vars PROVE IInv'
  OBVIOUS
<1>u. CASE UNCHANGED vars
  BY <1>u DEF IInv, TypeOK, NoSleepPastError, NoLostWakeup, At, vars
<1>1. CASE \E t \in Threads, m \in Messages : Send(t, m)
  BY <1>1, SendTriesKeeps DEF Send
<1>2. CASE \E t \in Threads, m \in Messages : SendNonblock(t, m)
  BY <1>2, <1>u, SendFailsKeeps, SendAppendsKeeps DEF SendNonblock
<1>3. CASE \E t \in Threads : SendResumes(t)
  <2>1. PICK t \in Threads : pc[t] = "sendwoken" /\ SendTries(t, msg[t])
    BY <1>3 DEF SendResumes
  <2>2. msg[t] \in Messages
    BY <2>1 DEF IInv, TypeOK
  <2> QED BY <2>1, <2>2, SendTriesKeeps
<1>4. CASE \E t \in Threads : Recv(t)
  BY <1>4, RecvTriesKeeps DEF Recv
<1>5. CASE \E t \in Threads : RecvNonblock(t)
  BY <1>5, <1>u, RecvTakesKeeps, RecvFailsKeeps DEF RecvNonblock
<1>6. CASE \E t \in Threads : RecvResumes(t)
  BY <1>6, RecvTriesKeeps DEF RecvResumes
<1>7. CASE \E e \in Errors \cup {Ok} : SetErrSend(e) \/ SetErrRecv(e)
  BY <1>7, SetErrSendKeeps, SetErrRecvKeeps
<1>8. CASE Flush
  BY <1>8, FlushKeeps
<1>9. CASE \E t \in Threads : SpuriousWakeup(t)
  BY <1>9, SpuriousWakeupKeeps
<1> QED BY <1>u, <1>1, <1>2, <1>3, <1>4, <1>5, <1>6, <1>7, <1>8, <1>9 DEF Next

THEOREM Inductive == Spec => []IInv
BY InitEstablishes, NextKeeps, PTL DEF Spec

(* The queue never holds more than its capacity, and a thread that waits   *)
(* to send still has its message.                                          *)
THEOREM Typing == Spec => []TypeOK
<1>1. IInv => TypeOK
  BY DEF IInv
<1> QED BY <1>1, Inductive, PTL

(* For every number of threads and every capacity, one signal for each     *)
(* message and one for each slot is enough.                                *)
THEOREM NoWakeupIsLost == Spec => []NoLostWakeup
<1>1. IInv => NoLostWakeup
  BY DEF IInv
<1> QED BY <1>1, Inductive, PTL

(* No caller sleeps while the error code of its side is set. *)
THEOREM NobodySleepsPastAnError == Spec => []NoSleepPastError
<1>1. IInv => NoSleepPastError
  BY DEF IInv
<1> QED BY <1>1, Inductive, PTL
-----------------------------------------------------------------------------
(* The queue implements the channel.  A step of the queue is the step of   *)
(* the channel that its outcome names, or leaves the channel as it is.     *)

(* Only a pending send holds a message; this is what lets the channel      *)
(* clear the argument of every call that returns.                          *)
OnlySendersHold == \A t \in Threads : CallOf(t) # "send" => msg[t] = Nil

RInv == TypeOK /\ OnlySendersHold

\* The calls of the channel.
Calls == [t \in Threads |-> CallOf(t)]

(* A wakeup does not change which call is pending. *)
LEMMA WakingKeepsCalls ==
    ASSUME pc \in [Threads -> Blocked \cup {"idle"}],
           \/ \E t \in Threads : SpuriousWakeup(t)
           \/ WakeAll("sendwait", "sendwoken")
           \/ WakeAll("recvwait", "recvwoken")
    PROVE  Calls' = Calls
BY DEF Calls, CallOf, SpuriousWakeup, WakeAll, Blocked

(* A thread whose call returns is idle, and the signal it gives leaves the *)
(* other calls pending.                                                    *)
LEMMA SignalReturns ==
    ASSUME pc \in [Threads -> Blocked \cup {"idle"}], NEW t \in Threads,
           pc[t] \in {"idle", "sendwoken", "recvwoken"},
           \/ SignalOne(t, "idle", "sendwait", "sendwoken")
           \/ SignalOne(t, "idle", "recvwait", "recvwoken")
    PROVE  Calls' = [Calls EXCEPT ![t] = "idle"]
<1>1. PICK s \in Threads :
        \/ pc' = [pc EXCEPT ![t] = "idle"]
        \/ pc[s] = "sendwait" /\ pc' = [pc EXCEPT ![t] = "idle", ![s] = "sendwoken"]
        \/ pc[s] = "recvwait" /\ pc' = [pc EXCEPT ![t] = "idle", ![s] = "recvwoken"]
  BY DEF SignalOne, At
<1>2. \A u \in Threads : CallOf(u)' = IF u = t THEN "idle" ELSE CallOf(u)
  BY <1>1 DEF CallOf, Blocked
<1> QED BY <1>2 DEF Calls

(* Each of the six outcomes maps to a step of the channel or to a stutter. *)
LEMMA SendTriesImplements ==
    ASSUME RInv, NEW t \in Threads, NEW m \in Messages, SendTries(t, m),
           pc[t] = "idle" \/ (pc[t] = "sendwoken" /\ msg[t] = m)
    PROVE  OnlySendersHold' /\ [Channel!Next]_(Channel!cvars)
<1> USE DEF RInv, Calls, Channel!Next, Channel!cvars, Channel!Return
<1>1. CASE SendFails(t)
  <2>1. Calls' = [Calls EXCEPT ![t] = "idle"] /\ msg' = [msg EXCEPT ![t] = Nil]
    BY <1>1 DEF SendFails, CallOf, TypeOK, Blocked
  <2>2. OnlySendersHold'
    BY <1>1 DEF SendFails, OnlySendersHold, CallOf, TypeOK
  <2>3. CASE pc[t] = "idle"
    BY <1>1, <2>1, <2>2, <2>3 DEF SendFails, OnlySendersHold, CallOf, TypeOK
  <2>4. CASE pc[t] = "sendwoken"
    <3>1. Channel!FailSend(t)
      BY <1>1, <2>1, <2>4 DEF SendFails, CallOf, Channel!FailSend
    <3> QED BY <2>2, <3>1
  <2> QED BY <2>3, <2>4
<1>2. CASE SendAppends(t, m)
  <2>1. Calls' = [Calls EXCEPT ![t] = "idle"]
    BY <1>2, SignalReturns DEF SendAppends, TypeOK
  <2>2. OnlySendersHold'
    <3>1. \A u \in Threads : CallOf(u)' = [Calls EXCEPT ![t] = "idle"][u]
      BY <2>1
    <3> QED BY <1>2, <3>1 DEF SendAppends, OnlySendersHold, TypeOK
  <2>3. Channel!Accept(t, m)
    BY <1>2, <2>1 DEF SendAppends, Channel!Accept
  <2>4. Channel!SendNow(t) \/ Channel!CompleteSend(t)
    <3>1. \/ Calls[t] = "idle"
          \/ Calls[t] = "send" /\ msg[t] = m
      BY DEF CallOf
    <3>2. CASE Calls[t] = "idle"
      BY <2>3, <3>2 DEF Channel!SendNow
    <3>3. CASE Calls[t] = "send" /\ msg[t] = m
      BY <2>3, <3>3 DEF Channel!CompleteSend
    <3> QED BY <3>1, <3>2, <3>3
  <2> QED BY <2>2, <2>4
<1>3. CASE SendWaits(t, m)
  <2>1. Calls' = [Calls EXCEPT ![t] = "send"] /\ msg' = [msg EXCEPT ![t] = m]
    BY <1>3 DEF SendWaits, CallOf, TypeOK, Blocked
  <2>2. OnlySendersHold'
    BY <1>3 DEF SendWaits, OnlySendersHold, CallOf, TypeOK
  <2>3. CASE pc[t] = "idle"
    <3>1. Channel!Begin(t, "send", m)
      BY <1>3, <2>1, <2>3 DEF SendWaits, CallOf, Channel!Begin
    <3> QED BY <2>2, <3>1
  <2>4. CASE pc[t] = "sendwoken" /\ msg[t] = m
    BY <1>3, <2>1, <2>2, <2>4 DEF SendWaits, CallOf, TypeOK
  <2> QED BY <2>3, <2>4
<1> QED BY <1>1, <1>2, <1>3 DEF SendTries

LEMMA RecvTriesImplements ==
    ASSUME RInv, NEW t \in Threads, RecvTries(t), pc[t] \in {"idle", "recvwoken"}
    PROVE  OnlySendersHold' /\ [Channel!Next]_(Channel!cvars)
<1> USE DEF RInv, Calls, Channel!Next, Channel!cvars, Channel!Return
<1>0. msg[t] = Nil /\ msg = [msg EXCEPT ![t] = Nil]
  BY DEF OnlySendersHold, CallOf, TypeOK
<1>1. CASE RecvTakes(t)
  <2>1. Calls' = [Calls EXCEPT ![t] = "idle"]
    BY <1>1, SignalReturns DEF RecvTakes, TypeOK
  <2>2. OnlySendersHold'
    <3>1. \A u \in Threads : CallOf(u)' = [Calls EXCEPT ![t] = "idle"][u]
      BY <2>1
    <3> QED BY <1>0, <1>1, <3>1 DEF RecvTakes, OnlySendersHold
  <2>3. Channel!Deliver(t)
    BY <1>0, <1>1, <2>1 DEF RecvTakes, Channel!Deliver
  <2>4. Channel!RecvNow(t) \/ Channel!CompleteRecv(t)
    BY <2>3 DEF Channel!RecvNow, Channel!CompleteRecv, CallOf
  <2> QED BY <2>2, <2>4
<1>2. CASE RecvFails(t)
  <2>1. Calls' = [Calls EXCEPT ![t] = "idle"]
    BY <1>2 DEF RecvFails, CallOf, TypeOK, Blocked
  <2>2. OnlySendersHold'
    BY <1>0, <1>2 DEF RecvFails, OnlySendersHold, CallOf, TypeOK
  <2>3. CASE pc[t] = "idle"
    BY <1>2, <2>1, <2>2, <2>3 DEF RecvFails, CallOf
  <2>4. CASE pc[t] = "recvwoken"
    <3>1. Channel!FailRecv(t)
      BY <1>0, <1>2, <2>1, <2>4 DEF RecvFails, CallOf, Channel!FailRecv
    <3> QED BY <2>2, <3>1
  <2> QED BY <2>3, <2>4
<1>3. CASE RecvWaits(t)
  <2>1. Calls' = [Calls EXCEPT ![t] = "recv"]
    BY <1>3 DEF RecvWaits, CallOf, TypeOK, Blocked
  <2>2. OnlySendersHold'
    BY <1>0, <1>3 DEF RecvWaits, OnlySendersHold, CallOf, TypeOK
  <2>3. CASE pc[t] = "idle"
    <3>1. Channel!Begin(t, "recv", Nil)
      BY <1>0, <1>3, <2>1, <2>3 DEF RecvWaits, CallOf, Channel!Begin
    <3> QED BY <2>2, <3>1
  <2>4. CASE pc[t] = "recvwoken"
    BY <1>3, <2>1, <2>2, <2>4 DEF RecvWaits, CallOf
  <2> QED BY <2>3, <2>4
<1> QED BY <1>1, <1>2, <1>3 DEF RecvTries

(* Setting an error or flushing is the step of that name; a wakeup that    *)
(* comes from nobody is a stutter.                                         *)
LEMMA WakingImplements ==
    ASSUME RInv,
           \/ \E e \in Errors \cup {Ok} : SetErrSend(e) \/ SetErrRecv(e)
           \/ Flush
           \/ \E t \in Threads : SpuriousWakeup(t)
    PROVE  OnlySendersHold' /\ [Channel!Next]_(Channel!cvars)
<1> USE DEF Calls
<1>1. Calls' = Calls /\ msg' = msg
  BY WakingKeepsCalls DEF RInv, TypeOK, SetErrSend, SetErrRecv, Flush, SpuriousWakeup
<1>2. OnlySendersHold'
  <2>1. \A u \in Threads : CallOf(u)' = Calls[u]
    BY <1>1
  <2> QED BY <1>1, <2>1 DEF RInv, OnlySendersHold
<1>3. CASE \E e \in Errors \cup {Ok} : SetErrSend(e)
  BY <1>1, <1>2, <1>3 DEF SetErrSend, Channel!SetErrSend, Channel!Next
<1>4. CASE \E e \in Errors \cup {Ok} : SetErrRecv(e)
  BY <1>1, <1>2, <1>4 DEF SetErrRecv, Channel!SetErrRecv, Channel!Next
<1>5. CASE Flush
  BY <1>1, <1>2, <1>5 DEF Flush, Channel!Flush, Channel!Next
<1>6. CASE \E t \in Threads : SpuriousWakeup(t)
  BY <1>1, <1>2, <1>6 DEF SpuriousWakeup, Channel!cvars
<1> QED BY <1>3, <1>4, <1>5, <1>6

(* For every set of threads and every capacity the mutex, the two          *)
(* condition variables and the flags of threadmessage.c give the atomic    *)
(* bounded channel: what it accepts, delivers and refuses, in which order. *)
THEOREM QueueImplementsChannel == Spec => Channel!Safety
<1>1. Init => Channel!Init /\ OnlySendersHold
  BY DEF Init, Channel!Init, OnlySendersHold, CallOf
<1>2. TypeOK /\ OnlySendersHold /\ [Next]_vars
        => OnlySendersHold' /\ [Channel!Next]_(Channel!cvars)
  <2> SUFFICES ASSUME RInv, [Next]_vars
               PROVE  OnlySendersHold' /\ [Channel!Next]_(Channel!cvars)
    BY DEF RInv
  <2>u. CASE UNCHANGED vars
    BY <2>u DEF vars, RInv, OnlySendersHold, CallOf, Channel!cvars
  <2>1. CASE \E t \in Threads, m \in Messages : Send(t, m) \/ SendNonblock(t, m)
    BY <2>1, <2>u, SendTriesImplements DEF Send, SendNonblock, SendTries
  <2>2. CASE \E t \in Threads : SendResumes(t)
    <3>1. PICK t \in Threads : pc[t] = "sendwoken" /\ SendTries(t, msg[t])
      BY <2>2 DEF SendResumes
    <3>2. msg[t] \in Messages
      BY <3>1 DEF RInv, TypeOK
    <3> QED BY <3>1, <3>2, SendTriesImplements
  <2>3. CASE \E t \in Threads : Recv(t) \/ RecvNonblock(t)
    BY <2>3, <2>u, RecvTriesImplements DEF Recv, RecvNonblock, RecvTries
  <2>4. CASE \E t \in Threads : RecvResumes(t)
    BY <2>4, RecvTriesImplements DEF RecvResumes
  <2>5. CASE \/ \E e \in Errors \cup {Ok} : SetErrSend(e) \/ SetErrRecv(e)
             \/ Flush
             \/ \E t \in Threads : SpuriousWakeup(t)
    BY <2>5, WakingImplements
  <2> QED BY <2>u, <2>1, <2>2, <2>3, <2>4, <2>5 DEF Next
<1> QED BY <1>1, <1>2, Typing, PTL DEF Spec, Channel!Safety
=============================================================================
