--------------------------- MODULE FifoMuxerProofs ---------------------------
(***************************************************************************)
(* Proofs about FifoMuxer for any capacity of the queue, any number of     *)
(* packets and failures, any keyframes and options: packets are written in *)
(* order, references are given back, nothing is lost while the encoder     *)
(* waits, and an output that is started again begins with a keyframe.      *)
(***************************************************************************)
EXTENDS FifoMuxer, FiniteSetTheorems, TLAPS

\* Where the packets are: in the writer's hand, and in a call of the encoder
\* that waits for room in the queue.
Held    == {hand} \intersect Packets
Waiting == IF qpc["encoder"] = "idle" THEN {} ELSE {qmsg["encoder"]} \intersect Packets

Ended == wpc \in {"stop", "trailer", "ended"}

-----------------------------------------------------------------------------
(* The inductive invariant                                                  *)

Msgs == Packets \union {FlushOut}

QueueTypes ==
    /\ fifo \in Seq(Msgs) /\ Len(fifo) <= Capacity
    /\ errSend \in Failures \union {OK, "eof"} /\ errRecv \in {OK, "eof"}
    /\ qpc \in [{"encoder", "writer"} -> Q!Blocked \union {"idle"}]
    /\ qpc["encoder"] \in {"idle", "sendwait", "sendwoken"}
    /\ qpc["writer"] \in {"idle", "recvwait", "recvwoken"}
    /\ qmsg \in [{"encoder", "writer"} -> Msgs \union {NoMsg}]
    /\ got \in [{"encoder", "writer"} -> Msgs \union {NoMsg}]
    /\ qpc["encoder"] # "idle" => qmsg["encoder"] \in Msgs

Records == [pkt : Packets, file : Nat, scaled : Nat]

Types ==
    /\ cfg \in Configs
    /\ overflow \in BOOLEAN /\ header \in BOOLEAN /\ dropKey \in BOOLEAN
    /\ epc \in {"new", "idle", "full", "join", "joined", "closed"}
    /\ wpc \in {"none", "dispatch", "recover", "check", "recv", "stop", "trailer", "ended"}
    /\ hand \in 0 .. NoMsg /\ sent \in 0 .. MaxPackets /\ accepted \subseteq 1 .. sent
    /\ err \in Failures \union {OK, "eof"}
    /\ written \in Seq(Records)

\* Every file and every attempt but the first takes a failure.
Counts ==
    /\ faults \in 0 .. MaxFaults /\ recoveryNr \in 0 .. faults /\ scaled \in 0 .. faults
    /\ file \in 0 .. faults + 1
    /\ ~header \/ wpc = "recover" \/ recoveryNr # 0 => file <= faults
    /\ wpc \in {"none", "dispatch"} => recoveryNr = 0
    /\ recoveryNr # 0 => cfg.recover

\* What the two threads know of each other
Threads ==
    /\ epc # "idle" => qpc["encoder"] = "idle"
    /\ epc = "new" => wpc = "none"
    /\ epc \in {"joined", "closed"} => wpc = "ended"
    /\ errRecv # OK => epc \in {"join", "joined", "closed"}
    /\ epc = "closed" => fifo = <<>>
    /\ wpc \in {"check", "recv"} => hand = NoMsg
    /\ Ended => hand = NoMsg \/ (cfg.max > 0 /\ recoveryNr >= cfg.max)
    /\ Ended /\ err \notin Failures => /\ fifo = <<>> /\ errRecv # OK
    /\ wpc = "recover" => \/ err \in cfg.fails
                          \/ err = OK /\ cfg.recover

\* The packets, from those written to the one that waits, are in order.
Ordered ==
    /\ InOrder
    /\ \A i, j \in DOMAIN fifo :
           i < j /\ fifo[i] \in Packets /\ fifo[j] \in Packets => fifo[i] < fifo[j]
    /\ \A p \in WrittenPackets, q \in Held \union InQueue \union Waiting : p < q
    /\ \A p \in Held, q \in InQueue \union Waiting : p < q
    /\ \A p \in InQueue, q \in Waiting : p < q
    /\ WrittenPackets \union Held \union InQueue \union Waiting \subseteq 1 .. sent
    /\ \A i \in DOMAIN written : written[i].file <= file

\* Each packet that is somewhere has its reference, and no other.
References == refs = Held \union InQueue \union Waiting

\* The packets of a blocking encoder are not dropped.
Blocking == ~cfg.drop => ~overflow /\ ~dropKey /\ epc # "full"

\* A file is begun outside of an attempt only if it is the first.
FirstHeader ==
    header \/ file = 0
    \/ (cfg.recover /\ (wpc = "recover" \/ Ended \/ recoveryNr # 0))

\* A file but the first that has no packet yet waits for a keyframe, unless
\* the next packet begins another file.
NoPacketYet == file > 1 /\ \A i \in DOMAIN written : written[i].file < file

KeyframeNext ==
    cfg.restart /\ cfg.drop /\ NoPacketYet =>
        \/ dropKey
        \/ cfg.recover /\ (wpc = "recover" \/ Ended \/ recoveryNr # 0)

FirstFile == ~cfg.recover => file <= 1

IInv == /\ QueueTypes /\ Types /\ Counts /\ Threads /\ Ordered /\ References
        /\ Blocking /\ FirstHeader /\ FirstFile /\ KeyframeNext /\ RestartsWithKeyframe

-----------------------------------------------------------------------------
(* The queue: what each of its operations does here                         *)

\* The call of the encoder is where it was, up to being woken.
SameCall == /\ qpc'["encoder"] = "idle" <=> qpc["encoder"] = "idle"
            /\ qmsg' = qmsg

LEMMA Constants ==
    /\ Capacity \in Nat \ {0} /\ MaxPackets \in Nat /\ MaxFaults \in Nat
    /\ OK \notin Failures /\ "eof" \notin Failures /\ "idle" \notin Q!Blocked
    /\ FlushOut \notin Packets /\ NoMsg \notin Packets /\ Header \notin Packets
    /\ Msgs \subseteq 1 .. MaxPackets + 1 /\ Packets \subseteq Msgs
    /\ NoMsg \notin Msgs
    /\ \A c \in Configs : c.fails \subseteq Failures
BY FifoMuxerAssumption
   DEF FifoMuxerAssumption, OK, Q!Blocked, FlushOut, NoMsg, Header, Packets, Msgs

LEMMA EncoderSignals ==
    ASSUME QueueTypes, Q!SignalOne("encoder", "idle", "recvwait", "recvwoken")
    PROVE  /\ qpc' \in [{"encoder", "writer"} -> Q!Blocked \union {"idle"}]
           /\ qpc'["encoder"] = "idle" /\ qpc'["writer"] \in {"idle", "recvwait", "recvwoken"}
<1>1. /\ qpc \in [{"encoder", "writer"} -> Q!Blocked \union {"idle"}]
      /\ qpc["writer"] \in {"idle", "recvwait", "recvwoken"} /\ qpc["encoder"] # "recvwait"
      /\ "recvwoken" \in Q!Blocked
  BY DEF QueueTypes, Q!Blocked
<1>2. \/ qpc' = [qpc EXCEPT !["encoder"] = "idle"]
      \/ qpc' = [qpc EXCEPT !["encoder"] = "idle", !["writer"] = "recvwoken"]
  BY <1>1 DEF Q!SignalOne, Q!At
<1> QED BY <1>1, <1>2

LEMMA WriterSignals ==
    ASSUME QueueTypes, Q!SignalOne("writer", "idle", "sendwait", "sendwoken")
    PROVE  /\ qpc' \in [{"encoder", "writer"} -> Q!Blocked \union {"idle"}]
           /\ qpc'["encoder"] \in {"idle", "sendwait", "sendwoken"} /\ qpc'["writer"] = "idle"
           /\ qpc'["encoder"] = "idle" <=> qpc["encoder"] = "idle"
<1>1. /\ qpc \in [{"encoder", "writer"} -> Q!Blocked \union {"idle"}]
      /\ qpc["encoder"] \in {"idle", "sendwait", "sendwoken"} /\ qpc["writer"] # "sendwait"
      /\ "sendwoken" \in Q!Blocked
  BY DEF QueueTypes, Q!Blocked
<1>2. \/ qpc' = [qpc EXCEPT !["writer"] = "idle"]
      \/ qpc["encoder"] = "sendwait"
         /\ qpc' = [qpc EXCEPT !["writer"] = "idle", !["encoder"] = "sendwoken"]
  BY <1>1 DEF Q!SignalOne, Q!At
<1> QED BY <1>1, <1>2

LEMMA QueueAppends ==
    ASSUME QueueTypes, NEW m \in Msgs, Q!SendAppends("encoder", m)
    PROVE  /\ QueueTypes' /\ UNCHANGED errRecv
           /\ fifo' = Append(fifo, m) /\ qpc'["encoder"] = "idle" /\ Waiting' = {}
           /\ InQueue' = InQueue \union ({m} \intersect Packets)
<1>1. /\ fifo \in Seq(Msgs) /\ Len(fifo) < Capacity /\ fifo' = Append(fifo, m)
      /\ qmsg' = [qmsg EXCEPT !["encoder"] = NoMsg] /\ UNCHANGED <<errSend, errRecv, got>>
  BY DEF Q!SendAppends, QueueTypes
<1>2. /\ fifo' \in Seq(Msgs) /\ Len(fifo') = Len(fifo) + 1 /\ Len(fifo) \in Nat
      /\ \A i \in 1 .. Len(fifo) : fifo'[i] = fifo[i]
      /\ fifo'[Len(fifo) + 1] = m
  BY <1>1
<1>3. QueueTypes'
  <2>1. /\ qpc' \in [{"encoder", "writer"} -> Q!Blocked \union {"idle"}]
        /\ qpc'["encoder"] = "idle" /\ qpc'["writer"] \in {"idle", "recvwait", "recvwoken"}
    BY EncoderSignals DEF Q!SendAppends
  <2>2. qmsg' \in [{"encoder", "writer"} -> Msgs \union {NoMsg}]
    BY <1>1 DEF QueueTypes
  <2>3. Len(fifo') <= Capacity
    BY <1>1, <1>2, Constants
  <2> QED BY <1>1, <1>2, <2>1, <2>2, <2>3 DEF QueueTypes
<1>4. qpc'["encoder"] = "idle" /\ Waiting' = {}
  BY EncoderSignals DEF Waiting, Q!SendAppends
<1>5. InQueue' = InQueue \union ({m} \intersect Packets)
  <2>1. DOMAIN fifo = 1 .. Len(fifo) /\ DOMAIN fifo' = 1 .. Len(fifo) + 1
    BY <1>1, <1>2
  <2> QED BY <1>2, <2>1 DEF InQueue
<1> QED BY <1>1, <1>3, <1>4, <1>5

LEMMA QueueRefuses ==
    ASSUME QueueTypes, Q!SendFails("encoder")
    PROVE  /\ QueueTypes' /\ UNCHANGED <<fifo, errRecv>>
           /\ qpc'["encoder"] = "idle" /\ Waiting' = {} /\ InQueue' = InQueue
<1>1. /\ qpc' = [qpc EXCEPT !["encoder"] = "idle"] /\ qmsg' = [qmsg EXCEPT !["encoder"] = NoMsg]
      /\ UNCHANGED <<fifo, errSend, errRecv, got>>
  BY DEF Q!SendFails
<1>2. QueueTypes' /\ qpc'["encoder"] = "idle"
  BY <1>1 DEF QueueTypes
<1> QED BY <1>1, <1>2 DEF Waiting, InQueue

LEMMA QueueIsFull ==
    ASSUME QueueTypes, NEW m \in Msgs, Q!SendWaits("encoder", m)
    PROVE  /\ QueueTypes' /\ UNCHANGED <<fifo, errRecv>>
           /\ qpc'["encoder"] # "idle" /\ Waiting' = {m} \intersect Packets /\ InQueue' = InQueue
<1>1. /\ qpc' = [qpc EXCEPT !["encoder"] = "sendwait"] /\ qmsg' = [qmsg EXCEPT !["encoder"] = m]
      /\ UNCHANGED <<fifo, errSend, errRecv, got>> /\ "sendwait" \in Q!Blocked
  BY DEF Q!SendWaits, Q!Blocked
<1>2. QueueTypes' /\ qpc'["encoder"] = "sendwait" /\ qmsg'["encoder"] = m
  BY <1>1 DEF QueueTypes
<1> QED BY <1>1, <1>2 DEF Waiting, InQueue

LEMMA QueueGives ==
    ASSUME QueueTypes, Q!RecvTakes("writer")
    PROVE  /\ QueueTypes' /\ UNCHANGED errRecv /\ SameCall
           /\ fifo # <<>> /\ fifo' = Tail(fifo) /\ Head(fifo) \in Msgs
           /\ InQueue = InQueue' \union ({Head(fifo)} \intersect Packets)
           /\ Waiting' = Waiting
<1>1. /\ fifo \in Seq(Msgs) /\ fifo # <<>> /\ fifo' = Tail(fifo) /\ Len(fifo) <= Capacity
      /\ got' = [got EXCEPT !["writer"] = Head(fifo)] /\ UNCHANGED <<errSend, errRecv, qmsg>>
  BY DEF Q!RecvTakes, QueueTypes
<1>2. /\ Head(fifo) \in Msgs /\ fifo' \in Seq(Msgs) /\ Len(fifo') = Len(fifo) - 1
      /\ Len(fifo) \in Nat \ {0} /\ Head(fifo) = fifo[1]
      /\ \A i \in 1 .. Len(fifo) - 1 : fifo'[i] = fifo[i + 1]
  BY <1>1
<1>3. QueueTypes' /\ SameCall
  <2>1. got' \in [{"encoder", "writer"} -> Msgs \union {NoMsg}]
    BY <1>1, <1>2 DEF QueueTypes
  <2>2. Len(fifo') <= Capacity
    BY <1>1, <1>2, Constants
  <2> QED BY <1>1, <1>2, <2>1, <2>2, WriterSignals DEF QueueTypes, SameCall, Q!RecvTakes
<1>4. InQueue = InQueue' \union ({Head(fifo)} \intersect Packets)
  <2>1. DOMAIN fifo = 1 .. Len(fifo) /\ DOMAIN fifo' = 1 .. Len(fifo) - 1
    BY <1>1, <1>2
  <2>2. \A i \in DOMAIN fifo : i = 1 \/ (i - 1 \in DOMAIN fifo' /\ fifo'[i - 1] = fifo[i])
    BY <1>2, <2>1
  <2>3. \A i \in DOMAIN fifo' : i + 1 \in DOMAIN fifo /\ fifo'[i] = fifo[i + 1]
    BY <1>2, <2>1
  <2>4. 1 \in DOMAIN fifo
    BY <1>2, <2>1
  <2> QED BY <1>2, <2>2, <2>3, <2>4 DEF InQueue
<1>5. Waiting' = Waiting
  BY <1>3 DEF SameCall, Waiting
<1> QED BY <1>1, <1>2, <1>3, <1>4, <1>5

(* The operations that leave the messages where they are                    *)
QueueStays == /\ QueueTypes' /\ SameCall
              /\ fifo' = fifo /\ InQueue' = InQueue /\ Waiting' = Waiting

LEMMA QueueWakes ==
    ASSUME QueueTypes,
           UNCHANGED <<fifo, qmsg, got>>,
           errSend' \in Failures \union {OK, "eof"}, errRecv' \in {OK, "eof"},
           qpc' \in [{"encoder", "writer"} -> Q!Blocked \union {"idle"}],
           qpc'["encoder"] \in {"idle", "sendwait", "sendwoken"},
           qpc'["writer"] \in {"idle", "recvwait", "recvwoken"},
           qpc'["encoder"] = "idle" <=> qpc["encoder"] = "idle"
    PROVE  QueueStays
<1>1. QueueTypes'
  BY DEF QueueTypes
<1> QED BY <1>1 DEF QueueStays, SameCall, InQueue, Waiting

LEMMA ReceiveStays ==
    ASSUME QueueTypes, Q!RecvFails("writer") \/ Q!RecvWaits("writer")
    PROVE  QueueStays /\ UNCHANGED errRecv
<1>1. \/ qpc' = [qpc EXCEPT !["writer"] = "idle"]
      \/ qpc' = [qpc EXCEPT !["writer"] = "recvwait"]
  BY DEF Q!RecvFails, Q!RecvWaits
<1>2. /\ qpc' \in [{"encoder", "writer"} -> Q!Blocked \union {"idle"}]
      /\ qpc'["encoder"] = qpc["encoder"] /\ qpc'["writer"] \in {"idle", "recvwait"}
  BY <1>1 DEF QueueTypes, Q!Blocked
<1> QED BY <1>2, QueueWakes DEF QueueTypes, Q!RecvFails, Q!RecvWaits

(* Wakeups                                                                  *)
LEMMA WakesEncoder ==
    ASSUME QueueTypes, Q!WakeAll("sendwait", "sendwoken")
    PROVE  /\ qpc' \in [{"encoder", "writer"} -> Q!Blocked \union {"idle"}]
           /\ qpc'["encoder"] \in {"idle", "sendwait", "sendwoken"} /\ qpc'["writer"] = qpc["writer"]
           /\ qpc'["encoder"] = "idle" <=> qpc["encoder"] = "idle"
BY DEF QueueTypes, Q!WakeAll, Q!Blocked

LEMMA WakesWriter ==
    ASSUME QueueTypes, Q!WakeAll("recvwait", "recvwoken")
    PROVE  /\ qpc' \in [{"encoder", "writer"} -> Q!Blocked \union {"idle"}]
           /\ qpc'["writer"] \in {"idle", "recvwait", "recvwoken"} /\ qpc'["encoder"] = qpc["encoder"]
BY DEF QueueTypes, Q!WakeAll, Q!Blocked

LEMMA ErrorsStay ==
    ASSUME QueueTypes,
           \/ \E e \in Failures \union {OK, "eof"} : Q!SetErrSend(e)
           \/ Q!SetErrRecv("eof")
    PROVE  QueueStays
<1>1. CASE \E e \in Failures \union {OK, "eof"} : Q!SetErrSend(e)
  BY <1>1, WakesEncoder, QueueWakes DEF QueueTypes, Q!SetErrSend
<1>2. CASE Q!SetErrRecv("eof")
  BY <1>2, WakesWriter, QueueWakes DEF QueueTypes, Q!SetErrRecv
<1> QED BY <1>1, <1>2

LEMMA WakeupStays ==
    ASSUME QueueTypes, NEW t \in {"encoder", "writer"}, Q!SpuriousWakeup(t)
    PROVE  QueueStays /\ UNCHANGED errRecv
<1>1. /\ qpc[t] \in {"sendwait", "recvwait"}
      /\ qpc' = [qpc EXCEPT ![t] = IF qpc[t] = "sendwait" THEN "sendwoken" ELSE "recvwoken"]
      /\ UNCHANGED <<fifo, errSend, errRecv, qmsg, got>>
  BY DEF Q!SpuriousWakeup
<1>2. /\ qpc' \in [{"encoder", "writer"} -> Q!Blocked \union {"idle"}]
      /\ qpc'["encoder"] \in {"idle", "sendwait", "sendwoken"}
      /\ qpc'["writer"] \in {"idle", "recvwait", "recvwoken"}
      /\ qpc'["encoder"] = "idle" <=> qpc["encoder"] = "idle"
  BY <1>1 DEF QueueTypes, Q!Blocked
<1> QED BY <1>1, <1>2, QueueWakes DEF QueueTypes

LEMMA QueueIsFlushed ==
    ASSUME QueueTypes, Q!Flush
    PROVE  /\ QueueTypes' /\ SameCall /\ UNCHANGED errRecv
           /\ fifo' = <<>> /\ InQueue' = {} /\ Waiting' = Waiting
<1>1. fifo' = <<>> /\ UNCHANGED <<errSend, errRecv, qmsg, got>>
  BY DEF Q!Flush
<1>2. /\ qpc' \in [{"encoder", "writer"} -> Q!Blocked \union {"idle"}]
      /\ qpc'["encoder"] \in {"idle", "sendwait", "sendwoken"} /\ qpc'["writer"] = qpc["writer"]
      /\ qpc'["encoder"] = "idle" <=> qpc["encoder"] = "idle"
  BY WakesEncoder DEF Q!Flush
<1>3. QueueTypes'
  <2>1. fifo' \in Seq(Msgs) /\ Len(fifo') = 0
    BY <1>1
  <2> QED BY <1>1, <1>2, <2>1, Constants DEF QueueTypes
<1> QED BY <1>1, <1>2, <1>3 DEF SameCall, InQueue, Waiting

-----------------------------------------------------------------------------
(* What a step has to leave alone                                           *)

\* The parts of the invariant that are the writer's alone
Outputs == Counts /\ FirstHeader /\ FirstFile /\ KeyframeNext /\ RestartsWithKeyframe

LEMMA NothingWritten ==
    ASSUME UNCHANGED <<cfg, hand, output>>
    PROVE  /\ Held' = Held /\ WrittenPackets' = WrittenPackets /\ (InOrder <=> InOrder')
           /\ (NoPacketYet <=> NoPacketYet') /\ (RestartsWithKeyframe <=> RestartsWithKeyframe')
BY DEF output, Held, WrittenPackets, InOrder, NoPacketYet, RestartsWithKeyframe, Begins

LEMMA WriterAside ==
    ASSUME IInv, UNCHANGED <<cfg, wpc, hand, scaled, output, recoveryNr>>
    PROVE  Outputs' /\ (Ended <=> Ended')
<1>1. /\ UNCHANGED <<header, dropKey, faults, file, written>>
      /\ (NoPacketYet <=> NoPacketYet') /\ (RestartsWithKeyframe <=> RestartsWithKeyframe')
  BY NothingWritten DEF output
<1> QED BY <1>1 DEF IInv, Outputs, Counts, FirstHeader, FirstFile, KeyframeNext, Ended

\* A step that only moves messages out of the way keeps the order.
LEMMA OrderKept ==
    ASSUME Ordered, UNCHANGED <<written, file>>, fifo' = fifo \/ fifo' = <<>>,
           Held' \subseteq Held, InQueue' \subseteq InQueue, Waiting' \subseteq Waiting,
           sent \in Nat, sent' \in Nat, sent <= sent'
    PROVE  Ordered'
<1>1. WrittenPackets' = WrittenPackets /\ (InOrder <=> InOrder')
  BY DEF WrittenPackets, InOrder
<1>2. 1 .. sent \subseteq 1 .. sent'
  OBVIOUS
<1> QED BY <1>1, <1>2 DEF Ordered

LEMMA OrderAppended ==
    ASSUME Ordered, UNCHANGED <<written, file, hand>>,
           fifo \in Seq(Msgs), NEW m \in Msgs, fifo' = Append(fifo, m),
           Waiting' = {}, InQueue' = InQueue \union ({m} \intersect Packets),
           sent \in Nat, sent' \in Nat, sent <= sent',
           m \in Packets => /\ m \in 1 .. sent'
                            /\ \A p \in WrittenPackets \union Held \union InQueue : p < m
    PROVE  Ordered'
<1>1. WrittenPackets' = WrittenPackets /\ (InOrder <=> InOrder') /\ Held' = Held
  BY DEF WrittenPackets, InOrder, Held
<1>2. 1 .. sent \subseteq 1 .. sent'
  OBVIOUS
<1>3. \A i, j \in DOMAIN fifo' :
          i < j /\ fifo'[i] \in Packets /\ fifo'[j] \in Packets => fifo'[i] < fifo'[j]
  <2>1. /\ DOMAIN fifo = 1 .. Len(fifo) /\ Len(fifo) \in Nat
        /\ DOMAIN fifo' = 1 .. Len(fifo) + 1 /\ fifo'[Len(fifo) + 1] = m
        /\ \A i \in 1 .. Len(fifo) : fifo'[i] = fifo[i]
    OBVIOUS
  <2> SUFFICES ASSUME NEW i \in DOMAIN fifo', NEW j \in DOMAIN fifo', i < j,
                      fifo'[i] \in Packets, fifo'[j] \in Packets
               PROVE  fifo'[i] < fifo'[j]
    OBVIOUS
  <2>2. i \in 1 .. Len(fifo) /\ fifo'[i] = fifo[i]
    BY <2>1
  <2>3. CASE j \in 1 .. Len(fifo)
    BY <2>1, <2>2, <2>3 DEF Ordered
  <2>4. CASE j = Len(fifo) + 1
    <3>1. fifo[i] \in InQueue
      BY <2>1, <2>2 DEF InQueue
    <3> QED BY <2>1, <2>2, <2>4, <3>1
  <2> QED BY <2>1, <2>3, <2>4
<1>4. \A p \in WrittenPackets, q \in Held' \union InQueue' \union Waiting' : p < q
  BY <1>1 DEF Ordered
<1>5. \A p \in Held, q \in InQueue' \union Waiting' : p < q
  BY DEF Ordered
<1>6. WrittenPackets \union Held \union InQueue' \union Waiting' \subseteq 1 .. sent'
  BY <1>2 DEF Ordered
<1>7. \A i \in DOMAIN written' : written'[i].file <= file'
  BY DEF Ordered
<1> QED BY <1>1, <1>3, <1>4, <1>5, <1>6, <1>7 DEF Ordered

(* What is in one place is in no other.                                     *)
LEMMA PlacesAreDisjoint ==
    ASSUME Ordered, sent \in Nat
    PROVE  /\ Held \intersect InQueue = {} /\ Held \intersect Waiting = {}
           /\ InQueue \intersect Waiting = {}
<1>1. \A p \in Held \union InQueue \union Waiting : p \in Int
  BY DEF Ordered
<1>2. \A p \in Held, q \in InQueue \union Waiting : p < q
  BY DEF Ordered
<1>3. \A p \in InQueue, q \in Waiting : p < q
  BY DEF Ordered
<1>4. \A p \in Int : ~(p < p)
  OBVIOUS
<1> QED BY <1>1, <1>2, <1>3, <1>4

-----------------------------------------------------------------------------
(* The steps of the encoder's thread                                        *)

LEMMA InitEstablishes == Init => IInv
<1> SUFFICES ASSUME Init PROVE IInv
  OBVIOUS
<1>1. /\ fifo = <<>> /\ errSend = OK /\ errRecv = OK /\ hand = Header /\ written = <<>>
      /\ qpc = [t \in {"encoder", "writer"} |-> "idle"]
      /\ qmsg = [t \in {"encoder", "writer"} |-> NoMsg]
      /\ got = [t \in {"encoder", "writer"} |-> NoMsg]
  BY DEF Init, Q!Init
<1>2. /\ fifo \in Seq(Msgs) /\ Len(fifo) = 0 /\ DOMAIN fifo = {}
      /\ written \in Seq(Records) /\ DOMAIN written = {}
  BY <1>1
<1>3. QueueTypes
  BY <1>1, <1>2, Constants DEF QueueTypes
<1>4. Types /\ Counts
  <2>1. hand \in 0 .. NoMsg /\ sent = 0 /\ sent \in 0 .. MaxPackets /\ accepted \subseteq 1 .. sent
    BY <1>1, Constants DEF Init, Header, NoMsg
  <2>2. Types
    BY <1>2, <2>1 DEF Init, Types
  <2>3. Counts
    BY Constants DEF Init, Counts
  <2> QED BY <2>2, <2>3
<1>5. /\ Held = {} /\ InQueue = {} /\ Waiting = {} /\ WrittenPackets = {}
  BY <1>1, <1>2, Constants DEF Held, InQueue, Waiting, WrittenPackets
<1>6. Threads /\ References /\ Blocking
  BY <1>1, <1>5 DEF Init, Threads, References, Blocking, Ended
<1>7. Ordered
  BY <1>2, <1>5 DEF Ordered, InOrder
<1>8. FirstHeader /\ FirstFile /\ KeyframeNext /\ RestartsWithKeyframe
  BY <1>2 DEF Init, FirstHeader, FirstFile, KeyframeNext, NoPacketYet, RestartsWithKeyframe
<1> QED BY <1>3, <1>4, <1>6, <1>7, <1>8 DEF IInv

LEMMA SendKeeps ==
    ASSUME IInv, NEW m \in Msgs, m \in Packets => m = sent + 1, WritePacket(m), sent < MaxPackets
    PROVE  IInv'
<1>1. /\ epc = "idle" /\ qpc["encoder"] = "idle" /\ Waiting = {}
      /\ UNCHANGED <<cfg, overflow, wpc, err, hand, scaled, output, retry>>
      /\ UNCHANGED <<header, dropKey, faults, file, written, recoveryNr>>
      /\ sent' = IF m = FlushOut THEN sent ELSE m
  BY DEF WritePacket, Waiting, output, retry
<1>2. /\ sent \in Nat /\ sent' \in 0 .. MaxPackets /\ sent <= sent'
      /\ m \in Packets => m = sent' /\ m \notin 1 .. sent
  BY <1>1, Constants DEF IInv, Types, Msgs, Packets
<1>3. Outputs' /\ (Ended <=> Ended') /\ Held' = Held /\ WrittenPackets' = WrittenPackets
  BY <1>1, WriterAside, NothingWritten
<1>4. m \in Packets => /\ m \in 1 .. sent'
                       /\ \A p \in WrittenPackets \union Held \union InQueue : p < m
  <2>1. WrittenPackets \union Held \union InQueue \subseteq 1 .. sent
    BY DEF IInv, Ordered
  <2>2. m \in Packets => m = sent + 1 /\ m \in Nat
    BY <1>2
  <2> QED BY <1>2, <2>1, <2>2
<1>5. QueueTypes /\ fifo \in Seq(Msgs)
  BY DEF IInv, QueueTypes
<1>6. ASSUME QueueTypes', epc' \in {"idle", "full"}, epc' # "idle" => qpc'["encoder"] = "idle",
             ~cfg.drop => epc' # "full", errRecv' = errRecv, accepted' \subseteq 1 .. sent',
             Ordered', References'
      PROVE  IInv'
  <2>1. Types'
    BY <1>1, <1>2, <1>6 DEF IInv, Types
  <2>2. errRecv = OK
    BY <1>1 DEF IInv, Threads
  <2>3. Threads'
    BY <1>1, <1>3, <1>6, <2>2 DEF IInv, Threads
  <2>4. Blocking'
    BY <1>1, <1>6 DEF IInv, Blocking
  <2> QED BY <1>3, <1>6, <2>1, <2>3, <2>4 DEF IInv, Outputs
<1>7. accepted \subseteq 1 .. sent' /\ accepted \union ({m} \intersect Packets) \subseteq 1 .. sent'
  <2>1. accepted \subseteq 1 .. sent /\ 1 .. sent \subseteq 1 .. sent'
    BY <1>2 DEF IInv, Types
  <2> QED BY <1>4, <2>1
<1>8. CASE /\ Q!SendAppends("encoder", m) /\ Accepted(m)
           /\ refs' = refs \union ({m} \intersect Packets) /\ UNCHANGED epc
  <2>1. /\ QueueTypes' /\ UNCHANGED errRecv
        /\ fifo' = Append(fifo, m) /\ Waiting' = {}
        /\ InQueue' = InQueue \union ({m} \intersect Packets)
        /\ qpc'["encoder"] = "idle"
    BY <1>5, <1>8, QueueAppends
  <2>2. Ordered'
    BY <1>1, <1>2, <1>4, <1>5, <2>1, OrderAppended DEF IInv
  <2>3. References'
    BY <1>1, <1>3, <1>8, <2>1 DEF IInv, References
  <2> QED BY <1>1, <1>6, <1>7, <1>8, <2>1, <2>2, <2>3 DEF Accepted
<1>9. CASE Q!SendFails("encoder") /\ Refused /\ UNCHANGED <<epc, refs>>
  <2>1. /\ QueueTypes' /\ UNCHANGED <<fifo, errRecv>>
        /\ qpc'["encoder"] = "idle" /\ Waiting' = {} /\ InQueue' = InQueue
    BY <1>5, <1>9, QueueRefuses
  <2>2. Ordered'
    BY <1>1, <1>2, <1>3, <2>1, OrderKept DEF IInv
  <2>3. References'
    BY <1>1, <1>3, <1>9, <2>1 DEF IInv, References
  <2> QED BY <1>1, <1>6, <1>7, <1>9, <2>1, <2>2, <2>3 DEF Refused
<1>10. CASE /\ ~cfg.drop /\ Q!SendWaits("encoder", m) /\ Refused
            /\ refs' = refs \union ({m} \intersect Packets) /\ UNCHANGED epc
  <2>1. /\ QueueTypes' /\ UNCHANGED <<fifo, errRecv>>
        /\ Waiting' = {m} \intersect Packets /\ InQueue' = InQueue
    BY <1>5, <1>10, QueueIsFull
  <2>2. Ordered'
    <3>1. (InOrder <=> InOrder') /\ 1 .. sent \subseteq 1 .. sent'
      BY <1>1, <1>2, NothingWritten
    <3> QED BY <1>1, <1>3, <1>4, <2>1, <3>1 DEF IInv, Ordered
  <2>3. References'
    BY <1>1, <1>3, <1>10, <2>1 DEF IInv, References
  <2> QED BY <1>1, <1>6, <1>7, <1>10, <2>1, <2>2, <2>3 DEF Refused
<1>11. CASE /\ cfg.drop /\ errSend = OK /\ Len(fifo) >= Capacity /\ Refused
            /\ epc' = "full" /\ UNCHANGED <<queue, refs>>
  <2>1. /\ UNCHANGED <<fifo, errSend, errRecv, qpc, qmsg, got>>
        /\ Waiting' = Waiting /\ InQueue' = InQueue
    BY <1>11 DEF queue, Waiting, InQueue
  <2>2. QueueTypes'
    BY <1>5, <2>1 DEF QueueTypes
  <2>3. Ordered'
    BY <1>1, <1>2, <1>3, <2>1, OrderKept DEF IInv
  <2>4. References'
    BY <1>1, <1>3, <1>11, <2>1 DEF IInv, References
  <2> QED BY <1>1, <1>6, <1>7, <1>11, <2>1, <2>2, <2>3, <2>4 DEF Refused
<1> QED BY <1>8, <1>9, <1>10, <1>11 DEF WritePacket

(* A step that leaves the messages and the writer where they are            *)
LEMMA AsideKeeps ==
    ASSUME IInv, QueueStays, Threads', Blocking',
           UNCHANGED <<cfg, wpc, err, message, output, recoveryNr, sent, accepted>>,
           overflow' \in BOOLEAN,
           epc' \in {"new", "idle", "full", "join", "joined", "closed"}
    PROVE  IInv'
<1>1. /\ UNCHANGED <<hand, scaled, refs, header, dropKey, faults, file, written>>
      /\ QueueTypes' /\ fifo' = fifo /\ InQueue' = InQueue /\ Waiting' = Waiting
  BY DEF message, output, QueueStays
<1>2. Outputs' /\ Held' = Held
  BY <1>1, WriterAside, NothingWritten
<1>3. Types'
  BY <1>1 DEF IInv, Types
<1>4. Ordered'
  BY <1>1, <1>2, <1>3, OrderKept DEF IInv, Types
<1>5. References'
  BY <1>1, <1>2 DEF IInv, References
<1> QED BY <1>1, <1>2, <1>3, <1>4, <1>5 DEF IInv, Outputs

LEMMA NoCallStays ==
    ASSUME IInv, UNCHANGED queue
    PROVE  QueueStays /\ UNCHANGED <<fifo, errRecv, qpc>>
<1>1. UNCHANGED <<fifo, errSend, errRecv, qpc, qmsg, got>>
  BY DEF queue
<1> QED BY <1>1 DEF IInv, QueueTypes, QueueStays, SameCall, InQueue, Waiting

LEMMA OverflowKeeps == ASSUME IInv, SetOverflow PROVE IInv'
<1>1. /\ UNCHANGED <<cfg, queue, sent, accepted, wpc, err, message, output, retry>>
      /\ epc = "full" /\ epc' = "idle" /\ overflow' = TRUE
      /\ UNCHANGED <<recoveryNr, hand, dropKey>>
  BY DEF SetOverflow, retry, message, output
<1>2. Threads'
  BY <1>1, NoCallStays DEF IInv, Threads, Ended
<1>3. Blocking'
  BY <1>1 DEF IInv, Blocking
<1> QED BY <1>1, <1>2, <1>3, NoCallStays, AsideKeeps

LEMMA TrailerKeeps == ASSUME IInv, WriteTrailer PROVE IInv'
<1>1. /\ UNCHANGED <<cfg, overflow, sent, accepted, wpc, err, message, output, retry>>
      /\ epc = "idle" /\ epc' = "join" /\ qpc["encoder"] = "idle" /\ errRecv' = "eof"
      /\ UNCHANGED <<recoveryNr, hand, dropKey>>
  BY DEF WriteTrailer, retry, message, output, Q!SetErrRecv
<1>2. QueueStays
  BY ErrorsStay DEF WriteTrailer, IInv
<1>3. Threads'
  BY <1>1, <1>2 DEF IInv, Threads, Ended, QueueStays, SameCall, OK
<1>4. Blocking' /\ overflow' \in BOOLEAN
  BY <1>1 DEF IInv, Blocking, Types
<1> QED BY <1>1, <1>2, <1>3, <1>4, AsideKeeps

LEMMA JoinKeeps == ASSUME IInv, Join PROVE IInv'
<1>1. /\ UNCHANGED <<cfg, queue, overflow, sent, accepted, wpc, err, message, output, retry>>
      /\ epc = "join" /\ wpc = "ended" /\ epc' = "joined"
      /\ UNCHANGED <<recoveryNr, hand, dropKey>>
  BY DEF Join, retry, message, output
<1>2. Threads'
  BY <1>1, NoCallStays DEF IInv, Threads, Ended
<1>3. Blocking' /\ overflow' \in BOOLEAN
  BY <1>1 DEF IInv, Blocking, Types
<1> QED BY <1>1, <1>2, <1>3, NoCallStays, AsideKeeps

LEMMA WakeupKeeps == ASSUME IInv, SpuriousWakeup PROVE IInv'
<1>1. /\ UNCHANGED <<cfg, overflow, encoder, wpc, err, message, output, retry>>
      /\ UNCHANGED <<recoveryNr, hand, dropKey, epc, sent, accepted>>
  BY DEF SpuriousWakeup, retry, message, output, encoder
<1>2. QueueStays /\ UNCHANGED errRecv
  BY WakeupStays DEF SpuriousWakeup, IInv
<1>3. Threads'
  BY <1>1, <1>2 DEF IInv, Threads, Ended, QueueStays, SameCall
<1>4. Blocking' /\ overflow' \in BOOLEAN /\ epc' \in {"new", "idle", "full", "join", "joined", "closed"}
  BY <1>1 DEF IInv, Blocking, Types
<1> QED BY <1>1, <1>2, <1>3, <1>4, AsideKeeps

LEMMA TickKeeps == ASSUME IInv, Tick \/ UNCHANGED vars PROVE IInv'
<1>1. /\ UNCHANGED <<cfg, queue, overflow, encoder, wpc, err, message, output, recoveryNr>>
      /\ UNCHANGED <<hand, dropKey, epc, sent, accepted>>
  BY DEF Tick, vars, retry, message, output, encoder
<1>2. Threads'
  BY <1>1, NoCallStays DEF IInv, Threads, Ended
<1>3. Blocking' /\ overflow' \in BOOLEAN /\ epc' \in {"new", "idle", "full", "join", "joined", "closed"}
  BY <1>1 DEF IInv, Blocking, Types
<1> QED BY <1>1, <1>2, <1>3, NoCallStays, AsideKeeps

LEMMA HeaderKeeps == ASSUME IInv, WriteHeader PROVE IInv'
<1>1. /\ UNCHANGED <<cfg, queue, overflow, sent, accepted, err, message, output, retry>>
      /\ epc = "new" /\ epc' = "idle" /\ wpc = "none" /\ wpc' = "dispatch"
      /\ UNCHANGED <<recoveryNr, hand, refs, scaled, header, dropKey, faults, file, written>>
  BY DEF WriteHeader, retry, message, output, IInv, Threads
<1>2. QueueStays /\ UNCHANGED <<fifo, errRecv, qpc>>
  BY <1>1, NoCallStays
<1>3. Threads'
  BY <1>1, <1>2 DEF IInv, Threads, Ended
<1>4. Types' /\ Blocking' /\ Counts' /\ FirstHeader' /\ FirstFile'
  BY <1>1 DEF IInv, Types, Blocking, Counts, FirstHeader, FirstFile, Ended
<1>5. KeyframeNext' /\ RestartsWithKeyframe' /\ Held' = Held
  BY <1>1, NothingWritten DEF IInv, KeyframeNext, Ended
<1>6. Ordered'
  BY <1>1, <1>2, <1>4, <1>5, OrderKept DEF IInv, Types, QueueStays
<1>7. References'
  BY <1>1, <1>2, <1>5 DEF IInv, References, QueueStays
<1> QED BY <1>2, <1>3, <1>4, <1>5, <1>6, <1>7 DEF IInv, QueueStays

LEMMA DeinitKeeps == ASSUME IInv, Deinit PROVE IInv'
<1>1. /\ UNCHANGED <<cfg, overflow, sent, accepted, wpc, err, hand, scaled, output, retry>>
      /\ epc = "joined" /\ epc' = "closed" /\ refs' = refs \ InQueue
      /\ UNCHANGED <<recoveryNr, header, dropKey, faults, file, written>>
  BY DEF Deinit, FlushQueue, retry, output
<1>2. /\ QueueTypes' /\ SameCall /\ UNCHANGED errRecv
      /\ fifo' = <<>> /\ InQueue' = {} /\ Waiting' = Waiting
  BY QueueIsFlushed DEF Deinit, FlushQueue, IInv
<1>3. Outputs' /\ Held' = Held
  BY <1>1, WriterAside, NothingWritten
<1>4. Threads'
  BY <1>1, <1>2 DEF IInv, Threads, Ended, SameCall
<1>5. Types' /\ Blocking'
  BY <1>1 DEF IInv, Types, Blocking
<1>6. Ordered'
  BY <1>1, <1>2, <1>3, <1>5, OrderKept DEF IInv, Types
<1>7. References'
  <2>1. refs = Held \union InQueue \union Waiting /\ sent \in Nat
    BY DEF IInv, References, Types
  <2> QED BY <1>1, <1>2, <1>3, <2>1, PlacesAreDisjoint DEF IInv, References
<1> QED BY <1>2, <1>3, <1>4, <1>5, <1>6, <1>7 DEF IInv, Outputs

LEMMA ResumeKeeps == ASSUME IInv, SendResumes PROVE IInv'
<1> DEFINE m == qmsg["encoder"]
<1>1. /\ qpc["encoder"] = "sendwoken"
      /\ UNCHANGED <<cfg, overflow, epc, sent, wpc, err, hand, scaled, output, retry>>
      /\ UNCHANGED <<header, dropKey, faults, file, written, recoveryNr>>
  BY DEF SendResumes, output, retry
<1>2. /\ epc = "idle" /\ m \in Msgs /\ Waiting = {m} \intersect Packets /\ errRecv = OK
      /\ sent \in Nat /\ QueueTypes /\ fifo \in Seq(Msgs)
  BY <1>1 DEF IInv, QueueTypes, Threads, Waiting, Types
<1>3. Outputs' /\ (Ended <=> Ended') /\ Held' = Held /\ WrittenPackets' = WrittenPackets
  BY <1>1, WriterAside, NothingWritten
<1>4. m \in Packets => /\ m \in 1 .. sent
                       /\ \A p \in WrittenPackets \union Held \union InQueue : p < m
  BY <1>2 DEF IInv, Ordered
<1>5. /\ Held \intersect Waiting = {} /\ InQueue \intersect Waiting = {}
      /\ refs = Held \union InQueue \union Waiting
  BY <1>2, PlacesAreDisjoint DEF IInv, References
<1> HIDE DEF m
<1>6. ASSUME QueueTypes', errRecv' = errRecv, accepted' \subseteq 1 .. sent,
             Ordered', References'
      PROVE  IInv'
  <2>1. Types'
    BY <1>1, <1>6 DEF IInv, Types
  <2>2. Threads'
    BY <1>1, <1>2, <1>3, <1>6 DEF IInv, Threads
  <2>3. Blocking'
    BY <1>1 DEF IInv, Blocking
  <2> QED BY <1>3, <1>6, <2>1, <2>2, <2>3 DEF IInv, Outputs
<1>7. accepted \subseteq 1 .. sent /\ accepted \union ({m} \intersect Packets) \subseteq 1 .. sent
  BY <1>4 DEF IInv, Types
<1>8. CASE Q!SendAppends("encoder", m) /\ Accepted(m) /\ UNCHANGED refs
  <2>1. /\ QueueTypes' /\ UNCHANGED errRecv
        /\ fifo' = Append(fifo, m) /\ Waiting' = {}
        /\ InQueue' = InQueue \union ({m} \intersect Packets)
    BY <1>2, <1>8, QueueAppends
  <2>2. Ordered'
    BY <1>1, <1>2, <1>4, <2>1, OrderAppended DEF IInv
  <2>3. References'
    BY <1>2, <1>3, <1>5, <1>8, <2>1 DEF References
  <2> QED BY <1>6, <1>7, <1>8, <2>1, <2>2, <2>3 DEF Accepted
<1>9. CASE Q!SendFails("encoder") /\ Refused /\ refs' = refs \ {m}
  <2>1. /\ QueueTypes' /\ UNCHANGED <<fifo, errRecv>> /\ Waiting' = {} /\ InQueue' = InQueue
    BY <1>2, <1>9, QueueRefuses
  <2>2. Ordered'
    BY <1>1, <1>2, <1>3, <2>1, OrderKept DEF IInv
  <2>3. Held \union InQueue \subseteq Packets
    BY DEF Held, InQueue
  <2>4. References'
    BY <1>2, <1>3, <1>5, <1>9, <2>1, <2>3 DEF References
  <2> QED BY <1>6, <1>7, <1>9, <2>1, <2>2, <2>4 DEF Refused
<1>10. CASE Q!SendWaits("encoder", m) /\ Refused /\ UNCHANGED refs
  <2>1. /\ QueueTypes' /\ UNCHANGED <<fifo, errRecv>>
        /\ Waiting' = {m} \intersect Packets /\ InQueue' = InQueue
    BY <1>2, <1>10, QueueIsFull
  <2>2. Ordered'
    BY <1>1, <1>2, <1>3, <2>1, OrderKept DEF IInv
  <2>3. References'
    BY <1>2, <1>3, <1>5, <1>10, <2>1 DEF References
  <2> QED BY <1>6, <1>7, <1>10, <2>1, <2>2, <2>3 DEF Refused
<1> QED BY <1>8, <1>9, <1>10 DEF SendResumes, m

-----------------------------------------------------------------------------
(* The steps of the writer's thread                                         *)

Record(f) == [pkt |-> hand, file |-> f, scaled |-> scaled + 1]

LEMMA WrittenAre ==
    ASSUME IInv
    PROVE  /\ written \in Seq(Records) /\ DOMAIN written = 1 .. Len(written) /\ Len(written) \in Nat
           /\ \A i \in DOMAIN written : /\ written[i] \in Records
                                       /\ written[i].file \in Nat /\ written[i].pkt \in Nat
<1>1. /\ written \in Seq(Records) /\ DOMAIN written = 1 .. Len(written) /\ Len(written) \in Nat
      /\ \A i \in DOMAIN written : written[i] \in Records
  BY DEF IInv, Types
<1>2. \A r \in Records : r.file \in Nat /\ r.pkt \in Nat
  BY DEF Records, Packets
<1> QED BY <1>1, <1>2

LEMMA Success ==
    ASSUME NEW h \in BOOLEAN, NEW d \in BOOLEAN, Succeeds(h, d)
    PROVE  /\ header' = TRUE /\ faults' = faults
           /\ file' = IF h THEN file ELSE file + 1
           /\ dropKey' \in BOOLEAN /\ (dropKey' => d)
           /\ \/ /\ hand \in Packets /\ (d => hand \in Keys)
                 /\ written' = Append(written, Record(file'))
              \/ dropKey' = d /\ UNCHANGED written
BY DEF Succeeds, Skips, Record

LEMMA Failure ==
    ASSUME IInv, NEW h \in BOOLEAN, NEW d \in BOOLEAN, NEW e, Fails(h, d, e)
    PROVE  /\ faults' = faults + 1 /\ faults' \in 0 .. MaxFaults /\ UNCHANGED written
           /\ file' \in {file, file + 1} /\ (file' = file + 1 => ~h)
           /\ header' \in BOOLEAN /\ (~header' => ~h /\ file' = file)
           /\ dropKey' \in BOOLEAN /\ (dropKey' => d) /\ scaled' \in {scaled, scaled + 1}
<1>1. faults \in Nat /\ file \in Nat /\ faults < MaxFaults /\ MaxFaults \in Nat
  BY Constants DEF IInv, Counts, Fails
<1>2. faults' = faults + 1 /\ UNCHANGED written
  BY DEF Fails
<1>3. CASE ~h /\ header' = FALSE /\ dropKey' = d /\ UNCHANGED <<file, scaled>>
  <2>1. dropKey' \in BOOLEAN /\ (dropKey' => d)
    BY ONLY <1>3, d \in BOOLEAN
  <2>2. header' = FALSE /\ ~h /\ file' = file /\ scaled' = scaled
    BY ONLY <1>3
  <2>3. header' \in BOOLEAN /\ file' \in {file, file + 1} /\ scaled' \in {scaled, scaled + 1}
    BY <2>2
  <2>4. faults' \in 0 .. MaxFaults
    BY <1>1, <1>2
  <2>5. ~h /\ file' = file /\ faults' = faults + 1 /\ UNCHANGED written
    BY <1>2, <2>2
  <2> QED BY ONLY <2>1, <2>3, <2>4, <2>5
<1>4. CASE ~h /\ e = "perm" /\ header' = TRUE /\ file' = file + 1 /\ dropKey' = d
           /\ UNCHANGED scaled
  BY <1>1, <1>2, <1>4
<1>5. CASE /\ hand # Header /\ ~Skips(d)
           /\ header' = TRUE /\ file' = IF h THEN file ELSE file + 1
           /\ dropKey' = (d /\ hand \notin Packets)
           /\ scaled' = IF hand \in Packets THEN scaled + 1 ELSE scaled
  BY <1>1, <1>2, <1>5
<1> QED BY <1>3, <1>4, <1>5 DEF Fails

\* What becomes of the packet in the hand: it is kept, given back, or written
\* and given back.
Keeps   == hand' = hand /\ refs' = refs /\ UNCHANGED written
Returns == hand' = NoMsg /\ refs' = refs \ {hand} /\ UNCHANGED written
Writes  == /\ hand \in Packets /\ hand' = NoMsg /\ refs' = refs \ {hand}
           /\ written' = Append(written, Record(file'))

LEMMA WriterOrder ==
    ASSUME IInv, fifo' = fifo, InQueue' = InQueue, Waiting' = Waiting, sent' = sent,
           Keeps \/ Returns \/ Writes,
           file' \in {file, file + 1}
    PROVE  /\ Ordered' /\ References'
           /\ written' \in Seq(Records)
           /\ Writes => Held' = {} /\ WrittenPackets' = WrittenPackets \union {hand}
<1>1. /\ sent \in Nat /\ file \in Nat /\ scaled \in Nat
      /\ written \in Seq(Records)
      /\ refs = Held \union InQueue \union Waiting /\ Ordered
  BY DEF IInv, Types, Counts, References
<1>2. /\ Held \intersect InQueue = {} /\ Held \intersect Waiting = {}
      /\ InQueue \subseteq Packets /\ Waiting \subseteq Packets
  BY <1>1, PlacesAreDisjoint DEF InQueue, Waiting
<1>3. hand' = NoMsg => Held' = {}
  BY Constants DEF Held
<1>4. References'
  <2>1. CASE Keeps
    BY <1>1, <2>1 DEF References, Keeps, Held
  <2>2. CASE Returns \/ Writes
    BY <1>1, <1>2, <1>3, <2>2 DEF References, Returns, Writes, Held
  <2> QED BY <2>1, <2>2
<1>5. \A i \in DOMAIN written : written[i].file \in Nat /\ written[i].file <= file
                                /\ written[i].file <= file'
  <2>1. \A i \in DOMAIN written : written[i].file \in Nat /\ written[i].file <= file
    BY <1>1, WrittenAre DEF Ordered
  <2> QED BY <1>1, <2>1
<1>6. CASE Keeps \/ Returns
  <2>1. Held' \subseteq Held /\ WrittenPackets' = WrittenPackets /\ (InOrder <=> InOrder')
    BY <1>3, <1>6 DEF Keeps, Returns, Held, WrittenPackets, InOrder
  <2>2. UNCHANGED written
    BY <1>6 DEF Keeps, Returns
  <2>3. Ordered'
    BY <1>1, <1>5, <2>1, <2>2 DEF Ordered
  <2>4. ~Writes \/ FALSE
    <3>1. ASSUME Writes PROVE FALSE
      <4>1. written' = Append(written, Record(file'))
        BY <3>1 DEF Writes
      <4>2. Len(written') = Len(written) + 1 /\ Len(written) \in Nat
        BY <1>1, <4>1
      <4> QED BY <2>2, <4>2
    <3> QED BY <3>1
  <2> QED BY <1>1, <1>4, <2>2, <2>3, <2>4
<1>7. CASE Writes
  <2>1. /\ Held = {hand} /\ Held' = {} /\ hand \in Packets
        /\ written' = Append(written, Record(file'))
    BY <1>3, <1>7 DEF Writes, Held
  <2>2. /\ Record(file') \in Records
        /\ Record(file').pkt = hand /\ Record(file').file = file'
    BY <1>1, <2>1 DEF Record, Records
  <2>3. /\ written' \in Seq(Records)
        /\ DOMAIN written = 1 .. Len(written) /\ Len(written) \in Nat
        /\ DOMAIN written' = 1 .. Len(written) + 1
        /\ \A i \in 1 .. Len(written) : written'[i] = written[i]
        /\ written'[Len(written) + 1] = Record(file')
    BY <1>1, <2>1, <2>2
  <2>4. WrittenPackets' = WrittenPackets \union {hand}
    <3>1. written'[Len(written) + 1].pkt = hand
      BY <2>2, <2>3
    <3>2. Len(written) + 1 \in DOMAIN written' /\ DOMAIN written \subseteq DOMAIN written'
      BY <2>3
    <3>3. \A i \in DOMAIN written' : i \in DOMAIN written \/ i = Len(written) + 1
      BY <2>3
    <3> QED BY <2>3, <3>1, <3>2, <3>3 DEF WrittenPackets
  <2>5. \A i \in 1 .. Len(written) : written[i].pkt < hand /\ written[i].file <= file'
    BY <1>1, <1>5, <2>1, <2>3 DEF Ordered, WrittenPackets
  <2>6. InOrder'
    <3> SUFFICES ASSUME NEW i \in DOMAIN written', NEW j \in DOMAIN written', i < j
                 PROVE  /\ written'[i].pkt < written'[j].pkt
                        /\ written'[i].file <= written'[j].file
      BY DEF InOrder
    <3>1. i \in 1 .. Len(written)
      BY <2>3
    <3>2. CASE j \in 1 .. Len(written)
      BY <1>1, <2>3, <3>1, <3>2 DEF Ordered, InOrder
    <3>3. CASE j = Len(written) + 1
      BY <2>2, <2>3, <2>5, <3>1, <3>3
    <3> QED BY <2>3, <3>2, <3>3
  <2>7. \A i \in DOMAIN written' : written'[i].file <= file'
    <3>1. file' \in Nat
      BY <1>1
    <3> QED BY <2>2, <2>3, <2>5, <3>1
  <2>8. \A p \in WrittenPackets', q \in Held' \union InQueue' \union Waiting' : p < q
    BY <1>1, <2>1, <2>4 DEF Ordered
  <2>9. WrittenPackets' \union Held' \union InQueue' \union Waiting' \subseteq 1 .. sent'
    BY <1>1, <2>1, <2>4 DEF Ordered
  <2>10. Ordered'
    BY <1>1, <2>1, <2>6, <2>7, <2>8, <2>9 DEF Ordered
  <2> QED BY <1>4, <2>1, <2>3, <2>4, <2>10
<1> QED BY <1>6, <1>7

(* The files begin with keyframes after a packet is written as before.      *)
LEMMA RestartKept ==
    ASSUME IInv, cfg' = cfg, hand \in Packets, file' \in {file, file + 1},
           written' = Append(written, Record(file')),
           cfg.restart /\ cfg.drop /\ file' > 1
               /\ (\A i \in DOMAIN written : written[i].file < file') => hand \in Keys
    PROVE  /\ RestartsWithKeyframe' /\ ~NoPacketYet'
<1>1. /\ file \in Nat /\ file' \in Nat /\ scaled \in Nat
      /\ written \in Seq(Records)
  BY DEF IInv, Types, Counts
<1>2. /\ Record(file') \in Records
      /\ Record(file').pkt = hand /\ Record(file').file = file'
  BY <1>1 DEF Record, Records
<1>3. /\ DOMAIN written = 1 .. Len(written) /\ Len(written) \in Nat
      /\ DOMAIN written' = 1 .. Len(written) + 1
      /\ \A i \in 1 .. Len(written) : written'[i] = written[i]
      /\ written'[Len(written) + 1] = Record(file')
  BY <1>1, <1>2
<1>4. ~NoPacketYet'
  <2>1. Len(written) + 1 \in DOMAIN written' /\ written'[Len(written) + 1].file = file'
    BY <1>2, <1>3
  <2>2. ~(file' < file')
    BY <1>1
  <2> QED BY <2>1, <2>2 DEF NoPacketYet
<1>5. RestartsWithKeyframe'
  <2> SUFFICES ASSUME cfg.restart, cfg.drop, NEW i \in DOMAIN written',
                      i = 1 \/ written'[i].file # written'[i - 1].file, written'[i].file > 1
               PROVE  written'[i].pkt \in Keys
    BY DEF RestartsWithKeyframe, Begins
  <2>1. CASE i \in 1 .. Len(written)
    <3>1. i = 1 \/ i - 1 \in 1 .. Len(written)
      BY <1>3, <2>1
    <3>2. Begins(i) /\ written[i].file > 1
      BY <1>3, <2>1, <3>1 DEF Begins
    <3> QED BY <1>3, <2>1, <3>2 DEF IInv, RestartsWithKeyframe
  <2>2. CASE i = Len(written) + 1
    <3>1. file' > 1 /\ written'[i].pkt = hand
      BY <1>2, <1>3, <2>2
    <3>2. \A j \in DOMAIN written : written[j].file < file'
      <4>1. CASE Len(written) = 0
        BY <1>3, <4>1
      <4>2. CASE Len(written) # 0
        <5> DEFINE n == Len(written)
        <5>1. n \in DOMAIN written /\ written[n].file # file' /\ written[n].file <= file
              /\ written[n].file \in Nat
          <6>1. n \in 1 .. Len(written) /\ i - 1 = n /\ i # 1
            BY ONLY <1>3, <2>2, <4>2
          <6>2. written'[i].file = file' /\ written'[i - 1] = written[n]
            BY <1>2, <1>3, <2>2, <6>1
          <6>3. n \in DOMAIN written /\ written[n].file \in Nat
            BY <1>3, <6>1, WrittenAre
          <6> QED BY <6>1, <6>2, <6>3 DEF IInv, Ordered
        <5>2. written[n].file < file'
          BY ONLY <1>1, <5>1, file' \in {file, file + 1}
        <5>3. \A j \in DOMAIN written : j = n \/ written[j].file <= written[n].file
          BY <1>3, <5>1 DEF IInv, Ordered, InOrder
        <5>5. \A j \in DOMAIN written : written[j].file \in Nat
          BY WrittenAre
        <5> QED BY ONLY <1>1, <5>1, <5>2, <5>3, <5>5
      <4> QED BY <4>1, <4>2
    <3> QED BY <3>1, <3>2
  <2> QED BY <1>3, <2>1, <2>2
<1> QED BY <1>4, <1>5

\* What the writer has to know of its own: the last conjuncts of Threads
Handling ==
    /\ wpc \in {"check", "recv"} => hand = NoMsg
    /\ Ended => hand = NoMsg \/ (cfg.max > 0 /\ recoveryNr >= cfg.max)
    /\ Ended /\ err \notin Failures => /\ fifo = <<>> /\ errRecv # OK
    /\ wpc = "recover" => \/ err \in cfg.fails
                          \/ err = OK /\ cfg.recover

(* A step of the writer that does not touch the messages of the queue       *)
LEMMA WriterKeeps ==
    ASSUME IInv, UNCHANGED <<cfg, overflow, encoder>>, QueueStays, UNCHANGED errRecv,
           wpc \notin {"none", "ended"}, Keeps \/ Returns \/ Writes,
           file' \in {file, file + 1}, Counts', Handling', FirstHeader', FirstFile',
           KeyframeNext', RestartsWithKeyframe',
           header' \in BOOLEAN, dropKey' \in BOOLEAN, dropKey' => dropKey \/ cfg.drop,
           wpc' \in {"dispatch", "recover", "check", "recv", "stop", "trailer", "ended"},
           err' \in Failures \union {OK, "eof"}
    PROVE  IInv'
<1>1. /\ UNCHANGED <<epc, sent, accepted>> /\ QueueTypes' /\ fifo' = fifo
      /\ InQueue' = InQueue /\ Waiting' = Waiting
      /\ qpc'["encoder"] = "idle" <=> qpc["encoder"] = "idle"
  BY DEF encoder, QueueStays, SameCall
<1>2. Ordered' /\ References' /\ written' \in Seq(Records)
  BY <1>1, WriterOrder
<1>3. Types'
  <2>1. hand' \in 0 .. NoMsg
    BY Constants DEF IInv, Types, Keeps, Returns, Writes, NoMsg
  <2>2. /\ cfg' \in Configs /\ overflow' \in BOOLEAN
        /\ epc' \in {"new", "idle", "full", "join", "joined", "closed"}
        /\ sent' \in 0 .. MaxPackets /\ accepted' \subseteq 1 .. sent'
    BY <1>1 DEF IInv, Types
  <2> QED BY <1>2, <2>1, <2>2 DEF Types
<1>4. Threads'
  BY <1>1 DEF IInv, Threads, Handling
<1>5. Blocking'
  <2>1. ~cfg.drop => ~dropKey'
    BY DEF IInv, Blocking
  <2> QED BY <1>1, <2>1 DEF IInv, Blocking
<1> QED BY <1>1, <1>2, <1>3, <1>4, <1>5 DEF IInv

LEMMA RestartSame ==
    ASSUME IInv, UNCHANGED <<cfg, written>>
    PROVE  /\ RestartsWithKeyframe'
           /\ file' = file => (NoPacketYet' <=> NoPacketYet)
BY DEF IInv, RestartsWithKeyframe, Begins, NoPacketYet

LEMMA EndKeeps == ASSUME IInv, Stop \/ Trailer PROVE IInv'
<1>1. /\ UNCHANGED <<cfg, overflow, encoder, err, message, output, retry>> /\ Ended /\ Ended'
      /\ wpc \in {"stop", "trailer"} /\ wpc' \in {"trailer", "ended"}
  BY DEF Stop, Trailer, Ended
<1>2. /\ UNCHANGED <<hand, refs, written, scaled, file, faults, header, dropKey, recoveryNr>>
  BY <1>1 DEF message, output, retry
<1>3. QueueStays /\ UNCHANGED errRecv
  <2>1. CASE Stop
    BY <2>1, ErrorsStay DEF Stop, IInv, Types, Q!SetErrSend
  <2>2. CASE Trailer
    BY <2>2, NoCallStays DEF Trailer
  <2> QED BY <2>1, <2>2
<1>4. Keeps
  BY <1>2 DEF Keeps
<1>5. Counts' /\ FirstHeader' /\ FirstFile' /\ KeyframeNext' /\ RestartsWithKeyframe'
  BY <1>1, <1>2, RestartSame DEF IInv, Counts, FirstHeader, FirstFile, KeyframeNext
<1>6. Handling'
  BY <1>1, <1>2, <1>3 DEF IInv, Threads, Handling, QueueStays
<1>7. header' \in BOOLEAN /\ dropKey' \in BOOLEAN /\ err' \in Failures \union {OK, "eof"}
  BY <1>1, <1>2 DEF IInv, Types
<1> QED BY <1>1, <1>2, <1>3, <1>4, <1>5, <1>6, <1>7, WriterKeeps

LEMMA DispatchKeeps == ASSUME IInv, DispatchMessage PROVE IInv'
<1>1. /\ UNCHANGED <<cfg, queue, overflow, encoder, retry>> /\ UNCHANGED recoveryNr
      /\ wpc = "dispatch" /\ recoveryNr = 0 /\ QueueStays /\ UNCHANGED errRecv
      /\ header \/ file = 0
      /\ header \in BOOLEAN /\ dropKey \in BOOLEAN
      /\ file \in Nat /\ faults \in Nat /\ scaled \in Nat /\ MaxFaults \in Nat
  BY NoCallStays, Constants DEF DispatchMessage, retry, IInv, Counts, FirstHeader, Ended, Types
<1>2. /\ faults \in 0 .. MaxFaults /\ scaled \in 0 .. faults /\ file <= faults + 1
      /\ ~header => file <= faults
      /\ ~cfg.recover => file <= 1
      /\ cfg.restart /\ cfg.drop /\ NoPacketYet => dropKey
  BY <1>1 DEF IInv, Counts, FirstFile, KeyframeNext, Ended
<1>3. CASE Succeeds(header, dropKey) /\ Unref /\ wpc' = "check" /\ err' = OK
  <2>1. /\ header' = TRUE /\ faults' = faults
        /\ file' = IF header THEN file ELSE file + 1
        /\ dropKey' \in BOOLEAN /\ (dropKey' => dropKey)
        /\ \/ /\ hand \in Packets /\ (dropKey => hand \in Keys)
              /\ written' = Append(written, Record(file'))
           \/ dropKey' = dropKey /\ UNCHANGED written
    BY <1>1, <1>3, Success
  <2>2. hand' = NoMsg /\ scaled' = 0 /\ refs' = refs \ {hand}
    BY <1>3 DEF Unref
  <2>3. Returns \/ Writes
    BY <2>1, <2>2 DEF Returns, Writes
  <2>4. file' \in {file, file + 1} /\ file' \in Nat /\ (~header => file' = 1)
    BY <1>1, <2>1
  <2>5. Counts'
    BY <1>1, <1>2, <1>3, <2>1, <2>2, <2>4 DEF Counts
  <2>6. Handling' /\ FirstHeader'
    BY <1>3, <2>1, <2>2 DEF Handling, Ended, FirstHeader
  <2>7. FirstFile'
    BY <1>1, <1>2, <2>1, <2>4 DEF FirstFile
  <2>8. KeyframeNext' /\ RestartsWithKeyframe'
    <3>1. CASE /\ hand \in Packets /\ (dropKey => hand \in Keys)
               /\ written' = Append(written, Record(file'))
      <4>1. cfg.restart /\ cfg.drop /\ file' > 1
                /\ (\A i \in DOMAIN written : written[i].file < file') => hand \in Keys
        BY <1>1, <1>2, <2>1, <2>4, <3>1 DEF NoPacketYet
      <4> QED BY <1>1, <2>4, <3>1, <4>1, RestartKept DEF KeyframeNext
    <3>2. CASE dropKey' = dropKey /\ UNCHANGED written
      <4>1. RestartsWithKeyframe' /\ (file' = file => (NoPacketYet' <=> NoPacketYet))
        BY <1>1, <3>2, RestartSame
      <4>2. ~header => ~NoPacketYet'
        BY <2>4 DEF NoPacketYet
      <4> QED BY <1>1, <1>2, <2>1, <3>2, <4>1, <4>2 DEF KeyframeNext
    <3> QED BY <2>1, <3>1, <3>2
  <2> QED BY <1>1, <1>3, <2>1, <2>3, <2>4, <2>5, <2>6, <2>7, <2>8, WriterKeeps
<1>4. CASE \E e \in cfg.fails : /\ Fails(header, dropKey, e)
                                /\ wpc' = "recover" /\ err' = e /\ UNCHANGED <<hand, refs>>
  <2>1. PICK e \in cfg.fails : /\ Fails(header, dropKey, e)
                               /\ wpc' = "recover" /\ err' = e /\ UNCHANGED <<hand, refs>>
    BY <1>4
  <2>2. /\ faults' = faults + 1 /\ faults' \in 0 .. MaxFaults /\ UNCHANGED written
        /\ file' \in {file, file + 1} /\ (file' = file + 1 => ~header)
        /\ header' \in BOOLEAN /\ (~header' => ~header /\ file' = file)
        /\ dropKey' \in BOOLEAN /\ (dropKey' => dropKey) /\ scaled' \in {scaled, scaled + 1}
    BY <1>1, <2>1, Failure
  <2>3. Keeps
    BY <2>1, <2>2 DEF Keeps
  <2>4. Counts'
    <3>1. scaled' \in 0 .. faults'
      BY <1>1, <1>2, <2>2
    <3>2. file' \in 0 .. faults' + 1 /\ file' <= faults'
      BY <1>1, <1>2, <2>2
    <3> QED BY <1>1, <2>1, <2>2, <3>1, <3>2 DEF Counts
  <2>5. Handling'
    BY <1>1, <2>1 DEF Handling, Ended
  <2>6. FirstHeader' /\ FirstFile' /\ (~cfg.recover => file' <= 1)
    BY <1>1, <1>2, <2>1, <2>2 DEF FirstHeader, FirstFile, Ended
  <2>7. RestartsWithKeyframe'
    BY <1>1, <2>2, RestartSame
  <2>8. KeyframeNext'
    <3>1. ~cfg.recover => ~NoPacketYet'
      BY <1>1, <2>2, <2>6 DEF NoPacketYet
    <3> QED BY <1>1, <2>1, <3>1 DEF KeyframeNext
  <2>9. err' \in Failures
    BY <2>1, Constants DEF IInv, Types
  <2> QED BY <1>1, <2>1, <2>2, <2>3, <2>4, <2>5, <2>6, <2>7, <2>8, <2>9, WriterKeeps
<1> QED BY <1>3, <1>4 DEF DispatchMessage

(* What is recoverable: EAGAIN, and the state after a message was received  *)
LEMMA Recoverable ==
    /\ IsRecoverable("again") <=> cfg.recover
    /\ IsRecoverable(OK) <=> cfg.recover
    /\ \A e : IsRecoverable(e) => cfg.recover
BY DEF IsRecoverable, OK

LEMMA GiveUpKeeps == ASSUME IInv, GiveUp PROVE IInv'
<1>1. /\ UNCHANGED <<cfg, queue, overflow, encoder, output, retry>> /\ wpc = "recover"
      /\ UNCHANGED <<header, dropKey, faults, file, written, recoveryNr>>
      /\ QueueStays /\ UNCHANGED errRecv /\ ~IsRecoverable(err)
      /\ hand' = NoMsg /\ scaled' = 0 /\ refs' = refs \ {hand}
      /\ wpc' = IF err # "again" THEN "stop" ELSE IF cfg.drop THEN "check" ELSE "recover"
      /\ err' = err
  BY NoCallStays DEF GiveUp, output, retry, Unref, Leaves
<1>2. err \in cfg.fails /\ cfg.fails \subseteq Failures
  BY <1>1, Recoverable, Constants DEF IInv, Threads, Types
<1>3. Returns
  BY <1>1 DEF Returns
<1>4. Counts'
  BY <1>1 DEF IInv, Counts
<1>5. Handling'
  BY <1>1, <1>2 DEF Handling, Ended
<1>6. err = "again" => ~cfg.recover
  BY <1>1, Recoverable
<1>7. FirstHeader' /\ FirstFile'
  BY <1>1, <1>6 DEF IInv, FirstHeader, FirstFile, Ended
<1>8. KeyframeNext' /\ RestartsWithKeyframe'
  <2>1. ~cfg.recover => ~NoPacketYet
    BY DEF IInv, FirstFile, NoPacketYet, Counts
  <2> QED BY <1>1, <1>6, <2>1, RestartSame DEF IInv, KeyframeNext, Ended
<1>9. header' \in BOOLEAN /\ dropKey' \in BOOLEAN /\ err' \in Failures
  BY <1>1, <1>2 DEF IInv, Types
<1> QED BY <1>1, <1>3, <1>4, <1>5, <1>7, <1>8, <1>9, WriterKeeps

LEMMA TooEarlyKeeps == ASSUME IInv, TooEarly PROVE IInv'
<1>1. /\ UNCHANGED <<cfg, queue, overflow, encoder, dropKey, faults, file, written, retry>>
      /\ UNCHANGED recoveryNr /\ wpc = "recover" /\ recoveryNr # 0 /\ header' = FALSE
      /\ QueueStays /\ UNCHANGED errRecv /\ cfg.recover /\ err' = err
      /\ wpc' = IF cfg.drop THEN "check" ELSE "recover"
      /\ \/ cfg.drop /\ hand' = NoMsg /\ scaled' = 0 /\ refs' = refs \ {hand}
         \/ ~cfg.drop /\ UNCHANGED <<hand, scaled, refs>>
  BY NoCallStays, Recoverable DEF TooEarly, retry, message, Unref, Leaves
<1>2. Keeps \/ Returns
  BY <1>1 DEF Keeps, Returns
<1>3. Counts'
  <2>1. scaled' \in 0 .. faults
    BY <1>1 DEF IInv, Counts
  <2> QED BY <1>1, <2>1 DEF IInv, Counts
<1>4. Handling'
  BY <1>1 DEF IInv, Threads, Handling, Ended
<1>5. FirstHeader' /\ FirstFile' /\ KeyframeNext' /\ RestartsWithKeyframe'
  BY <1>1, RestartSame DEF IInv, FirstHeader, FirstFile, KeyframeNext
<1>6. header' \in BOOLEAN /\ dropKey' \in BOOLEAN /\ err' \in Failures \union {OK, "eof"}
  BY <1>1 DEF IInv, Types
<1> QED BY <1>1, <1>2, <1>3, <1>4, <1>5, <1>6, WriterKeeps

LEMMA AttemptKeeps == ASSUME IInv, Attempt PROVE IInv'
<1> DEFINE d == DropsUntilKey
<1>1. /\ UNCHANGED <<cfg, queue, overflow, encoder>> /\ wpc = "recover" /\ cfg.recover
      /\ QueueStays /\ UNCHANGED errRecv
      /\ file \in Nat /\ faults \in Nat /\ scaled \in 0 .. faults /\ file <= faults
      /\ recoveryNr \in 0 .. faults
  BY NoCallStays, Recoverable DEF Attempt, IInv, Counts
<1>2. /\ d \in BOOLEAN /\ (d => dropKey \/ cfg.drop) /\ (cfg.restart /\ cfg.drop => d)
      /\ FALSE \in BOOLEAN
  BY DEF DropsUntilKey, IInv, Types
<1> HIDE DEF d
<1>3. CASE /\ Succeeds(FALSE, d) /\ Unref
           /\ recoveryNr' = 0 /\ wpc' = "check" /\ UNCHANGED <<err, lastTs, waited>>
  <2>1. /\ header' = TRUE /\ faults' = faults /\ file' = file + 1
        /\ dropKey' \in BOOLEAN /\ (dropKey' => d)
        /\ \/ /\ hand \in Packets /\ (d => hand \in Keys)
              /\ written' = Append(written, Record(file'))
           \/ dropKey' = d /\ UNCHANGED written
    BY <1>2, <1>3, Success
  <2>2. hand' = NoMsg /\ scaled' = 0 /\ refs' = refs \ {hand}
    BY <1>3 DEF Unref
  <2>3. (Returns \/ Writes) /\ file' \in {file, file + 1}
    BY <2>1, <2>2 DEF Returns, Writes
  <2>4. Counts'
    BY <1>1, <1>3, <2>1, <2>2 DEF IInv, Counts
  <2>5. Handling' /\ FirstHeader' /\ FirstFile'
    BY <1>1, <1>3, <2>1, <2>2 DEF Handling, Ended, FirstHeader, FirstFile
  <2>6. KeyframeNext' /\ RestartsWithKeyframe'
    <3>1. CASE /\ hand \in Packets /\ (d => hand \in Keys)
               /\ written' = Append(written, Record(file'))
      BY <1>1, <1>2, <2>3, <3>1, RestartKept DEF KeyframeNext
    <3>2. CASE dropKey' = d /\ UNCHANGED written
      BY <1>1, <1>2, <3>2, RestartSame DEF KeyframeNext
    <3> QED BY <2>1, <3>1, <3>2
  <2>7. err' \in Failures \union {OK, "eof"} /\ (dropKey' => dropKey \/ cfg.drop)
    BY <1>2, <1>3, <2>1 DEF IInv, Types
  <2> QED BY <1>1, <1>3, <2>1, <2>3, <2>4, <2>5, <2>6, <2>7, WriterKeeps
<1>4. CASE \E e \in cfg.fails : Fails(FALSE, d, e) /\ AttemptFails(e)
  <2>1. PICK e \in cfg.fails : Fails(FALSE, d, e) /\ AttemptFails(e)
    BY <1>4
  <2>2. /\ faults' = faults + 1 /\ faults' \in 0 .. MaxFaults /\ UNCHANGED written
        /\ file' \in {file, file + 1} /\ header' \in BOOLEAN
        /\ dropKey' \in BOOLEAN /\ (dropKey' => d) /\ scaled' \in {scaled, scaled + 1}
    BY <1>2, <2>1, Failure
  <2> DEFINE result == IF ~IsRecoverable(e) \/ Exhausted THEN e ELSE "again"
  <2>3. /\ recoveryNr' = recoveryNr + 1
        /\ wpc' = IF result # "again" THEN "stop" ELSE IF cfg.drop THEN "check" ELSE "recover"
        /\ err' = IF result # "again" THEN result ELSE err
        /\ \/ (~IsRecoverable(e) \/ DropsOn(result)) /\ hand' = NoMsg /\ refs' = refs \ {hand}
           \/ ~(~IsRecoverable(e) \/ DropsOn(result)) /\ UNCHANGED <<hand, refs>>
    BY <2>1 DEF AttemptFails, Leaves
  <2>4. Keeps \/ Returns
    BY <2>2, <2>3 DEF Keeps, Returns
  <2>5. e \in Failures /\ result \in {e, "again"}
    BY <2>1, Constants DEF IInv, Types
  <2>6. wpc' \in {"check", "stop"} /\ UNCHANGED <<hand, refs>> /\ hand # NoMsg
            => wpc' = "stop" /\ cfg.max > 0 /\ recoveryNr' >= cfg.max
    <3> SUFFICES ASSUME wpc' \in {"check", "stop"}, hand' = hand, hand # NoMsg
                 PROVE  wpc' = "stop" /\ cfg.max > 0 /\ recoveryNr' >= cfg.max
      OBVIOUS
    <3>1. IsRecoverable(e) /\ ~DropsOn(result)
      BY <2>3
    <3>2. result # "again"
      BY <2>3, <3>1 DEF DropsOn
    <3> QED BY <2>3, <3>1, <3>2 DEF Exhausted
  <2>7. wpc' = "recover" => err' = err
    BY <2>3
  <2>8. wpc' = "stop" => err' \in Failures
    BY <2>3, <2>5
  <2>9. wpc' \in {"stop", "check", "recover"} /\ err' \in Failures \union {OK, "eof"}
    BY <2>3, <2>5 DEF IInv, Types
  <2>10. hand' = NoMsg \/ UNCHANGED <<hand, refs>>
    BY <2>3
  <2> HIDE DEF result
  <2>11. Counts'
    <3>1. scaled' \in 0 .. faults'
      BY <1>1, <2>2
    <3>2. file' \in 0 .. faults' + 1 /\ file' <= faults' /\ recoveryNr' \in 0 .. faults'
      BY <1>1, <2>2, <2>3
    <3> QED BY <1>1, <2>2, <2>9, <3>1, <3>2 DEF Counts
  <2>12. Handling'
    BY <1>1, <2>6, <2>7, <2>8, <2>9, <2>10 DEF IInv, Threads, Handling, Ended
  <2>13. recoveryNr' # 0
    BY <1>1, <2>3
  <2>14. FirstHeader' /\ FirstFile' /\ KeyframeNext' /\ RestartsWithKeyframe'
    BY <1>1, <2>2, <2>13, RestartSame DEF FirstHeader, FirstFile, KeyframeNext
  <2>15. dropKey' => dropKey \/ cfg.drop
    BY <1>2, <2>2
  <2> QED BY <1>1, <2>2, <2>4, <2>9, <2>11, <2>12, <2>14, <2>15, WriterKeeps
<1> QED BY <1>3, <1>4 DEF Attempt, d

LEMMA CheckKeeps == ASSUME IInv, CheckOverflow PROVE IInv'
<1>1. /\ UNCHANGED <<cfg, encoder, err, hand, scaled, header, faults, file, written, retry>>
      /\ UNCHANGED <<epc, sent, accepted, recoveryNr>> /\ hand = NoMsg
      /\ wpc = "check" /\ wpc' = "recv" /\ overflow' = FALSE
  BY DEF CheckOverflow, encoder, retry, IInv, Threads
<1>2. /\ QueueTypes' /\ SameCall /\ UNCHANGED errRecv /\ Waiting' = Waiting
      /\ \/ /\ overflow /\ fifo' = <<>> /\ InQueue' = {} /\ refs' = refs \ InQueue
            /\ dropKey' = (dropKey \/ cfg.restart)
         \/ UNCHANGED <<fifo, refs, dropKey>> /\ InQueue' = InQueue
  <2>1. CASE overflow
    BY <2>1, QueueIsFlushed DEF CheckOverflow, FlushQueue, IInv
  <2>2. CASE ~overflow
    <3>1. UNCHANGED <<queue, refs, dropKey>>
      BY <2>2 DEF CheckOverflow
    <3> QED BY <3>1, NoCallStays DEF QueueStays
  <2> QED BY <2>1, <2>2
<1>3. Held = {} /\ Held' = {} /\ sent \in Nat /\ refs = InQueue \union Waiting
  BY <1>1, Constants DEF Held, IInv, Types, References
<1>4. Ordered'
  BY <1>1, <1>2, <1>3, OrderKept DEF IInv
<1>5. References'
  BY <1>2, <1>3, PlacesAreDisjoint DEF IInv, References
<1>6. dropKey' \in BOOLEAN /\ (dropKey => dropKey') /\ (~cfg.drop => dropKey' = dropKey)
  BY <1>2 DEF IInv, Types, Blocking
<1>7. Types'
  BY <1>1, <1>6 DEF IInv, Types
<1>8. Threads'
  BY <1>1, <1>2 DEF IInv, Threads, SameCall, Ended
<1>9. Blocking'
  BY <1>1, <1>6 DEF IInv, Blocking
<1>10. Counts' /\ FirstHeader' /\ FirstFile' /\ RestartsWithKeyframe'
  BY <1>1, RestartSame DEF IInv, Counts, FirstHeader, FirstFile, Ended
<1>11. KeyframeNext'
  BY <1>1, <1>6, RestartSame DEF IInv, KeyframeNext, Ended
<1> QED BY <1>2, <1>4, <1>5, <1>7, <1>8, <1>9, <1>10, <1>11 DEF IInv

LEMMA ReceiveKeeps == ASSUME IInv, Receive PROVE IInv'
<1>1. /\ UNCHANGED <<cfg, overflow, encoder, refs, output, retry>> /\ wpc = "recv" /\ hand = NoMsg
      /\ UNCHANGED <<epc, sent, accepted, header, dropKey, faults, file, written, recoveryNr>>
  BY DEF Receive, encoder, output, retry, IInv, Threads
<1>2. CASE /\ Q!RecvTakes("writer")
           /\ hand' = Head(fifo) /\ scaled' = 0 /\ err' = OK
           /\ wpc' = IF recoveryNr = 0 THEN "dispatch" ELSE "recover"
  <2>1. /\ QueueTypes' /\ UNCHANGED errRecv /\ SameCall
        /\ fifo # <<>> /\ fifo' = Tail(fifo) /\ Head(fifo) \in Msgs
        /\ InQueue = InQueue' \union ({Head(fifo)} \intersect Packets)
        /\ Waiting' = Waiting
    BY <1>2, QueueGives DEF IInv
  <2>2. /\ Held = {} /\ Held' = {Head(fifo)} \intersect Packets /\ sent \in Nat
        /\ hand' \in 0 .. NoMsg /\ WrittenPackets' = WrittenPackets
    <3>1. Held = {} /\ Held' = {Head(fifo)} \intersect Packets /\ sent \in Nat
      BY <1>1, <1>2, Constants DEF Held, IInv, Types
    <3>2. hand' \in 0 .. NoMsg
      <4>1. hand' \in 1 .. MaxPackets + 1 /\ MaxPackets \in Nat
        BY <1>2, <2>1, Constants
      <4> QED BY <4>1 DEF NoMsg
    <3> QED BY <1>1, <3>1, <3>2 DEF WrittenPackets
  <2>3. /\ fifo \in Seq(Msgs) /\ DOMAIN fifo = 1 .. Len(fifo) /\ Len(fifo) \in Nat \ {0}
        /\ DOMAIN fifo' = 1 .. Len(fifo) - 1 /\ Head(fifo) = fifo[1]
        /\ \A i \in DOMAIN fifo' : i + 1 \in DOMAIN fifo /\ fifo'[i] = fifo[i + 1]
    BY <2>1 DEF IInv, QueueTypes
  <2>4. Ordered'
    <3>1. \A i, j \in DOMAIN fifo' :
              i < j /\ fifo'[i] \in Packets /\ fifo'[j] \in Packets => fifo'[i] < fifo'[j]
      <4> SUFFICES ASSUME NEW i \in DOMAIN fifo', NEW j \in DOMAIN fifo', i < j,
                          fifo'[i] \in Packets, fifo'[j] \in Packets
                   PROVE  fifo'[i] < fifo'[j]
        OBVIOUS
      <4>1. /\ i + 1 \in DOMAIN fifo /\ j + 1 \in DOMAIN fifo /\ i + 1 < j + 1
            /\ fifo'[i] = fifo[i + 1] /\ fifo'[j] = fifo[j + 1]
        BY <2>3
      <4> QED BY <4>1 DEF IInv, Ordered
    <3>2. \A p \in Held', q \in InQueue' : p < q
      <4> SUFFICES ASSUME Head(fifo) \in Packets, NEW j \in DOMAIN fifo', fifo'[j] \in Packets
                   PROVE  Head(fifo) < fifo'[j]
        BY <2>2 DEF InQueue
      <4>1. /\ 1 \in DOMAIN fifo /\ j + 1 \in DOMAIN fifo /\ 1 < j + 1
            /\ fifo'[j] = fifo[j + 1] /\ Head(fifo) = fifo[1]
        BY <2>3
      <4> QED BY <4>1 DEF IInv, Ordered
    <3>3. \A p \in Held', q \in Waiting' : p < q
      BY <2>1, <2>2 DEF IInv, Ordered
    <3>4. /\ \A p \in WrittenPackets, q \in Held' \union InQueue' \union Waiting' : p < q
          /\ \A p \in InQueue', q \in Waiting' : p < q
          /\ WrittenPackets \union Held' \union InQueue' \union Waiting' \subseteq 1 .. sent'
      BY <1>1, <2>1, <2>2 DEF IInv, Ordered
    <3>5. InOrder' /\ \A i \in DOMAIN written' : written'[i].file <= file'
      BY <1>1 DEF IInv, Ordered, InOrder
    <3> QED BY <2>2, <3>1, <3>2, <3>3, <3>4, <3>5 DEF Ordered
  <2>5. References'
    BY <1>1, <2>1, <2>2 DEF IInv, References
  <2>6. Types' /\ Blocking'
    BY <1>1, <1>2, <2>2 DEF IInv, Types, Blocking
  <2>7. Threads'
    BY <1>1, <1>2, <2>1 DEF IInv, Threads, Counts, SameCall, Ended
  <2>8. Counts' /\ FirstHeader' /\ FirstFile' /\ KeyframeNext' /\ RestartsWithKeyframe'
    BY <1>1, <1>2, RestartSame DEF IInv, Counts, FirstHeader, FirstFile, KeyframeNext, Ended
  <2> QED BY <2>1, <2>4, <2>5, <2>6, <2>7, <2>8 DEF IInv
<1>3. CASE \/ /\ Q!RecvFails("writer")
              /\ err' = errRecv /\ wpc' = "stop" /\ UNCHANGED <<hand, scaled>>
           \/ Q!RecvWaits("writer") /\ UNCHANGED <<wpc, err, hand, scaled>>
  <2>1. QueueStays /\ UNCHANGED errRecv
    BY <1>3, ReceiveStays DEF IInv
  <2>2. /\ UNCHANGED <<hand, scaled>> /\ wpc' \in {"recv", "stop"}
        /\ wpc' = "stop" => err' = errRecv /\ errRecv # OK /\ fifo = <<>>
        /\ err' \in {err, errRecv}
    BY <1>1, <1>3 DEF Q!RecvFails
  <2>3. Keeps
    BY <1>1, <2>2 DEF Keeps
  <2>4. Counts' /\ FirstHeader' /\ FirstFile' /\ KeyframeNext' /\ RestartsWithKeyframe'
    BY <1>1, <2>2, RestartSame DEF IInv, Counts, FirstHeader, FirstFile, KeyframeNext, Ended
  <2>5. Handling'
    BY <1>1, <2>1, <2>2 DEF Handling, Ended, QueueStays
  <2>6. header' \in BOOLEAN /\ dropKey' \in BOOLEAN /\ err' \in Failures \union {OK, "eof"}
    BY <1>1, <2>2 DEF IInv, Types, QueueTypes
  <2>7. UNCHANGED <<cfg, overflow, encoder>>
    BY <1>1
  <2> QED BY <1>1, <2>1, <2>2, <2>3, <2>4, <2>5, <2>6, <2>7, WriterKeeps
<1> QED BY <1>2, <1>3 DEF Receive

-----------------------------------------------------------------------------
(* The theorems                                                             *)

LEMMA NextKeeps == IInv /\ [Next]_vars => IInv'
<1> SUFFICES ASSUME IInv, [Next]_vars PROVE IInv'
  OBVIOUS
<1>1. ASSUME sent < MaxPackets, WritePacket(sent + 1) PROVE IInv'
  <2>1. sent + 1 \in Packets /\ sent + 1 \in Msgs
    BY <1>1, Constants DEF IInv, Types, Packets
  <2> QED BY <1>1, <2>1, SendKeeps
<1>2. ASSUME sent < MaxPackets, WritePacket(FlushOut) PROVE IInv'
  BY <1>2, Constants, SendKeeps DEF Msgs
<1>3. ASSUME Writer PROVE IInv'
  BY <1>3, DispatchKeeps, GiveUpKeeps, TooEarlyKeeps, AttemptKeeps, CheckKeeps, ReceiveKeeps,
     EndKeeps DEF Writer
<1> QED BY <1>1, <1>2, <1>3, HeaderKeeps, ResumeKeeps, OverflowKeeps, TrailerKeeps, JoinKeeps,
           DeinitKeeps, TickKeeps, WakeupKeeps DEF Next, Closed

(* IInv holds initially and is preserved by every step.                     *)
THEOREM Inductive == Spec => []IInv
BY InitEstablishes, NextKeeps, PTL DEF Spec

(* The fields have their types, and a packet is referenced while a message  *)
(* has it: no packet is used after its last reference was given back.       *)
THEOREM TypeCorrect == Spec => []TypeOK
<1>1. IInv => TypeOK
  <2> SUFFICES ASSUME IInv PROVE TypeOK
    OBVIOUS
  <2>1. Q!TypeOK
    <3>1. errRecv \in Failures \union {"eof"} \cup {OK}
      BY DEF IInv, QueueTypes
    <3> QED BY <3>1 DEF IInv, QueueTypes, Q!TypeOK, Msgs
  <2>2. recoveryNr \in 0 .. MaxFaults /\ scaled \in 0 .. MaxFaults + 1 /\ file \in 0 .. MaxFaults + 1
        /\ faults \in 0 .. MaxFaults
    BY Constants DEF IInv, Counts
  <2>3. InQueue \union ({hand} \intersect Packets) \subseteq refs /\ refs \subseteq Packets
    BY DEF IInv, References, Held, Waiting, InQueue
  <2> QED BY <2>1, <2>2, <2>3 DEF IInv, Types, TypeOK
<1> QED BY <1>1, Inductive, PTL

(* The packets are written in the order of the encoder, none of them twice, *)
(* whatever fails and however often the output is started again.            *)
THEOREM PacketsInOrder == Spec => []InOrder
<1>1. IInv => InOrder
  BY DEF IInv, Ordered
<1> QED BY <1>1, Inductive, PTL

(* When the muxer is closed every reference has been given back, but that   *)
(* of the packet of the last attempt, if there were too many.               *)
THEOREM NothingLeaks == Spec => []ReferencesAreFreed
<1>1. IInv => ReferencesAreFreed
  <2> SUFFICES ASSUME IInv, epc = "closed"
               PROVE  refs \subseteq (IF cfg.max > 0 /\ recoveryNr >= cfg.max THEN {hand} ELSE {})
    BY DEF ReferencesAreFreed
  <2>1. Waiting = {} /\ InQueue = {} /\ Ended
    BY DEF IInv, Threads, Waiting, InQueue, Ended
  <2>2. hand = NoMsg \/ (cfg.max > 0 /\ recoveryNr >= cfg.max)
    BY <2>1 DEF IInv, Threads
  <2> QED BY <2>1, <2>2, Constants DEF IInv, References, Held
<1> QED BY <1>1, Inductive, PTL

(* With restart_with_keyframe and drop_pkts_on_overflow every output but    *)
(* the first begins with a keyframe.                                        *)
THEOREM OutputsBeginWithKeyframes == Spec => []RestartsWithKeyframe
<1>1. IInv => RestartsWithKeyframe
  BY DEF IInv
<1> QED BY <1>1, Inductive, PTL

-----------------------------------------------------------------------------
(* Nothing is lost while the encoder waits                                  *)

\* A muxer that makes an encoder wait does not itself return EAGAIN.
MuxerWaits == \A c \in Configs : ~c.drop => "again" \notin c.fails

Kept == WrittenPackets \union InQueue \union {hand}

LEMMA KeptStay ==
    ASSUME IInv, NoneIsLost, cfg' = cfg, FailedForGood => FailedForGood',
           ~cfg.drop /\ ~FailedForGood' =>
               /\ Kept \intersect Packets \subseteq Kept'
               /\ accepted' \subseteq (Kept' \union accepted)
    PROVE  NoneIsLost'
<1>1. accepted \subseteq Packets
  BY Constants DEF IInv, Types, Packets
<1> QED BY <1>1 DEF NoneIsLost, Kept

LEMMA KeptSame ==
    ASSUME UNCHANGED <<written, hand, fifo>>
    PROVE  Kept' = Kept
BY DEF Kept, WrittenPackets, InQueue

(* The steps of the encoder's thread, and those of the writer aside         *)
LEMMA EncoderLosesNothing ==
    ASSUME IInv, NoneIsLost,
           \/ WriteHeader \/ SendResumes \/ SetOverflow \/ WriteTrailer \/ Join \/ Deinit
           \/ \E m \in Msgs : WritePacket(m)
           \/ Tick \/ SpuriousWakeup \/ UNCHANGED vars
    PROVE  NoneIsLost'
<1>1. UNCHANGED <<cfg, err, hand, written>> /\ (Ended => Ended')
  <2>1. CASE WriteHeader
    <3>1. wpc = "none" \/ wpc' = wpc
      BY <2>1 DEF WriteHeader, IInv, Threads
    <3> QED BY <2>1, <3>1 DEF WriteHeader, message, output, Ended
  <2>2. CASE SendResumes \/ SetOverflow \/ WriteTrailer \/ Join \/ Deinit
    BY <2>2 DEF SendResumes, SetOverflow, WriteTrailer, Join, Deinit, message, output, Ended
  <2>3. CASE \E m \in Msgs : WritePacket(m)
    BY <2>3 DEF WritePacket, output, Ended
  <2>4. CASE Tick \/ SpuriousWakeup \/ UNCHANGED vars
    BY <2>4 DEF Tick, SpuriousWakeup, vars, message, output, Ended
  <2> QED BY <2>1, <2>2, <2>3, <2>4
<1>2. FailedForGood => FailedForGood'
  BY <1>1 DEF FailedForGood, Ended
<1>3. WrittenPackets' = WrittenPackets
  BY <1>1 DEF WrittenPackets
<1>4. CASE UNCHANGED <<fifo, accepted>>
  BY <1>1, <1>2, <1>4, KeptSame, KeptStay
<1>5. WriteHeader \/ SetOverflow \/ WriteTrailer \/ Join \/ Tick \/ SpuriousWakeup \/ UNCHANGED vars
          => UNCHANGED <<fifo, accepted>>
  BY DEF WriteHeader, SetOverflow, WriteTrailer, Join, Tick, SpuriousWakeup, vars, queue, encoder,
     Q!SetErrRecv, Q!SpuriousWakeup
<1>6. ASSUME NEW m \in Msgs, Q!SendAppends("encoder", m), Accepted(m) PROVE NoneIsLost'
  <2>1. InQueue' = InQueue \union ({m} \intersect Packets)
    BY <1>6, QueueAppends DEF IInv
  <2> QED BY <1>1, <1>2, <1>3, <1>6, <2>1, KeptStay DEF Kept, Accepted
<1>7. ASSUME NEW m \in Msgs, WritePacket(m) PROVE NoneIsLost'
  <2>1. CASE Q!SendAppends("encoder", m) /\ Accepted(m)
    BY <1>6, <2>1
  <2>2. CASE ~(Q!SendAppends("encoder", m) /\ Accepted(m))
    <3>1. UNCHANGED <<fifo, accepted>>
      BY <1>7, <2>2 DEF WritePacket, Q!SendFails, Q!SendWaits, queue, Refused
    <3> QED BY <1>4, <3>1
  <2> QED BY <2>1, <2>2
<1>8. ASSUME SendResumes PROVE NoneIsLost'
  <2> DEFINE m == qmsg["encoder"]
  <2>1. m \in Msgs
    BY <1>8 DEF SendResumes, IInv, QueueTypes
  <2> HIDE DEF m
  <2>2. CASE Q!SendAppends("encoder", m) /\ Accepted(m)
    BY <1>6, <2>1, <2>2
  <2>3. CASE ~(Q!SendAppends("encoder", m) /\ Accepted(m))
    <3>1. UNCHANGED <<fifo, accepted>>
      BY <1>8, <2>3 DEF SendResumes, Q!SendFails, Q!SendWaits, Refused, m
    <3> QED BY <1>4, <3>1
  <2> QED BY <2>2, <2>3
<1>9. ASSUME Deinit PROVE NoneIsLost'
  <2>1. UNCHANGED <<accepted, wpc>> /\ wpc = "ended"
    BY <1>9 DEF Deinit, IInv, Threads
  <2>2. ~FailedForGood => InQueue = {}
    BY <2>1 DEF IInv, Threads, FailedForGood, Ended, InQueue
  <2> QED BY <1>1, <1>2, <1>3, <2>1, <2>2, KeptStay DEF Kept
<1> QED BY <1>4, <1>5, <1>7, <1>8, <1>9

(* The packet in the hand is in the file when the writer succeeds.          *)
LEMMA SuccessLosesNothing ==
    ASSUME IInv, NoneIsLost, cfg' = cfg, ~Ended, accepted' = accepted, InQueue' = InQueue,
           NEW d \in BOOLEAN, ~cfg.drop => ~d, NEW h \in BOOLEAN, Succeeds(h, d),
           hand' = NoMsg, refs' = refs \ {hand}, fifo' = fifo, Waiting' = Waiting, sent' = sent
    PROVE  NoneIsLost'
<1>1. /\ file' = IF h THEN file ELSE file + 1
      /\ hand \in Packets /\ ~d => written' = Append(written, Record(file'))
      /\ hand \notin Packets => UNCHANGED written
  BY DEF Succeeds, Skips, Record
<1>2. ~FailedForGood
  BY DEF FailedForGood, Ended
<1>3. CASE hand \in Packets /\ ~d
  <2>1. Writes /\ file' \in {file, file + 1}
    BY <1>1, <1>3 DEF Writes
  <2>2. WrittenPackets' = WrittenPackets \union {hand}
    BY <2>1, WriterOrder
  <2> QED BY <1>2, <2>2, KeptStay DEF Kept
<1>4. CASE hand \notin Packets
  <2>1. WrittenPackets' = WrittenPackets
    BY <1>1, <1>4 DEF WrittenPackets
  <2> QED BY <1>2, <1>4, <2>1, KeptStay DEF Kept
<1>5. CASE d
  BY <1>2, <1>5, KeptStay
<1> QED BY <1>3, <1>4, <1>5

LEMMA WriterLosesNothing ==
    ASSUME IInv, NoneIsLost, MuxerWaits, Writer
    PROVE  NoneIsLost'
<1>1. cfg' = cfg /\ accepted' = accepted /\ sent' = sent
  BY DEF Writer, DispatchMessage, GiveUp, TooEarly, Attempt, CheckOverflow, Receive, Stop, Trailer,
     encoder
<1>2. /\ ~cfg.drop => ~overflow /\ ~dropKey /\ "again" \notin cfg.fails
      /\ cfg.fails \subseteq Failures /\ header \in BOOLEAN /\ dropKey \in BOOLEAN
  BY Constants DEF IInv, Types, Blocking, MuxerWaits
<1>3. ASSUME UNCHANGED <<written, hand, fifo>>, FailedForGood => FailedForGood'
      PROVE  NoneIsLost'
  BY <1>1, <1>3, KeptSame, KeptStay
<1>4. ASSUME UNCHANGED queue PROVE fifo' = fifo /\ InQueue' = InQueue /\ Waiting' = Waiting
  BY <1>4, NoCallStays DEF QueueStays
<1>5. CASE DispatchMessage
  <2>1. UNCHANGED queue /\ wpc = "dispatch" /\ ~Ended
    BY <1>5 DEF DispatchMessage, Ended
  <2>2. CASE Succeeds(header, dropKey) /\ Unref
    BY <1>1, <1>2, <1>4, <2>1, <2>2, SuccessLosesNothing DEF Unref
  <2>3. CASE \E e \in cfg.fails : Fails(header, dropKey, e) /\ UNCHANGED <<hand, refs>>
    BY <1>3, <1>4, <2>1, <2>3 DEF Fails, FailedForGood, Ended
  <2> QED BY <1>5, <2>2, <2>3 DEF DispatchMessage
<1>6. CASE GiveUp
  <2>1. err \in cfg.fails
    BY <1>6, Recoverable DEF GiveUp, IInv, Threads
  <2>2. ~cfg.drop => FailedForGood'
    BY <1>2, <1>6, <2>1 DEF GiveUp, Leaves, FailedForGood
  <2>3. ~FailedForGood
    BY <1>6 DEF GiveUp, FailedForGood
  <2> QED BY <1>1, <2>2, <2>3, KeptStay
<1>7. CASE TooEarly
  <2>1. UNCHANGED <<written, queue>> /\ (~cfg.drop => hand' = hand) /\ ~FailedForGood
    BY <1>7 DEF TooEarly, message, FailedForGood
  <2>2. ~cfg.drop => Kept' = Kept
    BY <1>4, <2>1, KeptSame
  <2> QED BY <1>1, <2>1, <2>2, KeptStay
<1>8. CASE Attempt
  <2>1. UNCHANGED queue /\ wpc = "recover" /\ ~Ended /\ ~FailedForGood
    BY <1>8 DEF Attempt, Ended, FailedForGood
  <2>2. DropsUntilKey \in BOOLEAN /\ (~cfg.drop => ~DropsUntilKey)
    BY <1>2 DEF DropsUntilKey
  <2>3. CASE Succeeds(FALSE, DropsUntilKey) /\ Unref
    BY <1>1, <1>4, <2>1, <2>2, <2>3, SuccessLosesNothing DEF Unref
  <2>4. CASE \E e \in cfg.fails : Fails(FALSE, DropsUntilKey, e) /\ AttemptFails(e)
    <3>1. PICK e \in cfg.fails : Fails(FALSE, DropsUntilKey, e) /\ AttemptFails(e)
      BY <2>4
    <3>2. UNCHANGED written
      BY <3>1 DEF Fails
    <3>3. CASE IsRecoverable(e) /\ ~cfg.drop
      <4>1. UNCHANGED hand
        BY <3>1, <3>3 DEF AttemptFails, DropsOn
      <4> QED BY <1>3, <1>4, <2>1, <3>2, <4>1
    <3>4. CASE ~IsRecoverable(e) /\ ~cfg.drop
      <4>1. FailedForGood'
        BY <1>2, <3>1, <3>4 DEF AttemptFails, Leaves, FailedForGood
      <4> QED BY <1>1, <4>1, KeptStay
    <3>5. CASE cfg.drop
      BY <1>1, <3>5, <2>1, KeptStay
    <3> QED BY <3>3, <3>4, <3>5
  <2> QED BY <1>8, <2>3, <2>4 DEF Attempt
<1>9. CASE CheckOverflow
  <2>1. UNCHANGED <<written, hand>> /\ ~FailedForGood
    BY <1>9 DEF CheckOverflow, FailedForGood
  <2>2. ~cfg.drop => UNCHANGED queue
    BY <1>2, <1>9 DEF CheckOverflow
  <2>3. ~cfg.drop => Kept' = Kept
    BY <1>4, <2>1, <2>2, KeptSame
  <2> QED BY <1>1, <2>1, <2>3, KeptStay
<1>10. CASE Receive
  <2>1. UNCHANGED written /\ hand = NoMsg /\ ~FailedForGood
    BY <1>10 DEF Receive, output, FailedForGood, IInv, Threads
  <2>2. CASE Q!RecvTakes("writer") /\ hand' = Head(fifo)
    <3>1. InQueue = InQueue' \union ({Head(fifo)} \intersect Packets)
      BY <2>2, QueueGives DEF IInv
    <3>2. WrittenPackets' = WrittenPackets /\ hand \notin Packets
      BY <2>1, Constants DEF WrittenPackets
    <3> QED BY <1>1, <2>1, <2>2, <3>1, <3>2, KeptStay DEF Kept
  <2>3. CASE (Q!RecvFails("writer") \/ Q!RecvWaits("writer")) /\ UNCHANGED hand
    BY <1>3, <2>1, <2>3 DEF Q!RecvFails, Q!RecvWaits
  <2> QED BY <1>10, <2>2, <2>3 DEF Receive
<1>11. CASE Stop \/ Trailer
  <2>1. UNCHANGED <<written, hand, fifo>> /\ (FailedForGood => FailedForGood')
    BY <1>11 DEF Stop, Trailer, output, message, queue, Q!SetErrSend, FailedForGood
  <2> QED BY <1>3, <2>1
<1> QED BY <1>5, <1>6, <1>7, <1>8, <1>9, <1>10, <1>11 DEF Writer

(* Without drop_pkts_on_overflow, and with a muxer that does not itself     *)
(* return EAGAIN, no packet that was accepted is lost, whatever other       *)
(* failures there are, until the muxer has failed for good.                 *)
THEOREM NothingIsLost ==
    ASSUME MuxerWaits
    PROVE  Spec => []NoneIsLost
<1>1. Init => NoneIsLost
  BY DEF Init, NoneIsLost
<1>2. IInv /\ NoneIsLost /\ [Next]_vars => NoneIsLost'
  <2> SUFFICES ASSUME IInv, NoneIsLost, [Next]_vars PROVE NoneIsLost'
    OBVIOUS
  <2>1. CASE Writer
    BY <2>1, WriterLosesNothing
  <2>2. CASE \/ sent < MaxPackets /\ WritePacket(sent + 1)
             \/ sent < MaxPackets /\ WritePacket(FlushOut)
    <3>1. \E m \in Msgs : WritePacket(m)
      <4>1. FlushOut \in Msgs /\ (sent < MaxPackets => sent + 1 \in Msgs)
        BY Constants DEF Msgs, Packets, IInv, Types
      <4> QED BY <2>2, <4>1
    <3> QED BY <3>1, EncoderLosesNothing
  <2>3. CASE ~Writer /\ ~\/ sent < MaxPackets /\ WritePacket(sent + 1)
                         \/ sent < MaxPackets /\ WritePacket(FlushOut)
    BY <2>3, EncoderLosesNothing DEF Next, Closed
  <2> QED BY <2>1, <2>2, <2>3
<1> QED BY <1>1, <1>2, Inductive, PTL DEF Spec

-----------------------------------------------------------------------------
(* The queue in the muxer                                                   *)

\* The assumption of ThreadMessage holds of the two threads and the messages.
LEMMA QueueAssumption ==
    /\ IsFiniteSet({"encoder", "writer"})
    /\ Capacity \in Nat \ {0}
    /\ OK \notin Failures \union {"eof"}
    /\ NoMsg \notin Packets \union {FlushOut}
<1>1. IsFiniteSet({"encoder", "writer"})
  <2>1. IsFiniteSet({"encoder"}) /\ {"encoder", "writer"} = {"encoder"} \union {"writer"}
    BY FS_Singleton
  <2> QED BY <2>1, FS_AddElement
<1>2. OK \notin Failures \union {"eof"} /\ NoMsg \notin Packets \union {FlushOut}
  BY Constants DEF OK, Msgs
<1> QED BY <1>1, <1>2, Constants

(* Every step of the muxer is a step of the queue or leaves it alone.       *)
LEMMA QueueStep ==
    ASSUME IInv, [Next]_vars
    PROVE  [Q!Next]_(Q!vars)
<1>1. QueueTypes
  BY DEF IInv
<1>2. ASSUME UNCHANGED queue PROVE UNCHANGED Q!vars
  BY <1>2 DEF queue, Q!vars
<1>3. CASE \/ WriteHeader \/ SetOverflow \/ Join \/ DispatchMessage \/ GiveUp \/ TooEarly \/ Attempt
           \/ Trailer \/ Tick \/ UNCHANGED vars
  BY <1>2, <1>3 DEF WriteHeader, SetOverflow, Join, DispatchMessage, GiveUp, TooEarly, Attempt,
     Trailer, Tick, vars
<1>4. ASSUME NEW m \in Msgs, WritePacket(m) PROVE [Q!Next]_(Q!vars)
  <2>1. qpc["encoder"] = "idle"
    BY <1>4 DEF WritePacket
  <2>2. CASE Q!SendTries("encoder", m)
    BY <2>1, <2>2 DEF Q!Next, Q!Send, Msgs
  <2>3. CASE UNCHANGED queue
    BY <1>2, <2>3
  <2> QED BY <1>4, <2>2, <2>3 DEF WritePacket, Q!SendTries
<1>5. CASE SendResumes
  <2>1. qpc["encoder"] = "sendwoken" /\ Q!SendTries("encoder", qmsg["encoder"])
    BY <1>5 DEF SendResumes, Q!SendTries
  <2> QED BY <2>1 DEF Q!Next, Q!SendResumes
<1>6. CASE WriteTrailer
  BY <1>6 DEF WriteTrailer, Q!Next
<1>7. CASE Deinit
  BY <1>7 DEF Deinit, FlushQueue, Q!Next
<1>8. CASE CheckOverflow
  BY <1>2, <1>8 DEF CheckOverflow, FlushQueue, Q!Next
<1>9. CASE Receive
  <2>1. qpc["writer"] \in {"idle", "recvwoken"} /\ Q!RecvTries("writer")
    BY <1>9 DEF Receive, Q!RecvTries
  <2> QED BY <2>1 DEF Q!Next, Q!Recv, Q!RecvResumes
<1>10. CASE Stop
  <2>1. err \in (Failures \union {"eof"}) \cup {OK}
    BY DEF IInv, Types
  <2> QED BY <1>10, <2>1 DEF Stop, Q!Next
<1>11. CASE SpuriousWakeup
  BY <1>11 DEF SpuriousWakeup, Q!Next
<1>12. sent < MaxPackets => sent + 1 \in Msgs
  BY Constants DEF IInv, Types, Msgs, Packets
<1>13. FlushOut \in Msgs
  BY DEF Msgs
<1> QED BY <1>3, <1>4, <1>5, <1>6, <1>7, <1>8, <1>9, <1>10, <1>11, <1>12, <1>13
        DEF Next, Writer, Closed

(* The two threads use the queue only by its operations, as any thread of   *)
(* ThreadMessage might, so that what is proved of the queue holds in the    *)
(* muxer.                                                                   *)
THEOREM UsesTheQueue == Spec => Q!Init /\ [][Q!Next]_(Q!vars)
<1>1. Init => Q!Init
  BY DEF Init
<1>2. IInv /\ [Next]_vars => [Q!Next]_(Q!vars)
  BY QueueStep
<1> QED BY <1>1, <1>2, Inductive, PTL DEF Spec

\* What is proved of the queue, for the queue of the muxer
Proved == INSTANCE ThreadMessageProofs WITH
        Threads <- {"encoder", "writer"}, Messages <- Packets \union {FlushOut},
        Errors <- Failures \union {"eof"}, Ok <- OK, Nil <- NoMsg,
        pc <- qpc, msg <- qmsg

(* No wakeup is lost between the encoder and the writer, and nobody sleeps  *)
(* past an error: what is proved of any queue, for this one.                *)
THEOREM NoWakeupIsLost == Spec => [](Q!NoLostWakeup /\ Q!NoSleepPastError)
<1>1. Q!Init => Proved!IInv
  <2>1. Q!Init => Proved!Init
    BY DEF Q!Init, Proved!Init
  <2> QED BY <2>1, QueueAssumption, Proved!InitEstablishes DEF IsFiniteSet, Proved!IsFiniteSet
<1>2. Proved!IInv /\ [Q!Next]_(Q!vars) => Proved!IInv'
  <2>1. Q!Next => Proved!Next
    BY DEF Q!Next, Proved!Next, Q!Send, Proved!Send, Q!SendNonblock, Proved!SendNonblock,
           Q!SendResumes, Proved!SendResumes, Q!SendTries, Proved!SendTries, Q!SendFails,
           Proved!SendFails, Q!SendAppends, Proved!SendAppends, Q!SendWaits, Proved!SendWaits,
           Q!Recv, Proved!Recv, Q!RecvNonblock, Proved!RecvNonblock, Q!RecvResumes,
           Proved!RecvResumes, Q!RecvTries, Proved!RecvTries, Q!RecvTakes, Proved!RecvTakes,
           Q!RecvFails, Proved!RecvFails, Q!RecvWaits, Proved!RecvWaits, Q!SetErrSend,
           Proved!SetErrSend, Q!SetErrRecv, Proved!SetErrRecv, Q!Flush, Proved!Flush,
           Q!SpuriousWakeup, Proved!SpuriousWakeup, Q!SignalOne, Proved!SignalOne, Q!WakeAll,
           Proved!WakeAll, Q!At, Proved!At, Q!vars, Proved!vars
  <2>2. UNCHANGED Q!vars => UNCHANGED Proved!vars
    BY DEF Q!vars, Proved!vars
  <2> QED BY <2>1, <2>2, QueueAssumption, Proved!NextKeeps DEF IsFiniteSet, Proved!IsFiniteSet
<1>3. Proved!IInv => Q!NoLostWakeup /\ Q!NoSleepPastError
  BY DEF Proved!IInv, Proved!NoLostWakeup, Proved!NoSleepPastError, Q!NoLostWakeup, Q!NoSleepPastError,
     Q!At, Proved!At, Cardinality, Q!Cardinality, Proved!Cardinality
<1> QED BY <1>1, <1>2, <1>3, UsesTheQueue, PTL

(* The writer sleeps only while there is nothing to write, the encoder only *)
(* while there is no room, and neither when the other has ended the stream: *)
(* one pthread_cond_signal for each message is enough.                      *)
SleepsOnlyToWait ==
    /\ qpc["writer"] = "recvwait" => fifo = <<>> /\ errRecv = OK
    /\ qpc["encoder"] = "sendwait" => Len(fifo) = Capacity /\ errSend = OK

(* With one thread at each end of the queue, none sleeps while it could go  *)
(* on.                                                                      *)
THEOREM NobodySleepsInVain == Spec => []SleepsOnlyToWait
<1>1. IInv /\ Q!NoLostWakeup /\ Q!NoSleepPastError => SleepsOnlyToWait
  <2> SUFFICES ASSUME IInv, Q!NoLostWakeup, Q!NoSleepPastError PROVE SleepsOnlyToWait
    OBVIOUS
  <2>1. /\ fifo \in Seq(Msgs) /\ Len(fifo) \in Nat /\ Len(fifo) <= Capacity /\ Capacity \in Nat
        /\ qpc["encoder"] \in {"idle", "sendwait", "sendwoken"}
        /\ qpc["writer"] \in {"idle", "recvwait", "recvwoken"}
    BY Constants DEF IInv, QueueTypes
  <2>2. Q!Cardinality({}) = 0
    BY FS_EmptySet DEF Q!Cardinality, Cardinality
  <2>3. ASSUME qpc["writer"] = "recvwait" PROVE fifo = <<>> /\ errRecv = OK
    <3>1. "writer" \in Q!At("recvwait") /\ Q!At("recvwoken") = {}
      BY <2>1, <2>3 DEF Q!At
    <3>2. Len(fifo) <= 0 /\ errRecv = OK
      BY <2>2, <3>1 DEF Q!NoLostWakeup, Q!NoSleepPastError
    <3>3. fifo = <<>>
      BY <2>1, <3>2
    <3> QED BY <3>2, <3>3
  <2>4. ASSUME qpc["encoder"] = "sendwait" PROVE Len(fifo) = Capacity /\ errSend = OK
    <3>1. "encoder" \in Q!At("sendwait") /\ Q!At("sendwoken") = {}
      BY <2>1, <2>4 DEF Q!At
    <3>2. Capacity - Len(fifo) <= 0 /\ errSend = OK
      BY <2>2, <3>1 DEF Q!NoLostWakeup, Q!NoSleepPastError
    <3> QED BY <2>1, <3>2
  <2> QED BY <2>3, <2>4 DEF SleepsOnlyToWait
<1> QED BY <1>1, Inductive, NoWakeupIsLost, PTL

==============================================================================
