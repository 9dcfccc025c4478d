------------------------------ MODULE FifoMuxer ------------------------------
(***************************************************************************)
(* libavformat/fifo.c: a muxer that hands the packets of the encoder, by a *)
(* message queue (ThreadMessage), to a writer thread, which writes them    *)
(* with the underlying muxer and, if that fails, starts the output again.  *)
(*                                                                         *)
(* The threads share the queue and overflow_flag; the rest is the          *)
(* writer's, whose steps are those between two accesses of the shared      *)
(* state.  The underlying muxer and its file are external: to write the    *)
(* header, a packet or a flush may fail, at most MaxFaults times.  A       *)
(* packet is its number, which is also its timestamp.                      *)
(***************************************************************************)
EXTENDS Integers, Sequences, FiniteSets

CONSTANTS Capacity,     \* queue_size
          MaxPackets,   \* bound on the packets of the encoder
          Keys,         \* those that have AV_PKT_FLAG_KEY
          Failures,     \* the errors of the underlying muxer, from "temp", which is
                        \* recoverable, "again" (EAGAIN), which is too, "perm" (as
                        \* EINVAL), which is not, and "exit" (AVERROR_EXIT)
          MaxFaults,    \* bound on their number
          Configs       \* options considered: records of drop, restart, recover,
                        \* any, max, streamtime (see FifoContext), and fails: those
                        \* of Failures that the underlying muxer makes

ASSUME FifoMuxerAssumption ==
    /\ {Capacity, MaxPackets, MaxFaults} \subseteq Nat /\ Capacity > 0
    /\ Keys \subseteq 1 .. MaxPackets
    /\ Failures \subseteq {"temp", "again", "perm", "exit"}
    \* fifo_init refuses the others
    /\ \A c \in Configs : (c.streamtime => c.drop) /\ c.fails \subseteq Failures

VARIABLES cfg,          \* the options
          \* AVThreadMessageQueue
          fifo, errSend, errRecv, qpc, qmsg, got,
          overflow,     \* overflow_flag
          epc,          \* where the encoder's thread is
          \* the writer thread
          wpc,          \* where it is
          hand,         \* msg, NoMsg when its packet is unreferenced
          scaled,       \* how often the timestamp of that packet was rescaled
          err,          \* ret of the loop
          header,       \* header_written
          recoveryNr,   \* recovery_nr
          lastTs,       \* last_recovery_ts, when it is stream time
          waited,       \* recovery_wait_time has passed, when it is real time
          dropKey,      \* drop_until_keyframe
          faults,       \* failures so far
          \* history
          sent,         \* the number of the last packet of the encoder
          accepted,     \* those that the queue has taken
          refs,         \* the packets that are referenced by a message
          file,         \* the number of headers written
          written       \* the packets written: pkt, file, scaled

queue   == <<fifo, errSend, errRecv, qpc, qmsg, got>>
message == <<hand, scaled, refs>>
output  == <<header, dropKey, faults, file, written>>
retry   == <<recoveryNr, lastTs, waited>>
encoder == <<epc, sent, accepted>>
vars    == <<cfg, queue, overflow, encoder, wpc, err, message, output, retry>>

Packets  == 1 .. MaxPackets
Header   == 0                   \* FIFO_WRITE_HEADER
FlushOut == MaxPackets + 1      \* FIFO_FLUSH_OUTPUT
NoMsg    == MaxPackets + 2
NoPts    == -1                  \* AV_NOPTS_VALUE
OK       == "ok"

Q == INSTANCE ThreadMessage WITH
        Threads <- {"encoder", "writer"}, Messages <- Packets \union {FlushOut},
        Errors <- Failures \union {"eof"}, Ok <- OK, Nil <- NoMsg,
        pc <- qpc, msg <- qmsg

Init ==
    /\ cfg \in Configs /\ Q!Init
    /\ overflow = FALSE /\ epc = "new" /\ sent = 0 /\ accepted = {}
    /\ wpc = "none" /\ err = OK /\ hand = Header /\ scaled = 0 /\ refs = {}
    /\ header = FALSE /\ dropKey = FALSE /\ faults = 0 /\ file = 0 /\ written = <<>>
    /\ recoveryNr = 0 /\ lastTs = 0 /\ waited = TRUE

-----------------------------------------------------------------------------
(* The encoder's thread *)

\* fifo_write_header
WriteHeader ==
    /\ epc = "new"
    /\ epc' = "idle" /\ wpc' = "dispatch"
    /\ UNCHANGED <<cfg, queue, overflow, sent, accepted, err, message, output, retry>>

\* The outcome of av_thread_message_queue_send.
Accepted(m) == accepted' = accepted \union ({m} \intersect Packets)
Refused     == UNCHANGED accepted

\* fifo_write_packet: the message has a reference of its own to the packet.
\* It does not block with drop_pkts_on_overflow, and that the queue is full
\* is then noted only after the queue's lock has been released.
WritePacket(m) ==
    /\ epc = "idle" /\ qpc["encoder"] = "idle"
    /\ sent' = IF m = FlushOut THEN sent ELSE m
    /\ \/ /\ Q!SendAppends("encoder", m) /\ Accepted(m)
          /\ refs' = refs \union ({m} \intersect Packets) /\ UNCHANGED epc
       \/ /\ Q!SendFails("encoder") /\ Refused
          /\ UNCHANGED <<epc, refs>>
       \/ /\ ~cfg.drop /\ Q!SendWaits("encoder", m) /\ Refused
          /\ refs' = refs \union ({m} \intersect Packets) /\ UNCHANGED epc
       \/ /\ cfg.drop /\ errSend = OK /\ Len(fifo) >= Capacity /\ Refused
          /\ epc' = "full" /\ UNCHANGED <<queue, refs>>
    /\ UNCHANGED <<cfg, overflow, wpc, err, hand, scaled, output, retry>>

SendResumes ==
    /\ qpc["encoder"] = "sendwoken"
    /\ LET m == qmsg["encoder"] IN
       \/ Q!SendAppends("encoder", m) /\ Accepted(m) /\ UNCHANGED refs
       \/ Q!SendFails("encoder") /\ Refused /\ refs' = refs \ {m}
       \/ Q!SendWaits("encoder", m) /\ Refused /\ UNCHANGED refs
    /\ UNCHANGED <<cfg, overflow, epc, sent, wpc, err, hand, scaled, output, retry>>

SetOverflow ==
    /\ epc = "full"
    /\ overflow' = TRUE /\ epc' = "idle"
    /\ UNCHANGED <<cfg, queue, sent, accepted, wpc, err, message, output, retry>>

\* fifo_write_trailer, and its pthread_join
WriteTrailer ==
    /\ epc = "idle" /\ qpc["encoder"] = "idle"
    /\ Q!SetErrRecv("eof")
    /\ epc' = "join"
    /\ UNCHANGED <<cfg, overflow, sent, accepted, wpc, err, message, output, retry>>

Join ==
    /\ epc = "join" /\ wpc = "ended"
    /\ epc' = "joined"
    /\ UNCHANGED <<cfg, queue, overflow, sent, accepted, wpc, err, message, output, retry>>

InQueue == {fifo[i] : i \in DOMAIN fifo} \intersect Packets

\* Mutant: the queue has no free_func.
FlushLeaks == Q!Flush /\ UNCHANGED refs

\* av_thread_message_flush, which calls free_message for each message.
FlushQueue == Q!Flush /\ refs' = refs \ InQueue

\* fifo_deinit
Deinit ==
    /\ epc = "joined"
    /\ FlushQueue
    /\ epc' = "closed"
    /\ UNCHANGED <<cfg, overflow, sent, accepted, wpc, err, hand, scaled, output, retry>>

-----------------------------------------------------------------------------
(* The writer thread: fifo_thread_dispatch_message, with h and d for       *)
(* header_written and drop_until_keyframe on entry                         *)

IsRecoverable(e) == cfg.recover /\ (IF cfg.any THEN e # "exit" ELSE e \notin {"perm", "exit"})

\* Mutant: the message is left with the packet.
UnrefLeaves == refs' = refs \ {hand} /\ UNCHANGED <<hand, scaled>>

\* av_packet_unref of the packet in the hand
Unref == hand' = NoMsg /\ scaled' = 0 /\ refs' = refs \ {hand}

\* The packet is dropped to wait for a keyframe.
Skips(d) == hand \in Packets /\ d /\ hand \notin Keys

Succeeds(h, d) ==
    /\ header' = TRUE /\ file' = IF h THEN file ELSE file + 1
    /\ LET writes == hand \in Packets /\ ~Skips(d)
       IN /\ dropKey' = (d /\ ~writes)
          /\ written' = IF writes THEN Append(written,
                                 [pkt |-> hand, file |-> file', scaled |-> scaled + 1])
                        ELSE written
    /\ UNCHANGED faults

\* fifo_thread_write_header fails, even after it has written the header if
\* there are options that the muxer does not know; or av_write_frame does.
Fails(h, d, e) ==
    /\ faults < MaxFaults
    /\ faults' = faults + 1
    /\ \/ ~h /\ header' = FALSE /\ dropKey' = d /\ UNCHANGED <<file, scaled>>
       \/ ~h /\ e = "perm" /\ header' = TRUE /\ file' = file + 1 /\ dropKey' = d
             /\ UNCHANGED scaled
       \/ /\ hand # Header /\ ~Skips(d)
          /\ header' = TRUE /\ file' = IF h THEN file ELSE file + 1
          /\ dropKey' = (d /\ hand \notin Packets)
          /\ scaled' = IF hand \in Packets THEN scaled + 1 ELSE scaled
    /\ UNCHANGED written

\* fifo_consumer_thread
DispatchMessage ==
    /\ wpc = "dispatch"
    /\ \/ Succeeds(header, dropKey) /\ Unref /\ wpc' = "check" /\ err' = OK
       \/ \E e \in cfg.fails :
             /\ Fails(header, dropKey, e)
             /\ wpc' = "recover" /\ err' = e /\ UNCHANGED <<hand, refs>>
    /\ UNCHANGED <<cfg, queue, overflow, encoder, retry>>

-----------------------------------------------------------------------------
(* fifo_thread_attempt_recovery, and the loop of fifo_thread_recover       *)

\* What fifo_thread_recover does of the error e: EAGAIN, whoever returns it,
\* is to try again, or to go on with drop_pkts_on_overflow.
Leaves(e) == /\ wpc' = IF e # "again" THEN "stop" ELSE IF cfg.drop THEN "check" ELSE "recover"
             /\ err' = IF e # "again" THEN e ELSE err

GiveUp ==
    /\ wpc = "recover" /\ ~IsRecoverable(err)
    /\ Unref /\ Leaves(err)
    /\ UNCHANGED <<cfg, queue, overflow, encoder, output, retry>>

\* Mutant: the packet is, whatever drop_pkts_on_overflow is.
DropsAnyway(e) == e = "again"

\* The packet is unreferenced with drop_pkts_on_overflow, on EAGAIN.
DropsOn(e) == e = "again" /\ cfg.drop

\* In stream time the test is the wrong way round: with a timestamp there is
\* no wait.  Every packet here has one.
Elapsed == IF cfg.streamtime THEN lastTs # NoPts ELSE waited

\* The trailer is written, if there is a header.
TooEarly ==
    /\ wpc = "recover" /\ IsRecoverable(err)
    /\ recoveryNr > 0 /\ ~Elapsed
    /\ header' = FALSE
    /\ Leaves("again")
    /\ IF cfg.drop THEN Unref ELSE UNCHANGED message
    /\ UNCHANGED <<cfg, queue, overflow, encoder, dropKey, faults, file, written, retry>>

Timestamp == IF hand \in Packets THEN hand ELSE 0

\* max_recovery_attempts is reached, 0 being no limit.
Exhausted == cfg.max > 0 /\ recoveryNr' >= cfg.max

\* fifo_thread_process_recovery_failure: the error e, or EAGAIN.
AttemptFails(e) ==
    LET result == IF ~IsRecoverable(e) \/ Exhausted THEN e ELSE "again" IN
    /\ recoveryNr' = recoveryNr + 1
    /\ IF ~IsRecoverable(e) THEN UNCHANGED <<lastTs, waited>>
       ELSE /\ lastTs' = IF cfg.streamtime THEN Timestamp ELSE 0
            /\ waited' = cfg.streamtime
    /\ Leaves(result)
    /\ IF ~IsRecoverable(e) \/ DropsOn(result)
       THEN hand' = NoMsg /\ refs' = refs \ {hand}
       ELSE UNCHANGED <<hand, refs>>

\* Mutant: an attempt does not set drop_until_keyframe.
DropsAsBefore == dropKey

\* drop_until_keyframe of an attempt
DropsUntilKey == dropKey \/ (cfg.restart /\ cfg.drop)

\* Mutant: after the recovery the loop dispatches the message again.
AttemptRepeats ==
    /\ wpc = "recover" /\ IsRecoverable(err)
    /\ recoveryNr = 0 \/ Elapsed
    /\ \/ /\ Succeeds(FALSE, DropsUntilKey) /\ UNCHANGED message
          /\ recoveryNr' = 0 /\ wpc' = "dispatch" /\ UNCHANGED <<err, lastTs, waited>>
       \/ \E e \in cfg.fails : Fails(FALSE, DropsUntilKey, e) /\ AttemptFails(e)
    /\ UNCHANGED <<cfg, queue, overflow, encoder>>

Attempt ==
    /\ wpc = "recover" /\ IsRecoverable(err)
    /\ recoveryNr = 0 \/ Elapsed
    /\ \/ /\ Succeeds(FALSE, DropsUntilKey) /\ Unref
          /\ recoveryNr' = 0 /\ wpc' = "check" /\ UNCHANGED <<err, lastTs, waited>>
       \/ \E e \in cfg.fails : Fails(FALSE, DropsUntilKey, e) /\ AttemptFails(e)
    /\ UNCHANGED <<cfg, queue, overflow, encoder>>

\* Time passes.
Tick == ~waited /\ waited' = TRUE
        /\ UNCHANGED <<cfg, queue, overflow, encoder, wpc, err, message, output,
                       recoveryNr, lastTs>>

-----------------------------------------------------------------------------
(* fifo_consumer_thread: the end of the loop's body                        *)

\* overflow_flag_lock is held over the flush: what the encoder sends between
\* the flush and the reset is as if sent after both.
CheckOverflow ==
    /\ wpc = "check"
    /\ IF overflow
       THEN FlushQueue /\ dropKey' = (dropKey \/ cfg.restart)
       ELSE UNCHANGED <<queue, refs, dropKey>>
    /\ overflow' = FALSE /\ wpc' = "recv"
    /\ UNCHANGED <<cfg, encoder, err, hand, scaled, header, faults, file, written, retry>>

Receive ==
    /\ wpc = "recv" /\ qpc["writer"] \in {"idle", "recvwoken"}
    /\ \/ /\ Q!RecvTakes("writer")
          /\ hand' = Head(fifo) /\ scaled' = 0 /\ err' = OK
          /\ wpc' = IF recoveryNr = 0 THEN "dispatch" ELSE "recover"
       \/ /\ Q!RecvFails("writer")
          /\ err' = errRecv /\ wpc' = "stop" /\ UNCHANGED <<hand, scaled>>
       \/ Q!RecvWaits("writer") /\ UNCHANGED <<wpc, err, hand, scaled>>
    /\ UNCHANGED <<cfg, overflow, encoder, refs, output, retry>>

\* Mutant: the encoder is not told.
StopQuietly ==
    /\ wpc = "stop" /\ wpc' = "trailer"
    /\ UNCHANGED <<cfg, queue, overflow, encoder, err, message, output, retry>>

Stop ==
    /\ wpc = "stop"
    /\ Q!SetErrSend(err)
    /\ wpc' = "trailer"
    /\ UNCHANGED <<cfg, overflow, encoder, err, message, output, retry>>

\* fifo_thread_write_trailer
Trailer ==
    /\ wpc = "trailer" /\ wpc' = "ended"
    /\ UNCHANGED <<cfg, queue, overflow, encoder, err, message, output, retry>>

SpuriousWakeup ==
    /\ \E t \in {"encoder", "writer"} : Q!SpuriousWakeup(t)
    /\ UNCHANGED <<cfg, overflow, encoder, wpc, err, message, output, retry>>

Closed == epc = "closed" /\ UNCHANGED vars

Writer == \/ DispatchMessage \/ GiveUp \/ TooEarly \/ Attempt
          \/ CheckOverflow \/ Receive \/ Stop \/ Trailer

Next == \/ WriteHeader \/ SendResumes \/ SetOverflow \/ WriteTrailer \/ Join \/ Deinit
        \/ sent < MaxPackets /\ WritePacket(sent + 1)
        \/ sent < MaxPackets /\ WritePacket(FlushOut)
        \/ Writer \/ Tick \/ SpuriousWakeup \/ Closed

\* Both threads run and time passes; the encoder is not obliged to call.
Fairness == /\ WF_vars(Writer) /\ WF_vars(Tick)
            /\ WF_vars(SendResumes) /\ WF_vars(SetOverflow) /\ WF_vars(Join)

Spec == Init /\ [][Next]_vars /\ Fairness

-----------------------------------------------------------------------------
(* Properties                                                              *)

TypeOK ==
    /\ cfg \in Configs /\ Q!TypeOK
    /\ overflow \in BOOLEAN /\ header \in BOOLEAN /\ dropKey \in BOOLEAN
    /\ epc \in {"new", "idle", "full", "join", "joined", "closed"}
    /\ wpc \in {"none", "dispatch", "recover", "check", "recv", "stop", "trailer", "ended"}
    /\ hand \in 0 .. NoMsg /\ scaled \in 0 .. MaxFaults + 1
    /\ err \in Failures \union {OK, "eof"}
    /\ recoveryNr \in 0 .. MaxFaults /\ faults \in 0 .. MaxFaults
    /\ file \in 0 .. MaxFaults + 1
    /\ sent \in 0 .. MaxPackets /\ accepted \subseteq 1 .. sent
    /\ refs \subseteq Packets
    \* a packet is referenced while a message has it
    /\ InQueue \union ({hand} \intersect Packets) \subseteq refs

WrittenPackets == {written[i].pkt : i \in DOMAIN written}

(* The packets are written in the order of the encoder, none of them twice, *)
(* whatever failures and attempts come between.                             *)
InOrder == \A i, j \in DOMAIN written : i < j => /\ written[i].pkt < written[j].pkt
                                                 /\ written[i].file <= written[j].file

FailedForGood == wpc \in {"stop", "trailer", "ended"} /\ err \in Failures

(* Without drop_pkts_on_overflow no packet is lost: as long as the muxer   *)
(* has not failed for good, each one that av_write_frame was given is in   *)
(* the file, in the queue or in the writer's hand (doc/muxers.texi).       *)
NoneIsLost ==
    ~cfg.drop /\ ~FailedForGood
      => accepted \subseteq WrittenPackets \union InQueue \union {hand}

(* Each reference is given back when the muxer is closed, unless the last  *)
(* attempt has failed: the packet of that one, and no other, is leaked.    *)
ReferencesAreFreed ==
    epc = "closed" => refs \subseteq (IF cfg.max > 0 /\ recoveryNr >= cfg.max
                                      THEN {hand} ELSE {})

\* The first packet of a file
Begins(i) == i = 1 \/ written[i].file # written[i - 1].file

(* With restart_with_keyframe an output that was started again begins with *)
(* a keyframe (doc/muxers.texi): so it is with drop_pkts_on_overflow; an   *)
(* encoder that blocks goes on with the packet that failed (line 341).     *)
RestartsWithKeyframe ==
    cfg.restart /\ cfg.drop => \A i \in DOMAIN written :
        Begins(i) /\ written[i].file > 1 => written[i].pkt \in Keys

(* With restart_with_keyframe the packet that follows packets lost in a    *)
(* queue overflow is a keyframe (doc/muxers.texi).                         *)
ResumesWithKeyframe ==
    cfg.restart => \A i \in DOMAIN written :
        i > 1 /\ written[i].pkt # written[i - 1].pkt + 1 => written[i].pkt \in Keys

(* The timestamps that av_write_frame is given are in the time base of the *)
(* stream of the underlying muxer: they were rescaled exactly once         *)
(* (libavformat/avformat.h).                                               *)
RescaledOnce == \A i \in DOMAIN written : written[i].scaled = 1

(* A call of the encoder returns, and the writer ends, once the failures   *)
(* of the underlying muxer are over.  A blocking encoder is only safe from *)
(* a muxer that does not return EAGAIN (see Leaves).                       *)
EveryCallReturns == /\ (qpc["encoder"] \in Q!Blocked) ~> (qpc["encoder"] = "idle")
                    /\ (epc = "join") ~> (epc = "joined")
=============================================================================
