---------------------------- MODULE MCFrameThread ----------------------------
(* The decoders that the runs consider, by what they make of frame threads *)
EXTENDS FrameThread

Codec(update, callbacks, hw, delay, ffv1) ==
    [update |-> update, buf |-> callbacks = "both", fmt |-> callbacks # "none",
     hw |-> hw, delay |-> delay, ffv1 |-> ffv1]

\* one that holds a frame back, and FFV1: the order of the output
OrderCodecs == {Codec(TRUE,  "none",   "none",   1, FALSE),
                Codec(TRUE,  "none",   "none",   0, TRUE)}

\* a hwaccel, safe or not; callbacks for a codec that has a context to hand
\* on, and for one that has not: locks and sleeping threads
LockCodecs  == {Codec(FALSE, "none",   "none",   0, FALSE),
                Codec(FALSE, "both",   "none",   0, FALSE),
                Codec(TRUE,  "both",   "none",   0, FALSE),
                Codec(TRUE,  "format", "serial", 0, FALSE),
                Codec(TRUE,  "none",   "safe",   0, FALSE)}
=============================================================================
