--------------------------- MODULE MCFrameEncoder ---------------------------
(* Two threads with a ring that wraps within the frames of a run.           *)
EXTENDS FrameEncoder
=============================================================================
