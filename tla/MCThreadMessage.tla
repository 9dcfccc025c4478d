--------------------------- MODULE MCThreadMessage ---------------------------
(* Three threads, two messages and a queue of two elements. *)
EXTENDS ThreadMessage
=============================================================================
