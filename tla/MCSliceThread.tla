---------------------------- MODULE MCSliceThread ----------------------------
(* A pool of up to three threads that runs calls of up to four jobs, one   *)
(* after another, for as long as the caller likes.                         *)
EXTENDS SliceThread
=============================================================================
