---------------------------- MODULE MCAsyncReader ----------------------------
(* Instances of AsyncReader for TLC                                        *)
EXTENDS AsyncReader

\* A ring of three, one of them to seek back, and indices that wrap at eight.
MCReadSizes == {1, 2}
=============================================================================
