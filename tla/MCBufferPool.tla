---------------------------- MODULE MCBufferPool ----------------------------
(* What is alike for buffer.c: threads, references, buffers and data.       *)
EXTENDS BufferPool, TLC

Symmetry == Permutations(Threads) \union Permutations(Refs)
            \union Permutations(Buffers) \union Permutations(Data)
=============================================================================
