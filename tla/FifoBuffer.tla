----------------------------- MODULE FifoBuffer -----------------------------
(***************************************************************************)
(* libavutil/fifo.c: the indices of an AVFifoBuffer.  rptr and wptr are    *)
(* offsets in its memory, which wrap at its end; rndx and wndx count what  *)
(* was read and written, modulo 2^32, and alone tell full from empty.      *)
(***************************************************************************)
EXTENDS Integers

CONSTANTS Capacity,     \* end - buffer
          IndexRange    \* 2^32

ASSUME FifoBufferAssumption ==
    Capacity \in Nat \ {0} /\ IndexRange \in Nat /\ Capacity < IndexRange

Fifo == [rptr : 0..Capacity - 1, wptr : 0..Capacity - 1,
         rndx : 0..IndexRange - 1, wndx : 0..IndexRange - 1]

\* Unsigned arithmetic, on the result of one addition or subtraction
Unsigned(n) == IF n < 0 THEN n + IndexRange ELSE IF n >= IndexRange THEN n - IndexRange ELSE n

AtEnd(ptr) == IF ptr >= Capacity THEN ptr - Capacity ELSE ptr

\* av_fifo_reset
Reset == [rptr |-> 0, wptr |-> 0, rndx |-> 0, wndx |-> 0]

FifoSize(f)  == Unsigned(f.wndx - f.rndx)
FifoSpace(f) == Capacity - FifoSize(f)

\* av_fifo_drain
Drained(f, n) == [f EXCEPT !.rptr = AtEnd(@ + n), !.rndx = Unsigned(@ + n)]

\* av_fifo_generic_write, what it does to the indices for a piece of n
Written(f, n) == [f EXCEPT !.wptr = IF @ + n >= Capacity THEN 0 ELSE @ + n,
                           !.wndx = Unsigned(@ + n)]

\* Mutant: the end of the memory is overlooked.
PieceUnbroken(f, n) == n

\* ... which does not reach beyond the end of the memory
PieceSize(f, n) == IF Capacity - f.wptr < n THEN Capacity - f.wptr ELSE n

\* av_fifo_generic_peek_at: where it begins, and the i-th byte from there
PeekPtr(f, offset) == IF offset >= Capacity - f.rptr THEN f.rptr + (offset - Capacity)
                                                     ELSE f.rptr + offset
PeekSlot(f, offset, i) == AtEnd(AtEnd(PeekPtr(f, offset)) + i)
=============================================================================
