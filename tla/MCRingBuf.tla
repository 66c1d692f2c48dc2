----------------------------- MODULE MCRingBuf -----------------------------
(* RingBuf at small sizes, and its bit arithmetic against bitwise AND.     *)
EXTENDS RingBuf, Bitwise

\* For every ULONG the model counts with, the remainder and the single bit
\* the model uses are x & Mask and x & Capacity of ringbuf.c.
ASSUME BitArithmetic ==
  \A x \in ULong : /\ Masked(x) = x & (Capacity - 1)
                   /\ CapacityBit(x) = x & Capacity
============================================================================
