--------------------------- MODULE MCXvcFraming ---------------------------
(* One connection: periods at the roundings' edges, vectors around the limits. *)
EXTENDS XvcFraming

\* 0 stands for 100; 33 is the fastest clock, rounded down; 40 is between
\* two divisors; the longest, and -1, are beyond the largest divisor.
EdgePeriods == {-1, 0, 33, 40, 3000000}

\* Around the limit of 16 bits, and around 0: -1 makes no bytes, and -15
\* less than none.
EdgeLengths == {-15, -1, 0, 1, 9, 16, 17}
=============================================================================
