---------------------------- MODULE FixedPoint ----------------------------
(* The fixed-point arithmetic of src/jpeg-8d/jdct.h and the sample range    *)
(* limiting of src/jpeg-8d/jdmaster.c, shared by the two transforms.        *)
EXTENDS Integers, Sequences

\* DESCALE(x,n): the right shift by n of x plus half of 2^n, rounding to nearest.
DESCALE(x, n) == (x + 2^n \div 2) \div 2^n
Descaled(y, n) == [k \in 1 .. Len(y) |-> DESCALE(y[k], n)]

\* <<f(0), ..., f(n - 1)>>.  SubSeq has TLC compute it once, which keeps a function
\* constructor of a LET as a rule to be applied again.
ListOf(n, f(_)) == SubSeq([k \in 1 .. n |-> f(k - 1)], 1, n)

AtMost8(n) == IF n < 8 THEN n ELSE 8

\* range_limit[x & RANGE_MASK] of IDCT_range_limit: the table continues with
\* 255s, then 0s, then the first half of the samples, so that x from -512 to 511
\* is clamped to a sample after adding CENTERJSAMPLE, and others wrap.
RangeLimit(x) ==
  LET i == x % 1024
  IN  IF i < 128 THEN i + 128 ELSE IF i < 512 THEN 255 ELSE IF i < 896 THEN 0 ELSE i - 896
====
