---------------------------- MODULE TransformsProofs ----------------------------
(***************************************************************************)
(* Proofs about Transforms: what the 32 forward transforms of jfdctint.c   *)
(* can leave to the entropy coder, and how far what they leave is from the *)
(* DCT, for every block of samples and every quantization table.           *)
(*                                                                         *)
(* A kernel is a linear map, so that its output is largest on the corners  *)
(* of the box its input is in; with the input between -a and b, the output *)
(* is between multiples of a and of b that the kernel decides.  A column   *)
(* of the second pass is in the box that the first pass leaves.            *)
(*                                                                         *)
(* Its factors are those of the DCT, rounded: each output is the component *)
(* of its points to a multiple of the largest of them.  The error of the   *)
(* first pass goes through the second, which is linear, as its data does.  *)
(***************************************************************************)
EXTENDS Transforms, TLAPS

Samples == -128 .. 127
BlocksOf(w, h) == [0 .. h - 1 -> [0 .. w - 1 -> Samples]]
Matrices == [0 .. 7 -> [0 .. 7 -> Int]]
Quantizers == [0 .. 7 -> [0 .. 7 -> Nat \ {0}]]

-----------------------------------------------------------------------------
(* One kernel                                                              *)

\* The output y of an n-point kernel on inputs between -a and b: the sum, and the
\* others, which are of differences.
Spread(y, n, dc, ac, a, b) ==
  /\ Len(y) = AtMost8(n)
  /\ y[1] \in -(dc * a) .. dc * b
  /\ \A k \in 2 .. AtMost8(n) : y[k] \in -(ac * (a + b)) .. ac * (a + b)

\* By how much: the sum of a kernel's factors, and half the largest sum of their
\* absolute values over the other outputs, for the first and the second pass.
RowDc == << 8192, 16384, 24576, 32768, 40960, 49152, 57344, 65536, 73728, 81920, 90112,
            98304, 106496, 114688, 122880, 131072 >>
RowAc == << 0, 8192, 11586, 16384, 18744, 24576, 26032, 32768, 34758, 40960, 40704,
            49152, 48058, 57344, 59238, 60544 >>
ColDc == << 8192, 16384, 43692, 32768, 52430, 87384, 74900, 65536, 116505, 104860, 95326,
            87384, 80665, 74900, 139815, 131072 >>
ColAc == << 0, 8192, 20596, 16384, 23994, 43692, 34000, 32768, 54924, 52430, 43058,
            43692, 36400, 37450, 67384, 60544 >>

LEMMA Spread9 ==
  ASSUME NEW a \in Nat, NEW b \in Nat, NEW x \in [0 .. 8 -> -a .. b]
  PROVE  /\ Spread(Fdct9(Rows9, x), 9, 73728, 34758, a, b)
         /\ Spread(Fdct9(Cols9, x), 9, 116505, 54924, a, b)
<1>1. \A j \in 0 .. 8 : x[j] \in Int /\ -a <= x[j] /\ x[j] <= b
  OBVIOUS
<1>2. Spread(Fdct9(Rows9, x), 9, 73728, 34758, a, b)
  BY <1>1, SMTT(60) DEF Spread, AtMost8, Fdct9, Rows9, Sums, Diffs
<1>3. Spread(Fdct9(Cols9, x), 9, 116505, 54924, a, b)
  BY <1>1, SMTT(60) DEF Spread, AtMost8, Fdct9, Cols9, Sums, Diffs
<1> QED
  BY <1>2, <1>3

LEMMA Spread10 ==
  ASSUME NEW a \in Nat, NEW b \in Nat, NEW x \in [0 .. 9 -> -a .. b]
  PROVE  /\ Spread(Fdct10(Rows10, x), 10, 81920, 40960, a, b)
         /\ Spread(Fdct10(Cols10, x), 10, 104860, 52430, a, b)
<1>1. \A j \in 0 .. 9 : x[j] \in Int /\ -a <= x[j] /\ x[j] <= b
  OBVIOUS
<1>2. Spread(Fdct10(Rows10, x), 10, 81920, 40960, a, b)
  BY <1>1, SMTT(60) DEF Spread, AtMost8, Fdct10, Rows10, Sums, Diffs
<1>3. Spread(Fdct10(Cols10, x), 10, 104860, 52430, a, b)
  BY <1>1, SMTT(60) DEF Spread, AtMost8, Fdct10, Cols10, Sums, Diffs
<1> QED
  BY <1>2, <1>3

LEMMA Spread11 ==
  ASSUME NEW a \in Nat, NEW b \in Nat, NEW x \in [0 .. 10 -> -a .. b]
  PROVE  /\ Spread(Fdct11(Rows11, x), 11, 90112, 40704, a, b)
         /\ Spread(Fdct11(Cols11, x), 11, 95326, 43058, a, b)
<1>1. \A j \in 0 .. 10 : x[j] \in Int /\ -a <= x[j] /\ x[j] <= b
  OBVIOUS
<1>2. Spread(Fdct11(Rows11, x), 11, 90112, 40704, a, b)
  BY <1>1, SMTT(60) DEF Spread, AtMost8, Fdct11, Rows11, Sums, Diffs
<1>3. Spread(Fdct11(Cols11, x), 11, 95326, 43058, a, b)
  BY <1>1, SMTT(60) DEF Spread, AtMost8, Fdct11, Cols11, Sums, Diffs
<1> QED
  BY <1>2, <1>3

LEMMA Spread12 ==
  ASSUME NEW a \in Nat, NEW b \in Nat, NEW x \in [0 .. 11 -> -a .. b]
  PROVE  /\ Spread(Fdct12(Rows12, x), 12, 98304, 49152, a, b)
         /\ Spread(Fdct12(Cols12, x), 12, 87384, 43692, a, b)
<1>1. \A j \in 0 .. 11 : x[j] \in Int /\ -a <= x[j] /\ x[j] <= b
  OBVIOUS
<1>2. Spread(Fdct12(Rows12, x), 12, 98304, 49152, a, b)
  BY <1>1, SMTT(60) DEF Spread, AtMost8, Fdct12, Rows12, Sums, Diffs
<1>3. Spread(Fdct12(Cols12, x), 12, 87384, 43692, a, b)
  BY <1>1, SMTT(60) DEF Spread, AtMost8, Fdct12, Cols12, Sums, Diffs
<1> QED
  BY <1>2, <1>3

LEMMA Spread13 ==
  ASSUME NEW a \in Nat, NEW b \in Nat, NEW x \in [0 .. 12 -> -a .. b]
  PROVE  /\ Spread(Fdct13(Rows13, x), 13, 106496, 48058, a, b)
         /\ Spread(Fdct13(Cols13, x), 13, 80665, 36400, a, b)
<1>1. \A j \in 0 .. 12 : x[j] \in Int /\ -a <= x[j] /\ x[j] <= b
  OBVIOUS
<1>2. Spread(Fdct13(Rows13, x), 13, 106496, 48058, a, b)
  BY <1>1, SMTT(60) DEF Spread, AtMost8, Fdct13, Rows13, Sums, Diffs
<1>3. Spread(Fdct13(Cols13, x), 13, 80665, 36400, a, b)
  BY <1>1, SMTT(60) DEF Spread, AtMost8, Fdct13, Cols13, Sums, Diffs
<1> QED
  BY <1>2, <1>3

LEMMA Spread14 ==
  ASSUME NEW a \in Nat, NEW b \in Nat, NEW x \in [0 .. 13 -> -a .. b]
  PROVE  /\ Spread(Fdct14(Rows14, x), 14, 114688, 57344, a, b)
         /\ Spread(Fdct14(Cols14, x), 14, 74900, 37450, a, b)
<1>1. \A j \in 0 .. 13 : x[j] \in Int /\ -a <= x[j] /\ x[j] <= b
  OBVIOUS
<1>2. Spread(Fdct14(Rows14, x), 14, 114688, 57344, a, b)
  BY <1>1, SMTT(60) DEF Spread, AtMost8, Fdct14, Rows14, Sums, Diffs
<1>3. Spread(Fdct14(Cols14, x), 14, 74900, 37450, a, b)
  BY <1>1, SMTT(60) DEF Spread, AtMost8, Fdct14, Cols14, Sums, Diffs
<1> QED
  BY <1>2, <1>3

LEMMA Spread15 ==
  ASSUME NEW a \in Nat, NEW b \in Nat, NEW x \in [0 .. 14 -> -a .. b]
  PROVE  /\ Spread(Fdct15(Rows15, x), 15, 122880, 59238, a, b)
         /\ Spread(Fdct15(Cols15, x), 15, 139815, 67384, a, b)
<1>1. \A j \in 0 .. 14 : x[j] \in Int /\ -a <= x[j] /\ x[j] <= b
  OBVIOUS
<1>2. Spread(Fdct15(Rows15, x), 15, 122880, 59238, a, b)
  BY <1>1, SMTT(60) DEF Spread, AtMost8, Fdct15, Rows15, Sums, Diffs
<1>3. Spread(Fdct15(Cols15, x), 15, 139815, 67384, a, b)
  BY <1>1, SMTT(60) DEF Spread, AtMost8, Fdct15, Cols15, Sums, Diffs
<1> QED
  BY <1>2, <1>3

LEMMA Spread16 ==
  ASSUME NEW a \in Nat, NEW b \in Nat, NEW x \in [0 .. 15 -> -a .. b]
  PROVE  Spread(Fdct16(Rows16, x), 16, 131072, 60544, a, b)
<1>1. \A j \in 0 .. 15 : x[j] \in Int /\ -a <= x[j] /\ x[j] <= b
  OBVIOUS
<1> QED
  BY <1>1, SMTT(60) DEF Spread, AtMost8, Fdct16, Rows16, Sums, Diffs

\* Each of the sixteen kernels, in each pass, stays within its factors.
LEMMA KernelSpread ==
  ASSUME NEW n \in 1 .. 16, NEW a \in Nat, NEW b \in Nat, NEW x \in [0 .. n - 1 -> -a .. b]
  PROVE  /\ Spread(Fdct(n, Rows[n], x), n, RowDc[n], RowAc[n], a, b)
         /\ Spread(Fdct(n, Cols[n], x), n, ColDc[n], ColAc[n], a, b)
<1>0. \A j \in 0 .. n - 1 : x[j] \in Int /\ -a <= x[j] /\ x[j] <= b
  OBVIOUS
<1>1. CASE n = 1
  BY <1>0, <1>1, SMTT(60) DEF Spread, AtMost8, Fdct, Fdct1, Rows, Cols, RowDc, RowAc,
    ColDc, ColAc
<1>2. CASE n = 2
  BY <1>0, <1>2, SMTT(60) DEF Spread, AtMost8, Fdct, Fdct2, Rows, Cols, RowDc, RowAc,
    ColDc, ColAc
<1>3. CASE n = 3
  BY <1>0, <1>3, SMTT(60) DEF Spread, AtMost8, Fdct, Fdct3, Rows, Cols, RowDc, RowAc,
    ColDc, ColAc, Rows3, Sums, Diffs, Cols3
<1>4. CASE n = 4
  BY <1>0, <1>4, SMTT(60) DEF Spread, AtMost8, Fdct, Fdct4, Rows, Cols, RowDc, RowAc,
    ColDc, ColAc, Rows4, Sums, Diffs
<1>5. CASE n = 5
  BY <1>0, <1>5, SMTT(60) DEF Spread, AtMost8, Fdct, Fdct5, Rows, Cols, RowDc, RowAc,
    ColDc, ColAc, Rows5, Sums, Diffs, Cols5
<1>6. CASE n = 6
  BY <1>0, <1>6, SMTT(60) DEF Spread, AtMost8, Fdct, Fdct6, Rows, Cols, RowDc, RowAc,
    ColDc, ColAc, Rows6, Sums, Diffs, Cols6
<1>7. CASE n = 7
  BY <1>0, <1>7, SMTT(60) DEF Spread, AtMost8, Fdct, Fdct7, Rows, Cols, RowDc, RowAc,
    ColDc, ColAc, Rows7, Sums, Diffs, Cols7
<1>8. CASE n = 8
  BY <1>0, <1>8, SMTT(60) DEF Spread, AtMost8, Fdct, Fdct8, Rows, Cols, RowDc, RowAc,
    ColDc, ColAc, Rows8, Sums, Diffs
<1>9. CASE n = 9
  BY <1>9, Spread9, SMT DEF Fdct, Rows, Cols, RowDc, RowAc, ColDc, ColAc
<1>10. CASE n = 10
  BY <1>10, Spread10, SMT DEF Fdct, Rows, Cols, RowDc, RowAc, ColDc, ColAc
<1>11. CASE n = 11
  BY <1>11, Spread11, SMT DEF Fdct, Rows, Cols, RowDc, RowAc, ColDc, ColAc
<1>12. CASE n = 12
  BY <1>12, Spread12, SMT DEF Fdct, Rows, Cols, RowDc, RowAc, ColDc, ColAc
<1>13. CASE n = 13
  BY <1>13, Spread13, SMT DEF Fdct, Rows, Cols, RowDc, RowAc, ColDc, ColAc
<1>14. CASE n = 14
  BY <1>14, Spread14, SMT DEF Fdct, Rows, Cols, RowDc, RowAc, ColDc, ColAc
<1>15. CASE n = 15
  BY <1>15, Spread15, SMT DEF Fdct, Rows, Cols, RowDc, RowAc, ColDc, ColAc
<1>16. CASE n = 16
  BY <1>16, Spread16, SMT DEF Fdct, Rows, Cols, RowDc, RowAc, ColDc, ColAc
<1> QED
  BY <1>1, <1>2, <1>3, <1>4, <1>5, <1>6, <1>7, <1>8, <1>9, <1>10, <1>11, <1>12, <1>13,
    <1>14, <1>15, <1>16

-----------------------------------------------------------------------------
(* One pass                                                                *)

\* The rounding shift is monotonic, and odd up to a tie.
LEMMA DescaleBetween ==
  ASSUME NEW n \in 7 .. 17, NEW lo \in Nat, NEW hi \in Nat, NEW x \in -lo .. hi
  PROVE  /\ DESCALE(lo, n) \in Nat
         /\ DESCALE(hi, n) \in Nat
         /\ DESCALE(x, n) \in -DESCALE(lo, n) .. DESCALE(hi, n)
<1>7. CASE n = 7
  BY <1>7 DEF DESCALE
<1>8. CASE n = 8
  BY <1>8 DEF DESCALE
<1>9. CASE n = 9
  BY <1>9 DEF DESCALE
<1>10. CASE n = 10
  BY <1>10 DEF DESCALE
<1>11. CASE n = 11
  BY <1>11 DEF DESCALE
<1>12. CASE n = 12
  BY <1>12 DEF DESCALE
<1>13. CASE n = 13
  BY <1>13 DEF DESCALE
<1>14. CASE n = 14
  BY <1>14 DEF DESCALE
<1>15. CASE n = 15
  BY <1>15 DEF DESCALE
<1>16. CASE n = 16
  BY <1>16 DEF DESCALE
<1>17. CASE n = 17
  BY <1>17 DEF DESCALE
<1> QED
  BY <1>7,<1>8,<1>9,<1>10,<1>11,<1>12,<1>13,<1>14,<1>15,<1>16,<1>17

LEMMA DescaleNat == ASSUME NEW k \in Nat, NEW n \in 7 .. 17 PROVE DESCALE(k, n) \in Nat
<1>1. 0 \in -k .. k
  OBVIOUS
<1> QED
  BY <1>1, DescaleBetween

LEMMA TablesNat ==
  \A n \in 1 .. 16 :
    RowDc[n] \in Nat /\ RowAc[n] \in Nat /\ ColDc[n] \in Nat /\ ColAc[n] \in Nat
  BY SMT DEF RowDc, RowAc, ColDc, ColAc

\* A pass: a kernel and its shift.
LEMMA PassSpread ==
  ASSUME NEW n \in 1 .. 16, NEW shift \in 7 .. 17, NEW y,
         NEW dc \in Nat, NEW ac \in Nat, NEW a \in Nat, NEW b \in Nat,
         Spread(y, n, dc, ac, a, b)
  PROVE  /\ Descaled(y, shift)[1] \in -DESCALE(dc * a, shift) .. DESCALE(dc * b, shift)
         /\ \A k \in 2 .. AtMost8(n) :
              Descaled(y, shift)[k] \in -DESCALE(ac * (a + b), shift) .. DESCALE(ac * (a + b), shift)
<1>1. AtMost8(n) \in 1 .. 8
  BY DEF AtMost8
<1>2. \A k \in 1 .. AtMost8(n) : Descaled(y, shift)[k] = DESCALE(y[k], shift)
  BY DEF Descaled, Spread
<1>3. dc * a \in Nat /\ dc * b \in Nat /\ ac * (a + b) \in Nat
  OBVIOUS
<1>4. y[1] \in -(dc * a) .. dc * b
  BY DEF Spread
<1>5. DESCALE(y[1], shift) \in -DESCALE(dc * a, shift) .. DESCALE(dc * b, shift)
  BY <1>3, <1>4, DescaleBetween
<1>6. ASSUME NEW k \in 2 .. AtMost8(n)
      PROVE  DESCALE(y[k], shift) \in -DESCALE(ac * (a + b), shift) .. DESCALE(ac * (a + b), shift)
  <2>1. y[k] \in -(ac * (a + b)) .. ac * (a + b)
    BY <1>6 DEF Spread
  <2> QED
    BY <1>3, <2>1, DescaleBetween
<1>7. \A k \in 2 .. AtMost8(n) : k \in 1 .. AtMost8(n)
  BY <1>1
<1>8. 1 \in 1 .. AtMost8(n)
  BY <1>1
<1> QED
  BY <1>2, <1>5, <1>6, <1>7, <1>8

\* A column of samples between -lo and hi, after the second pass.
LEMMA ColumnSpread ==
  ASSUME NEW n \in 1 .. 16, NEW shift \in 7 .. 17, NEW lo \in Nat, NEW hi \in Nat,
         NEW x \in [0 .. n - 1 -> -lo .. hi], NEW v \in 0 .. 7, v < n
  PROVE  LET y == Descaled(Fdct(n, Cols[n], x), shift)[v + 1]
             l == DESCALE(ColDc[n] * lo, shift)
             m == DESCALE(ColDc[n] * hi, shift)
             k == DESCALE(ColAc[n] * (lo + hi), shift)
         IN  /\ l \in Nat /\ m \in Nat /\ k \in Nat
             /\ v = 0 => y \in -l .. m
             /\ v > 0 => y \in -k .. k
<1> DEFINE y == Descaled(Fdct(n, Cols[n], x), shift)
<1>1. ColDc[n] \in Nat /\ ColAc[n] \in Nat
  BY TablesNat
<1>2. ColDc[n] * lo \in Nat /\ ColDc[n] * hi \in Nat /\ ColAc[n] * (lo + hi) \in Nat
  <2>1. lo + hi \in Nat
    OBVIOUS
  <2> QED
    BY <1>1, <2>1
<1>3. Spread(Fdct(n, Cols[n], x), n, ColDc[n], ColAc[n], lo, hi)
  BY KernelSpread
<1> HIDE DEF y
<1>4. /\ y[1] \in -DESCALE(ColDc[n] * lo, shift) .. DESCALE(ColDc[n] * hi, shift)
      /\ \A k \in 2 .. AtMost8(n) :
           y[k] \in -DESCALE(ColAc[n] * (lo + hi), shift) .. DESCALE(ColAc[n] * (lo + hi), shift)
  BY <1>1, <1>3, PassSpread DEF y
<1>5. v > 0 => v + 1 \in 2 .. AtMost8(n)
  BY DEF AtMost8
<1>6. /\ DESCALE(ColDc[n] * lo, shift) \in Nat
      /\ DESCALE(ColDc[n] * hi, shift) \in Nat
      /\ DESCALE(ColAc[n] * (lo + hi), shift) \in Nat
  BY <1>2, DescaleNat
<1>7. v = 0 => v + 1 = 1
  OBVIOUS
<1> QED
  BY <1>4, <1>5, <1>6, <1>7 DEF y

-----------------------------------------------------------------------------
(* Both passes                                                             *)

\* Forward without its memory of what TLC has already computed.
FirstPass(f, s) ==
  [r \in 0 .. f.h - 1 |-> Descaled(Fdct(f.w, Rows[f.w], s[r]), f.row)]
SecondPass(f, s, u) ==
  Descaled(Fdct(f.h, Cols[f.h], [r \in 0 .. f.h - 1 |-> FirstPass(f, s)[r][u + 1]]), f.col)

LEMMA ForwardPasses ==
  ASSUME NEW f, f.w \in 1 .. 16, f.h \in 1 .. 16, NEW s, NEW v \in 0 .. 7, NEW u \in 0 .. 7
  PROVE  Forward(f, s)[v][u] =
           IF u < f.w /\ v < f.h THEN SecondPass(f, s, u)[v + 1] ELSE 0
<1> DEFINE Row(r) == Descaled(Fdct(f.w, Rows[f.w], s[r]), f.row)
           rows == ListOf(f.h, Row)
           Out(c) == Descaled(Fdct(f.h, Cols[f.h], [r \in 0 .. f.h - 1 |-> rows[r + 1][c + 1]]), f.col)
           cols == ListOf(AtMost8(f.w), Out)
<1>1. \A r \in 0 .. f.h - 1 : rows[r + 1] = Row(r)
  BY DEF ListOf
<1>2. [r \in 0 .. f.h - 1 |-> rows[r + 1][u + 1]] = [r \in 0 .. f.h - 1 |-> FirstPass(f, s)[r][u + 1]]
  BY <1>1 DEF FirstPass
<1>3. AtMost8(f.w) \in Nat /\ (u < f.w => u < AtMost8(f.w))
  BY DEF AtMost8
<1>4. u < f.w => cols[u + 1] = Out(u)
  <2> HIDE DEF Out
  <2>1. cols = [k \in 1 .. AtMost8(f.w) |-> Out(k - 1)]
    BY <1>3 DEF ListOf
  <2>2. u < f.w => u + 1 \in 1 .. AtMost8(f.w)
    BY <1>3
  <2>3. (u + 1) - 1 = u
    OBVIOUS
  <2> QED
    BY <2>1, <2>2, <2>3
<1>5. Out(u) = SecondPass(f, s, u)
  BY <1>2 DEF SecondPass
<1>6. Forward(f, s)[v][u] = IF u < f.w /\ v < f.h THEN cols[u + 1][v + 1] ELSE 0
  BY DEF Forward
<1> QED
  BY <1>4, <1>5, <1>6

\* With samples between -128 and 127, the two passes of f leave at most 8187, which
\* no quantizer makes a coefficient of more than 1023; the DC term of samples that
\* are all -128 may be -8195 and no coefficient beyond -1024.
Fits(f) ==
  LET lo == DESCALE(RowDc[f.w] * 128, f.row)
      hi == DESCALE(RowDc[f.w] * 127, f.row)
      ac == DESCALE(RowAc[f.w] * 255, f.row)
  IN  /\ DESCALE(ColDc[f.h] * lo, f.col) <= 8195
      /\ DESCALE(ColDc[f.h] * hi, f.col) <= 8187
      /\ DESCALE(ColAc[f.h] * (lo + hi), f.col) <= 8187
      /\ DESCALE(ColDc[f.h] * ac, f.col) <= 8187
      /\ DESCALE(ColAc[f.h] * (ac + ac), f.col) <= 8187
Of(f, w, h) ==
  /\ f.w = w /\ f.h = h
  /\ f.row \in 7 .. 17 /\ f.col \in 7 .. 17
  /\ Fits(f)

\* The arithmetic of all 32 functions.
LEMMA SizesFit == \A sz \in ScaledSizes : Of(do_dct(sz), sz[1], sz[2])
<1>1. /\ Of(do_dct(<<1, 1>>), 1, 1) /\ Of(do_dct(<<2, 2>>), 2, 2)
      /\ Of(do_dct(<<3, 3>>), 3, 3) /\ Of(do_dct(<<4, 4>>), 4, 4)
  <2>1. /\ do_dct(<<1, 1>>) = jpeg_fdct_1x1 /\ do_dct(<<2, 2>>) = jpeg_fdct_2x2
        /\ do_dct(<<3, 3>>) = jpeg_fdct_3x3 /\ do_dct(<<4, 4>>) = jpeg_fdct_4x4
    BY SMT DEF do_dct
  <2>2. /\ Of(jpeg_fdct_1x1, 1, 1) /\ Of(jpeg_fdct_2x2, 2, 2)
        /\ Of(jpeg_fdct_3x3, 3, 3) /\ Of(jpeg_fdct_4x4, 4, 4)
    BY SMT DEF Of, Fits, RowDc, RowAc, ColDc, ColAc, DESCALE, jpeg_fdct_1x1,
      jpeg_fdct_2x2, jpeg_fdct_3x3, jpeg_fdct_4x4
  <2> QED
    BY <2>1, <2>2
<1>2. /\ Of(do_dct(<<5, 5>>), 5, 5) /\ Of(do_dct(<<6, 6>>), 6, 6)
      /\ Of(do_dct(<<7, 7>>), 7, 7) /\ Of(do_dct(<<8, 8>>), 8, 8)
  <2>1. /\ do_dct(<<5, 5>>) = jpeg_fdct_5x5 /\ do_dct(<<6, 6>>) = jpeg_fdct_6x6
        /\ do_dct(<<7, 7>>) = jpeg_fdct_7x7 /\ do_dct(<<8, 8>>) = jpeg_fdct_islow
    BY SMT DEF do_dct
  <2>2. /\ Of(jpeg_fdct_5x5, 5, 5) /\ Of(jpeg_fdct_6x6, 6, 6)
        /\ Of(jpeg_fdct_7x7, 7, 7) /\ Of(jpeg_fdct_islow, 8, 8)
    BY SMT DEF Of, Fits, RowDc, RowAc, ColDc, ColAc, DESCALE, jpeg_fdct_5x5,
      jpeg_fdct_6x6, jpeg_fdct_7x7, jpeg_fdct_islow
  <2> QED
    BY <2>1, <2>2
<1>3. /\ Of(do_dct(<<9, 9>>), 9, 9) /\ Of(do_dct(<<10, 10>>), 10, 10)
      /\ Of(do_dct(<<11, 11>>), 11, 11) /\ Of(do_dct(<<12, 12>>), 12, 12)
  <2>1. /\ do_dct(<<9, 9>>) = jpeg_fdct_9x9 /\ do_dct(<<10, 10>>) = jpeg_fdct_10x10
        /\ do_dct(<<11, 11>>) = jpeg_fdct_11x11 /\ do_dct(<<12, 12>>) = jpeg_fdct_12x12
    BY SMT DEF do_dct
  <2>2. /\ Of(jpeg_fdct_9x9, 9, 9) /\ Of(jpeg_fdct_10x10, 10, 10)
        /\ Of(jpeg_fdct_11x11, 11, 11) /\ Of(jpeg_fdct_12x12, 12, 12)
    BY SMT DEF Of, Fits, RowDc, RowAc, ColDc, ColAc, DESCALE, jpeg_fdct_9x9,
      jpeg_fdct_10x10, jpeg_fdct_11x11, jpeg_fdct_12x12
  <2> QED
    BY <2>1, <2>2
<1>4. /\ Of(do_dct(<<13, 13>>), 13, 13) /\ Of(do_dct(<<14, 14>>), 14, 14)
      /\ Of(do_dct(<<15, 15>>), 15, 15) /\ Of(do_dct(<<16, 16>>), 16, 16)
  <2>1. /\ do_dct(<<13, 13>>) = jpeg_fdct_13x13 /\ do_dct(<<14, 14>>) = jpeg_fdct_14x14
        /\ do_dct(<<15, 15>>) = jpeg_fdct_15x15 /\ do_dct(<<16, 16>>) = jpeg_fdct_16x16
    BY SMT DEF do_dct
  <2>2. /\ Of(jpeg_fdct_13x13, 13, 13) /\ Of(jpeg_fdct_14x14, 14, 14)
        /\ Of(jpeg_fdct_15x15, 15, 15) /\ Of(jpeg_fdct_16x16, 16, 16)
    BY SMT DEF Of, Fits, RowDc, RowAc, ColDc, ColAc, DESCALE, jpeg_fdct_13x13,
      jpeg_fdct_14x14, jpeg_fdct_15x15, jpeg_fdct_16x16
  <2> QED
    BY <2>1, <2>2
<1>5. /\ Of(do_dct(<<2, 1>>), 2, 1) /\ Of(do_dct(<<4, 2>>), 4, 2)
      /\ Of(do_dct(<<6, 3>>), 6, 3) /\ Of(do_dct(<<8, 4>>), 8, 4)
  <2>1. /\ do_dct(<<2, 1>>) = jpeg_fdct_2x1 /\ do_dct(<<4, 2>>) = jpeg_fdct_4x2
        /\ do_dct(<<6, 3>>) = jpeg_fdct_6x3 /\ do_dct(<<8, 4>>) = jpeg_fdct_8x4
    BY SMT DEF do_dct
  <2>2. /\ Of(jpeg_fdct_2x1, 2, 1) /\ Of(jpeg_fdct_4x2, 4, 2)
        /\ Of(jpeg_fdct_6x3, 6, 3) /\ Of(jpeg_fdct_8x4, 8, 4)
    BY SMT DEF Of, Fits, RowDc, RowAc, ColDc, ColAc, DESCALE, jpeg_fdct_2x1,
      jpeg_fdct_4x2, jpeg_fdct_6x3, jpeg_fdct_8x4
  <2> QED
    BY <2>1, <2>2
<1>6. /\ Of(do_dct(<<10, 5>>), 10, 5) /\ Of(do_dct(<<12, 6>>), 12, 6)
      /\ Of(do_dct(<<14, 7>>), 14, 7) /\ Of(do_dct(<<16, 8>>), 16, 8)
  <2>1. /\ do_dct(<<10, 5>>) = jpeg_fdct_10x5 /\ do_dct(<<12, 6>>) = jpeg_fdct_12x6
        /\ do_dct(<<14, 7>>) = jpeg_fdct_14x7 /\ do_dct(<<16, 8>>) = jpeg_fdct_16x8
    BY SMT DEF do_dct
  <2>2. /\ Of(jpeg_fdct_10x5, 10, 5) /\ Of(jpeg_fdct_12x6, 12, 6)
        /\ Of(jpeg_fdct_14x7, 14, 7) /\ Of(jpeg_fdct_16x8, 16, 8)
    BY SMT DEF Of, Fits, RowDc, RowAc, ColDc, ColAc, DESCALE, jpeg_fdct_10x5,
      jpeg_fdct_12x6, jpeg_fdct_14x7, jpeg_fdct_16x8
  <2> QED
    BY <2>1, <2>2
<1>7. /\ Of(do_dct(<<1, 2>>), 1, 2) /\ Of(do_dct(<<2, 4>>), 2, 4)
      /\ Of(do_dct(<<3, 6>>), 3, 6) /\ Of(do_dct(<<4, 8>>), 4, 8)
  <2>1. /\ do_dct(<<1, 2>>) = jpeg_fdct_1x2 /\ do_dct(<<2, 4>>) = jpeg_fdct_2x4
        /\ do_dct(<<3, 6>>) = jpeg_fdct_3x6 /\ do_dct(<<4, 8>>) = jpeg_fdct_4x8
    BY SMT DEF do_dct
  <2>2. /\ Of(jpeg_fdct_1x2, 1, 2) /\ Of(jpeg_fdct_2x4, 2, 4)
        /\ Of(jpeg_fdct_3x6, 3, 6) /\ Of(jpeg_fdct_4x8, 4, 8)
    BY SMT DEF Of, Fits, RowDc, RowAc, ColDc, ColAc, DESCALE, jpeg_fdct_1x2,
      jpeg_fdct_2x4, jpeg_fdct_3x6, jpeg_fdct_4x8
  <2> QED
    BY <2>1, <2>2
<1>8. /\ Of(do_dct(<<5, 10>>), 5, 10) /\ Of(do_dct(<<6, 12>>), 6, 12)
      /\ Of(do_dct(<<7, 14>>), 7, 14) /\ Of(do_dct(<<8, 16>>), 8, 16)
  <2>1. /\ do_dct(<<5, 10>>) = jpeg_fdct_5x10 /\ do_dct(<<6, 12>>) = jpeg_fdct_6x12
        /\ do_dct(<<7, 14>>) = jpeg_fdct_7x14 /\ do_dct(<<8, 16>>) = jpeg_fdct_8x16
    BY SMT DEF do_dct
  <2>2. /\ Of(jpeg_fdct_5x10, 5, 10) /\ Of(jpeg_fdct_6x12, 6, 12)
        /\ Of(jpeg_fdct_7x14, 7, 14) /\ Of(jpeg_fdct_8x16, 8, 16)
    BY SMT DEF Of, Fits, RowDc, RowAc, ColDc, ColAc, DESCALE, jpeg_fdct_5x10,
      jpeg_fdct_6x12, jpeg_fdct_7x14, jpeg_fdct_8x16
  <2> QED
    BY <2>1, <2>2
<1>9. ASSUME NEW n \in 1 .. 16 PROVE Of(do_dct(<<n, n>>), n, n)
  BY <1>1, <1>2, <1>3, <1>4
<1>10. ASSUME NEW n \in 1 .. 8 PROVE Of(do_dct(<<2 * n, n>>), 2 * n, n)
  BY <1>5, <1>6
<1>11. ASSUME NEW n \in 1 .. 8 PROVE Of(do_dct(<<n, 2 * n>>), n, 2 * n)
  BY <1>7, <1>8
<1> QED
  BY <1>9, <1>10, <1>11 DEF ScaledSizes

Confined(t, v, u) ==
  /\ t <= 8187 /\ -8195 <= t
  /\ <<v, u>> # <<0, 0>> => -8187 <= t

\* What the workspace may hold, for any samples.
LEMMA ForwardFits ==
  ASSUME NEW f, NEW w \in 1 .. 16, NEW h \in 1 .. 16, Of(f, w, h),
         NEW s \in BlocksOf(w, h),
         NEW v \in 0 .. 7, NEW u \in 0 .. 7
  PROVE  /\ Forward(f, s)[v][u] \in Int
         /\ Confined(Forward(f, s)[v][u], v, u)
<1> DEFINE a == 128
           b == 127
           lo == DESCALE(RowDc[w] * a, f.row)
           hi == DESCALE(RowDc[w] * b, f.row)
           ac == DESCALE(RowAc[w] * (a + b), f.row)
           row(r) == FirstPass(f, s)[r]
           column(c) == [r \in 0 .. h - 1 |-> row(r)[c + 1]]
           out == SecondPass(f, s, u)
<1>1. /\ f.w = w /\ f.h = h /\ f.row \in 7 .. 17 /\ f.col \in 7 .. 17
  BY DEF Of
<1>2. /\ RowDc[w] \in Nat /\ RowAc[w] \in Nat /\ ColDc[h] \in Nat /\ ColAc[h] \in Nat
  BY TablesNat
<1>3. /\ DESCALE(ColDc[h] * lo, f.col) <= 8195
      /\ DESCALE(ColDc[h] * hi, f.col) <= 8187
      /\ DESCALE(ColAc[h] * (lo + hi), f.col) <= 8187
      /\ DESCALE(ColDc[h] * ac, f.col) <= 8187
      /\ DESCALE(ColAc[h] * (ac + ac), f.col) <= 8187
  BY <1>1 DEF Of, Fits
<1>4. a \in Nat /\ b \in Nat
  OBVIOUS
<1>5. s \in [0 .. h - 1 -> [0 .. w - 1 -> -a .. b]]
  BY DEF BlocksOf, Samples
<1> HIDE DEF a, b
<1>6. /\ RowDc[w] * a \in Nat /\ RowDc[w] * b \in Nat /\ RowAc[w] * (a + b) \in Nat
  BY <1>2, <1>4
<1>7. lo \in Nat /\ hi \in Nat /\ ac \in Nat
  BY <1>1, <1>6, DescaleNat
<1>8. ASSUME NEW r \in 0 .. h - 1
      PROVE  /\ row(r)[1] \in -lo .. hi
             /\ \A k \in 2 .. AtMost8(w) : row(r)[k] \in -ac .. ac
  <2>1. s[r] \in [0 .. w - 1 -> -a .. b]
    BY <1>5
  <2>2. Spread(Fdct(w, Rows[w], s[r]), w, RowDc[w], RowAc[w], a, b)
    BY <1>4, <2>1, KernelSpread
  <2>3. row(r) = Descaled(Fdct(w, Rows[w], s[r]), f.row)
    BY <1>1 DEF FirstPass
  <2> HIDE DEF row
  <2> QED
    BY <1>1, <1>2, <1>4, <2>2, <2>3, PassSpread
<1> HIDE DEF row
<1>9. out = Descaled(Fdct(h, Cols[h], column(u)), f.col)
  BY <1>1 DEF SecondPass, row
<1>10. CASE ~(u < w /\ v < h)
  <2>1. Forward(f, s)[v][u] = 0
    BY <1>1, <1>10, ForwardPasses
  <2> QED
    BY <2>1 DEF Confined
<1> HIDE DEF lo, hi, ac
<1>11. CASE u < w /\ v < h
  <2>1. Forward(f, s)[v][u] = out[v + 1]
    BY <1>1, <1>11, ForwardPasses
  <2> HIDE DEF out
  <2>2. CASE u = 0
    <3> DEFINE l == DESCALE(ColDc[h] * lo, f.col)
               m == DESCALE(ColDc[h] * hi, f.col)
               k == DESCALE(ColAc[h] * (lo + hi), f.col)
    <3>1. column(u) \in [0 .. h - 1 -> -lo .. hi]
      BY <1>8, <2>2
    <3> HIDE DEF column
    <3>2. /\ l \in Nat /\ m \in Nat /\ k \in Nat
          /\ v = 0 => out[v + 1] \in -l .. m
          /\ v > 0 => out[v + 1] \in -k .. k
      BY <1>1, <1>7, <1>9, <1>11, <3>1, ColumnSpread
    <3>3. l <= 8195 /\ m <= 8187 /\ k <= 8187
      BY <1>3
    <3> HIDE DEF l, m, k
    <3> QED
      BY <2>1, <2>2, <3>2, <3>3 DEF Confined
  <2>3. CASE u > 0
    <3> DEFINE l == DESCALE(ColDc[h] * ac, f.col)
               k == DESCALE(ColAc[h] * (ac + ac), f.col)
    <3>1. column(u) \in [0 .. h - 1 -> -ac .. ac]
      BY <1>7, <1>8, <1>11, <2>3 DEF AtMost8
    <3> HIDE DEF column
    <3>2. /\ l \in Nat /\ k \in Nat
          /\ v = 0 => out[v + 1] \in -l .. l
          /\ v > 0 => out[v + 1] \in -k .. k
      BY <1>1, <1>7, <1>9, <1>11, <3>1, ColumnSpread
    <3>3. l <= 8187 /\ k <= 8187
      BY <1>3
    <3> HIDE DEF l, k
    <3> QED
      BY <2>1, <3>2, <3>3 DEF Confined
  <2> QED
    BY <2>2, <2>3
<1> QED
  BY <1>10, <1>11

-----------------------------------------------------------------------------
(* Quantization                                                            *)

\* As far from 0 as 8m + 3 and no farther.
Reach(t, m) == -(8 * m + 3) <= t /\ t <= 8 * m + 3

LEMMA QuotientBelow ==
  ASSUME NEW t \in Nat, NEW q \in Nat \ {0}, NEW m \in Nat, t <= 8 * m + 3
  PROVE  (t + (q * 8) \div 2) \div (q * 8) \in 0 .. m
<1> DEFINE d == q * 8
           k == (t + d \div 2) \div d
<1>1. d \div 2 = 4 * q
  OBVIOUS
<1>2. k \in Nat /\ d * k <= t + 4 * q
  BY <1>1
<1>3. ASSUME k >= m + 1 PROVE FALSE
  <2>1. q * k >= q * (m + 1)
    BY <1>2, <1>3
  <2>2. q * m >= m
    OBVIOUS
  <2> QED
    BY <1>2, <2>1, <2>2
<1> QED
  BY <1>2, <1>3

LEMMA QuantizedFits ==
  ASSUME NEW t \in Int, NEW q \in Nat \ {0}, NEW m \in Nat, Reach(t, m)
  PROVE  /\ Quantized(t, Divisor(q)) \in Int
         /\ -m <= Quantized(t, Divisor(q))
         /\ Quantized(t, Divisor(q)) <= IF t < 0 THEN 0 ELSE m
<1> DEFINE magnitude(a) == (a + (q * 8) \div 2) \div (q * 8)
<1>1. \A a \in Nat : a <= 8 * m + 3 => magnitude(a) \in 0 .. m
  BY QuotientBelow
<1>2. Quantized(t, Divisor(q)) = IF t < 0 THEN -magnitude(-t) ELSE magnitude(t)
  BY DEF Quantized, Divisor
<1> HIDE DEF magnitude
<1> QED
  BY <1>1, <1>2 DEF Reach

\* At the negative end, one more may come out.
LEMMA EntryWithin ==
  ASSUME NEW t \in Int, NEW q \in Nat \ {0}, NEW m \in Nat, Reach(t, m + 1), t <= 8 * m + 3
  PROVE  /\ Quantized(t, Divisor(q)) \in Int
         /\ -(m + 1) <= Quantized(t, Divisor(q)) /\ Quantized(t, Divisor(q)) <= m
         /\ Reach(t, m) => -m <= Quantized(t, Divisor(q))
<1> DEFINE n == m + 1
           e == Quantized(t, Divisor(q))
<1>1. n \in Nat
  OBVIOUS
<1>2. e \in Int /\ -n <= e /\ e <= IF t < 0 THEN 0 ELSE n
  BY <1>1, QuantizedFits
<1>3. Reach(t, m) => -m <= e /\ e <= IF t < 0 THEN 0 ELSE m
  BY QuantizedFits
<1> HIDE DEF e
<1>4. t >= 0 => Reach(t, m)
  BY DEF Reach
<1> QED
  BY <1>2, <1>3, <1>4 DEF e

Encodable(c) ==
  /\ -1024 <= c[0][0]
  /\ \A v, u \in 0 .. 7 :
       /\ c[v][u] <= 1023
       /\ <<v, u>> # <<0, 0>> => -1023 <= c[v][u]

\* What forward_DCT leaves to the entropy coder, whatever the samples and the table.
LEMMA EncodedFits ==
  ASSUME NEW sz \in ScaledSizes, NEW s \in BlocksOf(sz[1], sz[2]), NEW q \in Quantizers
  PROVE  LET c == forward_DCT(Forward(do_dct(sz), s), q)
         IN  c \in Matrices /\ Encodable(c)
<1> DEFINE w == sz[1]
           h == sz[2]
           f == do_dct(sz)
           out == Forward(f, s)
           entry(v, u) == Quantized(out[v][u], Divisor(q[v][u]))
           c == forward_DCT(out, q)
<1>1. w \in 1 .. 16 /\ h \in 1 .. 16
  BY DEF ScaledSizes
<1>2. Of(f, w, h) /\ s \in BlocksOf(w, h)
  BY SizesFit
<1> HIDE DEF w, h, f
<1>3. ASSUME NEW v \in 0 .. 7, NEW u \in 0 .. 7
      PROVE  /\ entry(v, u) \in Int
             /\ -1024 <= entry(v, u) /\ entry(v, u) <= 1023
             /\ <<v, u>> # <<0, 0>> => -1023 <= entry(v, u)
  <2> DEFINE t == out[v][u]
             d == q[v][u]
             m == 1023
  <2>1. d \in Nat \ {0}
    BY DEF Quantizers
  <2>2. t \in Int /\ Confined(t, v, u)
    BY <1>1, <1>2, ForwardFits
  <2>3. entry(v, u) = Quantized(t, Divisor(d))
    OBVIOUS
  <2> HIDE DEF t, d, entry
  <2>4. /\ m \in Nat /\ Reach(t, m + 1) /\ t <= 8 * m + 3
        /\ <<v, u>> # <<0, 0>> => Reach(t, m)
    BY <2>2 DEF Confined, Reach
  <2> HIDE DEF m
  <2>5. /\ entry(v, u) \in Int /\ -(m + 1) <= entry(v, u) /\ entry(v, u) <= m
        /\ Reach(t, m) => -m <= entry(v, u)
    BY <2>1, <2>2, <2>3, <2>4, EntryWithin
  <2> QED
    BY <2>4, <2>5 DEF m
<1>4. c = [v \in 0 .. 7 |-> [u \in 0 .. 7 |-> entry(v, u)]]
  BY DEF forward_DCT
<1> HIDE DEF entry, c
<1>5. c \in Matrices
  <2>1. \A v, u \in 0 .. 7 : entry(v, u) \in Int
    BY <1>3
  <2> QED
    BY <1>4, <2>1 DEF Matrices
<1>6. \A v, u \in 0 .. 7 : c[v][u] = entry(v, u)
  BY <1>4
<1>7. Encodable(c)
  BY <1>3, <1>6 DEF Encodable
<1> QED
  BY <1>5, <1>7 DEF c, f

-----------------------------------------------------------------------------
(* The inverse transforms: samples come out, whatever goes in              *)

Whole(y, n) == Len(y) = n /\ \A k \in 1 .. n : y[k] \in Int

LEMMA IdctWhole ==
  ASSUME NEW n \in 1 .. 16, NEW x \in [0 .. AtMost8(n) - 1 -> Int]
  PROVE  Whole(Idct(n, x), n)
<1>0. \A k \in 0 .. AtMost8(n) - 1 : x[k] \in Int
  OBVIOUS
<1>1. CASE n = 1
  BY <1>0, <1>1, SMTT(60) DEF Whole, AtMost8, Idct, Idct1
<1>2. CASE n = 2
  BY <1>0, <1>2, SMTT(60) DEF Whole, AtMost8, Idct, Idct2
<1>3. CASE n = 3
  BY <1>0, <1>3, SMTT(60) DEF Whole, AtMost8, Idct, Idct3, Mirror
<1>4. CASE n = 4
  BY <1>0, <1>4, SMTT(60) DEF Whole, AtMost8, Idct, Idct4, Mirror
<1>5. CASE n = 5
  BY <1>0, <1>5, SMTT(60) DEF Whole, AtMost8, Idct, Idct5, Mirror
<1>6. CASE n = 6
  BY <1>0, <1>6, SMTT(60) DEF Whole, AtMost8, Idct, Idct6, Mirror
<1>7. CASE n = 7
  BY <1>0, <1>7, SMTT(60) DEF Whole, AtMost8, Idct, Idct7, Mirror
<1>8. CASE n = 8
  BY <1>0, <1>8, SMTT(60) DEF Whole, AtMost8, Idct, Idct8, Mirror
<1>9. CASE n = 9
  BY <1>0, <1>9, SMTT(60) DEF Whole, AtMost8, Idct, Idct9, Mirror
<1>10. CASE n = 10
  BY <1>0, <1>10, SMTT(60) DEF Whole, AtMost8, Idct, Idct10, Mirror
<1>11. CASE n = 11
  BY <1>0, <1>11, SMTT(60) DEF Whole, AtMost8, Idct, Idct11, Mirror
<1>12. CASE n = 12
  BY <1>0, <1>12, SMTT(60) DEF Whole, AtMost8, Idct, Idct12, Mirror
<1>13. CASE n = 13
  BY <1>0, <1>13, SMTT(60) DEF Whole, AtMost8, Idct, Idct13, Mirror
<1>14. CASE n = 14
  BY <1>0, <1>14, SMTT(60) DEF Whole, AtMost8, Idct, Idct14, Mirror
<1>15. CASE n = 15
  BY <1>0, <1>15, SMTT(60) DEF Whole, AtMost8, Idct, Idct15, Mirror
<1>16. CASE n = 16
  BY <1>0, <1>16, SMTT(60) DEF Whole, AtMost8, Idct, Idct16, Mirror
<1> QED
  BY <1>1, <1>2, <1>3, <1>4, <1>5, <1>6, <1>7, <1>8, <1>9, <1>10, <1>11, <1>12, <1>13,
    <1>14, <1>15, <1>16

LEMMA DescaleWhole ==
  ASSUME NEW n \in 1 .. 16, NEW y, Whole(y, n), NEW shift \in {0, 3, 11, 16, 18}
  PROVE  Whole(Descaled(y, shift), n)
<1>1. ASSUME NEW z \in Int PROVE DESCALE(z, shift) \in Int
  <2>1. CASE shift = 0
    BY <2>1 DEF DESCALE
  <2>2. CASE shift = 3
    BY <2>2 DEF DESCALE
  <2>3. CASE shift = 11
    BY <2>3 DEF DESCALE
  <2>4. CASE shift = 16
    BY <2>4 DEF DESCALE
  <2>5. CASE shift = 18
    BY <2>5 DEF DESCALE
  <2> QED
    BY <2>1, <2>2, <2>3, <2>4, <2>5
<1> QED
  BY <1>1 DEF Whole, Descaled

LEMMA Idct4Whole ==
  ASSUME NEW x, \A k \in 0 .. 3 : x[k] \in Int
  PROVE  Idct4(x)[1] \in Int /\ Idct4(x)[2] \in Int
  BY SMT DEF Idct4, Mirror

LEMMA Mirror4Whole ==
  ASSUME NEW a \in Int, NEW b \in Int, NEW c \in Int, NEW d \in Int
  PROVE  Whole(Mirror(4, << a, b >>, << c, d >>), 4)
  BY DEF Whole, Mirror

LEMMA ColumnWhole ==
  ASSUME NEW n \in 1 .. 16, NEW x \in [0 .. AtMost8(n) - 1 -> Int], NEW shift \in {0, 11}
  PROVE  Whole(Column(n, shift, x), n)
<1>1. CASE n = 4 /\ shift > 0
  <2> DEFINE odds == [k \in 0 .. 3 |-> IF k % 2 = 1 THEN x[k] ELSE 0]
  <2>1. odds \in [0 .. 3 -> Int] /\ x \in [0 .. 3 -> Int]
    BY <1>1 DEF AtMost8
  <2> HIDE DEF odds
  <2>2. Idct4(odds)[1] \in Int /\ Idct4(odds)[2] \in Int
    <3>1. \A k \in 0 .. 3 : odds[k] \in Int
      BY <2>1
    <3> QED
      BY <3>1, Idct4Whole
  <2>3. DESCALE(Idct4(odds)[1], 11) \in Int /\ DESCALE(Idct4(odds)[2], 11) \in Int
    BY <2>2 DEF DESCALE
  <2>4. \A k \in 0 .. 3 : x[k] \in Int
    BY <2>1
  <2>5. Column(n, shift, x) =
          Mirror(4, << 4 * (x[0] + x[2]), 4 * (x[0] - x[2]) >>,
                    << DESCALE(Idct4(odds)[1], 11), DESCALE(Idct4(odds)[2], 11) >>)
    BY <1>1 DEF Column, odds
  <2> QED
    BY <1>1, <2>3, <2>4, <2>5, Mirror4Whole
<1>2. CASE ~(n = 4 /\ shift > 0)
  <2>1. Column(n, shift, x) = Descaled(Idct(n, x), shift)
    BY <1>2 DEF Column
  <2>2. shift \in {0, 3, 11, 16, 18}
    OBVIOUS
  <2> QED
    BY <2>1, <2>2, IdctWhole, DescaleWhole
<1> QED
  BY <1>1, <1>2

LEMMA RangeLimitIsSample == ASSUME NEW x \in Int PROVE RangeLimit(x) \in 0 .. 255
  BY DEF RangeLimit

InverseOf(f, w, h) ==
  /\ f.w = w /\ f.h = h
  /\ f.row \in {3, 16, 18} /\ f.col \in {0, 11}

LEMMA InverseIsSamples ==
  ASSUME NEW f, NEW w \in 1 .. 16, NEW h \in 1 .. 16, InverseOf(f, w, h),
         NEW b \in Matrices, NEW q \in Matrices
  PROVE  Inverse(f, b, q) \in [0 .. h - 1 -> [0 .. w - 1 -> 0 .. 255]]
<1> DEFINE In(u) == [v \in 0 .. AtMost8(h) - 1 |-> b[v][u] * q[v][u]]
           InColumn(u) == Column(h, f.col, In(u))
           cols == ListOf(AtMost8(w), InColumn)
           Out(r) == [u \in 0 .. AtMost8(w) - 1 |-> cols[u + 1][r + 1]]
           Row(r) == Descaled(Idct(w, Out(r)), f.row)
           Shown(r) == [j \in 0 .. w - 1 |-> RangeLimit(Row(r)[j + 1])]
<1>1. /\ f.w = w /\ f.h = h /\ f.row \in {0, 3, 11, 16, 18} /\ f.col \in {0, 11}
  BY DEF InverseOf
<1>2. AtMost8(w) \in 1 .. 8 /\ AtMost8(h) \in 1 .. 8
  BY DEF AtMost8
<1>3. ASSUME NEW u \in 0 .. 7 PROVE Whole(InColumn(u), h)
  <2>1. In(u) \in [0 .. AtMost8(h) - 1 -> Int]
    BY <1>2 DEF Matrices
  <2> HIDE DEF In
  <2> QED
    BY <1>1, <2>1, ColumnWhole
<1>4. \A u \in 0 .. AtMost8(w) - 1 : cols[u + 1] = InColumn(u)
  <2> HIDE DEF InColumn
  <2>1. cols = [k \in 1 .. AtMost8(w) |-> InColumn(k - 1)]
    <3>1. AtMost8(w) \in Nat
      BY <1>2
    <3> QED
      BY <3>1 DEF ListOf
  <2>2. \A u \in 0 .. AtMost8(w) - 1 : u + 1 \in 1 .. AtMost8(w) /\ (u + 1) - 1 = u
    BY <1>2
  <2> QED
    BY <2>1, <2>2
<1>5. ASSUME NEW r \in 0 .. h - 1 PROVE Whole(Row(r), w)
  <2> HIDE DEF cols, InColumn
  <2>1. \A u \in 0 .. AtMost8(w) - 1 : u \in 0 .. 7
    BY <1>2
  <2>2. r + 1 \in 1 .. h
    OBVIOUS
  <2>3. ASSUME NEW u \in 0 .. AtMost8(w) - 1 PROVE cols[u + 1][r + 1] \in Int
    BY <1>3, <1>4, <2>1, <2>2 DEF Whole
  <2>4. Out(r) \in [0 .. AtMost8(w) - 1 -> Int]
    BY <2>3
  <2> HIDE DEF Out
  <2> QED
    BY <1>1, <2>4, IdctWhole, DescaleWhole
<1>6. Inverse(f, b, q) = [r \in 0 .. h - 1 |-> Shown(r)]
  BY <1>1 DEF Inverse
<1> HIDE DEF Row
<1>7. ASSUME NEW r \in 0 .. h - 1, NEW j \in 0 .. w - 1
      PROVE  RangeLimit(Row(r)[j + 1]) \in 0 .. 255
  <2>1. j + 1 \in 1 .. w
    OBVIOUS
  <2>2. Row(r)[j + 1] \in Int
    BY <1>5, <2>1 DEF Whole
  <2> QED
    BY <2>2, RangeLimitIsSample
<1>8. \A r \in 0 .. h - 1 : Shown(r) \in [0 .. w - 1 -> 0 .. 255]
  BY <1>7
<1> HIDE DEF Shown
<1>9. [r \in 0 .. h - 1 |-> Shown(r)] \in [0 .. h - 1 -> [0 .. w - 1 -> 0 .. 255]]
  BY <1>8
<1> QED
  BY <1>6, <1>9

LEMMA InverseSizes == \A sz \in ScaledSizes : InverseOf(inverse_DCT(sz), sz[1], sz[2])
<1>1. /\ InverseOf(inverse_DCT(<<1, 1>>), 1, 1)
      /\ InverseOf(inverse_DCT(<<2, 2>>), 2, 2)
      /\ InverseOf(inverse_DCT(<<3, 3>>), 3, 3)
      /\ InverseOf(inverse_DCT(<<4, 4>>), 4, 4)
      /\ InverseOf(inverse_DCT(<<5, 5>>), 5, 5)
      /\ InverseOf(inverse_DCT(<<6, 6>>), 6, 6)
      /\ InverseOf(inverse_DCT(<<7, 7>>), 7, 7)
      /\ InverseOf(inverse_DCT(<<8, 8>>), 8, 8)
      /\ InverseOf(inverse_DCT(<<9, 9>>), 9, 9)
      /\ InverseOf(inverse_DCT(<<10, 10>>), 10, 10)
      /\ InverseOf(inverse_DCT(<<11, 11>>), 11, 11)
      /\ InverseOf(inverse_DCT(<<12, 12>>), 12, 12)
      /\ InverseOf(inverse_DCT(<<13, 13>>), 13, 13)
      /\ InverseOf(inverse_DCT(<<14, 14>>), 14, 14)
      /\ InverseOf(inverse_DCT(<<15, 15>>), 15, 15)
      /\ InverseOf(inverse_DCT(<<16, 16>>), 16, 16)
  BY SMT DEF inverse_DCT, InverseOf, jpeg_idct_1x1, jpeg_idct_2x2, jpeg_idct_3x3,
     jpeg_idct_4x4, jpeg_idct_5x5, jpeg_idct_6x6, jpeg_idct_7x7, jpeg_idct_islow,
     jpeg_idct_9x9, jpeg_idct_10x10, jpeg_idct_11x11, jpeg_idct_12x12, jpeg_idct_13x13,
     jpeg_idct_14x14, jpeg_idct_15x15, jpeg_idct_16x16
<1>2. /\ InverseOf(inverse_DCT(<<2, 1>>), 2, 1)
      /\ InverseOf(inverse_DCT(<<4, 2>>), 4, 2)
      /\ InverseOf(inverse_DCT(<<6, 3>>), 6, 3)
      /\ InverseOf(inverse_DCT(<<8, 4>>), 8, 4)
      /\ InverseOf(inverse_DCT(<<10, 5>>), 10, 5)
      /\ InverseOf(inverse_DCT(<<12, 6>>), 12, 6)
      /\ InverseOf(inverse_DCT(<<14, 7>>), 14, 7)
      /\ InverseOf(inverse_DCT(<<16, 8>>), 16, 8)
  BY SMT DEF inverse_DCT, InverseOf, jpeg_idct_2x1, jpeg_idct_4x2, jpeg_idct_6x3,
     jpeg_idct_8x4, jpeg_idct_10x5, jpeg_idct_12x6, jpeg_idct_14x7, jpeg_idct_16x8
<1>3. /\ InverseOf(inverse_DCT(<<1, 2>>), 1, 2)
      /\ InverseOf(inverse_DCT(<<2, 4>>), 2, 4)
      /\ InverseOf(inverse_DCT(<<3, 6>>), 3, 6)
      /\ InverseOf(inverse_DCT(<<4, 8>>), 4, 8)
      /\ InverseOf(inverse_DCT(<<5, 10>>), 5, 10)
      /\ InverseOf(inverse_DCT(<<6, 12>>), 6, 12)
      /\ InverseOf(inverse_DCT(<<7, 14>>), 7, 14)
      /\ InverseOf(inverse_DCT(<<8, 16>>), 8, 16)
  BY SMT DEF inverse_DCT, InverseOf, jpeg_idct_1x2, jpeg_idct_2x4, jpeg_idct_3x6,
     jpeg_idct_4x8, jpeg_idct_5x10, jpeg_idct_6x12, jpeg_idct_7x14, jpeg_idct_8x16
<1>4. ASSUME NEW n \in 1 .. 16 PROVE InverseOf(inverse_DCT(<<n, n>>), n, n)
  BY <1>1
<1>5. ASSUME NEW n \in 1 .. 8 PROVE InverseOf(inverse_DCT(<<2 * n, n>>), 2 * n, n)
  BY <1>2
<1>6. ASSUME NEW n \in 1 .. 8 PROVE InverseOf(inverse_DCT(<<n, 2 * n>>), n, 2 * n)
  BY <1>3
<1> QED
  BY <1>4, <1>5, <1>6 DEF ScaledSizes

-----------------------------------------------------------------------------
(* What the transforms compute                                             *)

\* By how much n^2 times the second pass is scaled up, and the errors of the two
\* passes: twice a component and ColScale times a component are what they should
\* be, and with inputs up to m they are off by no more than the errors times m.
\* Those of the first passes of 12 and of 14 points are no roundings.
RowErr == << 0, 0, 2, 4, 2, 4, 6, 8, 6, 4, 6, 65528, 8, 16386, 33, 16 >>
ColErr == << 0, 0, 32, 64, 124, 256, 224, 512, 768, 752, 1164, 1280, 1504, 1792, 9091,
          4096 >>
ColScale == << 2, 8, 32, 32, 64, 128, 128, 128, 256, 256, 256, 256, 256, 256, 512, 512
          >>
Within(a, b, d) == b - d <= a /\ a <= b + d
Sized(c, n, m) == c \in Int /\ Within(c, 0, 4096 * n * m)
NearRow(y, c, n, m) == Within(y, 2 * c, RowErr[n] * m)
NearCol(z, c, n, m) == Within(n * n * z, ColScale[n] * c, ColErr[n] * m)

LEMMA Table1 ==
  /\ BasisRow(1, 0) = << 4096 >>
BY SMTT(60) DEF BasisRow, Basis, Cosine, RootTwoCos

LEMMA Near1 ==
  ASSUME NEW m \in Nat, m >= 128, NEW x \in [0 .. 0 -> -m .. m], NEW u \in 0 .. 0
  PROVE  /\ Sized(Component(1, u, x), 1, m)
         /\ NearRow(Fdct1(<<>>, x)[u + 1], Component(1, u, x), 1, m)
         /\ NearCol(Fdct1(<<>>, x)[u + 1], Component(1, u, x), 1, m)
<1>0. \A j \in 0 .. 0 : x[j] \in Int /\ -m <= x[j] /\ x[j] <= m
  OBVIOUS
<1>1. /\ Sized(Component(1, 0, x), 1, m)
      /\ NearRow(Fdct1(<<>>, x)[1], Component(1, 0, x), 1, m)
      /\ NearCol(Fdct1(<<>>, x)[1], Component(1, 0, x), 1, m)
  BY <1>0, Table1, SMTT(60) DEF Sized, NearRow, NearCol, Within, RowErr, ColErr,
     ColScale, Component, Fdct1
<1> QED
  BY <1>1

LEMMA Table2 ==
  /\ BasisRow(2, 0) = << 4096, 4096 >>
  /\ BasisRow(2, 1) = << 4096, -4096 >>
BY SMTT(60) DEF BasisRow, Basis, Cosine, RootTwoCos

LEMMA Near2 ==
  ASSUME NEW m \in Nat, m >= 128, NEW x \in [0 .. 1 -> -m .. m], NEW u \in 0 .. 1
  PROVE  /\ Sized(Component(2, u, x), 2, m)
         /\ NearRow(Fdct2(<<>>, x)[u + 1], Component(2, u, x), 2, m)
         /\ NearCol(Fdct2(<<>>, x)[u + 1], Component(2, u, x), 2, m)
<1>0. \A j \in 0 .. 1 : x[j] \in Int /\ -m <= x[j] /\ x[j] <= m
  OBVIOUS
<1>1. /\ Sized(Component(2, 0, x), 2, m)
      /\ NearRow(Fdct2(<<>>, x)[1], Component(2, 0, x), 2, m)
      /\ NearCol(Fdct2(<<>>, x)[1], Component(2, 0, x), 2, m)
  BY <1>0, Table2, SMTT(60) DEF Sized, NearRow, NearCol, Within, RowErr, ColErr,
     ColScale, Component, Fdct2
<1>2. /\ Sized(Component(2, 1, x), 2, m)
      /\ NearRow(Fdct2(<<>>, x)[2], Component(2, 1, x), 2, m)
      /\ NearCol(Fdct2(<<>>, x)[2], Component(2, 1, x), 2, m)
  BY <1>0, Table2, SMTT(60) DEF Sized, NearRow, NearCol, Within, RowErr, ColErr,
     ColScale, Component, Fdct2
<1> QED
  BY <1>1, <1>2

LEMMA Table3 ==
  /\ BasisRow(3, 0) = << 4096, 4096, 4096 >>
  /\ BasisRow(3, 1) = << 5017, 0, -5017 >>
  /\ BasisRow(3, 2) = << 2896, -5793, 2896 >>
BY SMTT(60) DEF BasisRow, Basis, Cosine, RootTwoCos

LEMMA Near3 ==
  ASSUME NEW m \in Nat, m >= 128, NEW x \in [0 .. 2 -> -m .. m], NEW u \in 0 .. 2
  PROVE  /\ Sized(Component(3, u, x), 3, m)
         /\ NearRow(Fdct3(Rows3, x)[u + 1], Component(3, u, x), 3, m)
         /\ NearCol(Fdct3(Cols3, x)[u + 1], Component(3, u, x), 3, m)
<1>0. \A j \in 0 .. 2 : x[j] \in Int /\ -m <= x[j] /\ x[j] <= m
  OBVIOUS
<1>1. /\ Sized(Component(3, 0, x), 3, m)
      /\ NearRow(Fdct3(Rows3, x)[1], Component(3, 0, x), 3, m)
      /\ NearCol(Fdct3(Cols3, x)[1], Component(3, 0, x), 3, m)
  BY <1>0, Table3, SMTT(60) DEF Sized, NearRow, NearCol, Within, RowErr, ColErr,
     ColScale, Component, Fdct3, Sums, Diffs, Rows3, Cols3
<1>2. /\ Sized(Component(3, 1, x), 3, m)
      /\ NearRow(Fdct3(Rows3, x)[2], Component(3, 1, x), 3, m)
      /\ NearCol(Fdct3(Cols3, x)[2], Component(3, 1, x), 3, m)
  BY <1>0, Table3, SMTT(60) DEF Sized, NearRow, NearCol, Within, RowErr, ColErr,
     ColScale, Component, Fdct3, Sums, Diffs, Rows3, Cols3
<1>3. /\ Sized(Component(3, 2, x), 3, m)
      /\ NearRow(Fdct3(Rows3, x)[3], Component(3, 2, x), 3, m)
      /\ NearCol(Fdct3(Cols3, x)[3], Component(3, 2, x), 3, m)
  BY <1>0, Table3, SMTT(60) DEF Sized, NearRow, NearCol, Within, RowErr, ColErr,
     ColScale, Component, Fdct3, Sums, Diffs, Rows3, Cols3
<1> QED
  BY <1>1, <1>2, <1>3

LEMMA Table4 ==
  /\ BasisRow(4, 0) = << 4096, 4096, 4096, 4096 >>
  /\ BasisRow(4, 1) = << 5352, 2217, -2217, -5352 >>
  /\ BasisRow(4, 2) = << 4096, -4096, -4096, 4096 >>
  /\ BasisRow(4, 3) = << 2217, -5352, 5352, -2217 >>
BY SMTT(60) DEF BasisRow, Basis, Cosine, RootTwoCos

LEMMA Near4 ==
  ASSUME NEW m \in Nat, m >= 128, NEW x \in [0 .. 3 -> -m .. m], NEW u \in 0 .. 3
  PROVE  /\ Sized(Component(4, u, x), 4, m)
         /\ NearRow(Fdct4(Rows4, x)[u + 1], Component(4, u, x), 4, m)
         /\ NearCol(Fdct4(Rows4, x)[u + 1], Component(4, u, x), 4, m)
<1>0. \A j \in 0 .. 3 : x[j] \in Int /\ -m <= x[j] /\ x[j] <= m
  OBVIOUS
<1>1. /\ Sized(Component(4, 0, x), 4, m)
      /\ NearRow(Fdct4(Rows4, x)[1], Component(4, 0, x), 4, m)
      /\ NearCol(Fdct4(Rows4, x)[1], Component(4, 0, x), 4, m)
  BY <1>0, Table4, SMTT(60) DEF Sized, NearRow, NearCol, Within, RowErr, ColErr,
     ColScale, Component, Fdct4, Sums, Diffs, Rows4
<1>2. /\ Sized(Component(4, 1, x), 4, m)
      /\ NearRow(Fdct4(Rows4, x)[2], Component(4, 1, x), 4, m)
      /\ NearCol(Fdct4(Rows4, x)[2], Component(4, 1, x), 4, m)
  BY <1>0, Table4, SMTT(60) DEF Sized, NearRow, NearCol, Within, RowErr, ColErr,
     ColScale, Component, Fdct4, Sums, Diffs, Rows4
<1>3. /\ Sized(Component(4, 2, x), 4, m)
      /\ NearRow(Fdct4(Rows4, x)[3], Component(4, 2, x), 4, m)
      /\ NearCol(Fdct4(Rows4, x)[3], Component(4, 2, x), 4, m)
  BY <1>0, Table4, SMTT(60) DEF Sized, NearRow, NearCol, Within, RowErr, ColErr,
     ColScale, Component, Fdct4, Sums, Diffs, Rows4
<1>4. /\ Sized(Component(4, 3, x), 4, m)
      /\ NearRow(Fdct4(Rows4, x)[4], Component(4, 3, x), 4, m)
      /\ NearCol(Fdct4(Rows4, x)[4], Component(4, 3, x), 4, m)
  BY <1>0, Table4, SMTT(60) DEF Sized, NearRow, NearCol, Within, RowErr, ColErr,
     ColScale, Component, Fdct4, Sums, Diffs, Rows4
<1> QED
  BY <1>1, <1>2, <1>3, <1>4

LEMMA Table5 ==
  /\ BasisRow(5, 0) = << 4096, 4096, 4096, 4096, 4096 >>
  /\ BasisRow(5, 1) = << 5509, 3405, 0, -3405, -5509 >>
  /\ BasisRow(5, 2) = << 4686, -1790, -5793, -1790, 4686 >>
  /\ BasisRow(5, 3) = << 3405, -5509, 0, 5509, -3405 >>
  /\ BasisRow(5, 4) = << 1790, -4686, 5793, -4686, 1790 >>
BY SMTT(60) DEF BasisRow, Basis, Cosine, RootTwoCos

LEMMA Near5 ==
  ASSUME NEW m \in Nat, m >= 128, NEW x \in [0 .. 4 -> -m .. m], NEW u \in 0 .. 4
  PROVE  /\ Sized(Component(5, u, x), 5, m)
         /\ NearRow(Fdct5(Rows5, x)[u + 1], Component(5, u, x), 5, m)
         /\ NearCol(Fdct5(Cols5, x)[u + 1], Component(5, u, x), 5, m)
<1>0. \A j \in 0 .. 4 : x[j] \in Int /\ -m <= x[j] /\ x[j] <= m
  OBVIOUS
<1>1. /\ Sized(Component(5, 0, x), 5, m)
      /\ NearRow(Fdct5(Rows5, x)[1], Component(5, 0, x), 5, m)
      /\ NearCol(Fdct5(Cols5, x)[1], Component(5, 0, x), 5, m)
  BY <1>0, Table5, SMTT(60) DEF Sized, NearRow, NearCol, Within, RowErr, ColErr,
     ColScale, Component, Fdct5, Sums, Diffs, Rows5, Cols5
<1>2. /\ Sized(Component(5, 1, x), 5, m)
      /\ NearRow(Fdct5(Rows5, x)[2], Component(5, 1, x), 5, m)
      /\ NearCol(Fdct5(Cols5, x)[2], Component(5, 1, x), 5, m)
  BY <1>0, Table5, SMTT(60) DEF Sized, NearRow, NearCol, Within, RowErr, ColErr,
     ColScale, Component, Fdct5, Sums, Diffs, Rows5, Cols5
<1>3. /\ Sized(Component(5, 2, x), 5, m)
      /\ NearRow(Fdct5(Rows5, x)[3], Component(5, 2, x), 5, m)
      /\ NearCol(Fdct5(Cols5, x)[3], Component(5, 2, x), 5, m)
  BY <1>0, Table5, SMTT(60) DEF Sized, NearRow, NearCol, Within, RowErr, ColErr,
     ColScale, Component, Fdct5, Sums, Diffs, Rows5, Cols5
<1>4. /\ Sized(Component(5, 3, x), 5, m)
      /\ NearRow(Fdct5(Rows5, x)[4], Component(5, 3, x), 5, m)
      /\ NearCol(Fdct5(Cols5, x)[4], Component(5, 3, x), 5, m)
  BY <1>0, Table5, SMTT(60) DEF Sized, NearRow, NearCol, Within, RowErr, ColErr,
     ColScale, Component, Fdct5, Sums, Diffs, Rows5, Cols5
<1>5. /\ Sized(Component(5, 4, x), 5, m)
      /\ NearRow(Fdct5(Rows5, x)[5], Component(5, 4, x), 5, m)
      /\ NearCol(Fdct5(Cols5, x)[5], Component(5, 4, x), 5, m)
  BY <1>0, Table5, SMTT(60) DEF Sized, NearRow, NearCol, Within, RowErr, ColErr,
     ColScale, Component, Fdct5, Sums, Diffs, Rows5, Cols5
<1> QED
  BY <1>1, <1>2, <1>3, <1>4, <1>5

LEMMA Table6 ==
  /\ BasisRow(6, 0) = << 4096, 4096, 4096, 4096, 4096, 4096 >>
  /\ BasisRow(6, 1) = << 5595, 4096, 1499, -1499, -4096, -5595 >>
  /\ BasisRow(6, 2) = << 5017, 0, -5017, -5017, 0, 5017 >>
  /\ BasisRow(6, 3) = << 4096, -4096, -4096, 4096, 4096, -4096 >>
  /\ BasisRow(6, 4) = << 2896, -5793, 2896, 2896, -5793, 2896 >>
  /\ BasisRow(6, 5) = << 1499, -4096, 5595, -5595, 4096, -1499 >>
BY SMTT(60) DEF BasisRow, Basis, Cosine, RootTwoCos

LEMMA Near6 ==
  ASSUME NEW m \in Nat, m >= 128, NEW x \in [0 .. 5 -> -m .. m], NEW u \in 0 .. 5
  PROVE  /\ Sized(Component(6, u, x), 6, m)
         /\ NearRow(Fdct6(Rows6, x)[u + 1], Component(6, u, x), 6, m)
         /\ NearCol(Fdct6(Cols6, x)[u + 1], Component(6, u, x), 6, m)
<1>0. \A j \in 0 .. 5 : x[j] \in Int /\ -m <= x[j] /\ x[j] <= m
  OBVIOUS
<1>1. /\ Sized(Component(6, 0, x), 6, m)
      /\ NearRow(Fdct6(Rows6, x)[1], Component(6, 0, x), 6, m)
      /\ NearCol(Fdct6(Cols6, x)[1], Component(6, 0, x), 6, m)
  BY <1>0, Table6, SMTT(60) DEF Sized, NearRow, NearCol, Within, RowErr, ColErr,
     ColScale, Component, Fdct6, Sums, Diffs, Rows6, Cols6
<1>2. /\ Sized(Component(6, 1, x), 6, m)
      /\ NearRow(Fdct6(Rows6, x)[2], Component(6, 1, x), 6, m)
      /\ NearCol(Fdct6(Cols6, x)[2], Component(6, 1, x), 6, m)
  BY <1>0, Table6, SMTT(60) DEF Sized, NearRow, NearCol, Within, RowErr, ColErr,
     ColScale, Component, Fdct6, Sums, Diffs, Rows6, Cols6
<1>3. /\ Sized(Component(6, 2, x), 6, m)
      /\ NearRow(Fdct6(Rows6, x)[3], Component(6, 2, x), 6, m)
      /\ NearCol(Fdct6(Cols6, x)[3], Component(6, 2, x), 6, m)
  BY <1>0, Table6, SMTT(60) DEF Sized, NearRow, NearCol, Within, RowErr, ColErr,
     ColScale, Component, Fdct6, Sums, Diffs, Rows6, Cols6
<1>4. /\ Sized(Component(6, 3, x), 6, m)
      /\ NearRow(Fdct6(Rows6, x)[4], Component(6, 3, x), 6, m)
      /\ NearCol(Fdct6(Cols6, x)[4], Component(6, 3, x), 6, m)
  BY <1>0, Table6, SMTT(60) DEF Sized, NearRow, NearCol, Within, RowErr, ColErr,
     ColScale, Component, Fdct6, Sums, Diffs, Rows6, Cols6
<1>5. /\ Sized(Component(6, 4, x), 6, m)
      /\ NearRow(Fdct6(Rows6, x)[5], Component(6, 4, x), 6, m)
      /\ NearCol(Fdct6(Cols6, x)[5], Component(6, 4, x), 6, m)
  BY <1>0, Table6, SMTT(60) DEF Sized, NearRow, NearCol, Within, RowErr, ColErr,
     ColScale, Component, Fdct6, Sums, Diffs, Rows6, Cols6
<1>6. /\ Sized(Component(6, 5, x), 6, m)
      /\ NearRow(Fdct6(Rows6, x)[6], Component(6, 5, x), 6, m)
      /\ NearCol(Fdct6(Cols6, x)[6], Component(6, 5, x), 6, m)
  BY <1>0, Table6, SMTT(60) DEF Sized, NearRow, NearCol, Within, RowErr, ColErr,
     ColScale, Component, Fdct6, Sums, Diffs, Rows6, Cols6
<1> QED
  BY <1>1, <1>2, <1>3, <1>4, <1>5, <1>6

LEMMA Table7 ==
  /\ BasisRow(7, 0) = << 4096, 4096, 4096, 4096, 4096, 4096, 4096 >>
  /\ BasisRow(7, 1) = << 5647, 4529, 2513, 0, -2513, -4529, -5647 >>
  /\ BasisRow(7, 2) = << 5219, 1289, -3612, -5793, -3612, 1289, 5219 >>
  /\ BasisRow(7, 3) = << 4529, -2513, -5647, 0, 5647, 2513, -4529 >>
  /\ BasisRow(7, 4) = << 3612, -5219, -1289, 5793, -1289, -5219, 3612 >>
  /\ BasisRow(7, 5) = << 2513, -5647, 4529, 0, -4529, 5647, -2513 >>
  /\ BasisRow(7, 6) = << 1289, -3612, 5219, -5793, 5219, -3612, 1289 >>
BY SMTT(60) DEF BasisRow, Basis, Cosine, RootTwoCos

LEMMA Near7 ==
  ASSUME NEW m \in Nat, m >= 128, NEW x \in [0 .. 6 -> -m .. m], NEW u \in 0 .. 6
  PROVE  /\ Sized(Component(7, u, x), 7, m)
         /\ NearRow(Fdct7(Rows7, x)[u + 1], Component(7, u, x), 7, m)
         /\ NearCol(Fdct7(Cols7, x)[u + 1], Component(7, u, x), 7, m)
<1>0. \A j \in 0 .. 6 : x[j] \in Int /\ -m <= x[j] /\ x[j] <= m
  OBVIOUS
<1>1. /\ Sized(Component(7, 0, x), 7, m)
      /\ NearRow(Fdct7(Rows7, x)[1], Component(7, 0, x), 7, m)
      /\ NearCol(Fdct7(Cols7, x)[1], Component(7, 0, x), 7, m)
  BY <1>0, Table7, SMTT(60) DEF Sized, NearRow, NearCol, Within, RowErr, ColErr,
     ColScale, Component, Fdct7, Sums, Diffs, Rows7, Cols7
<1>2. /\ Sized(Component(7, 1, x), 7, m)
      /\ NearRow(Fdct7(Rows7, x)[2], Component(7, 1, x), 7, m)
      /\ NearCol(Fdct7(Cols7, x)[2], Component(7, 1, x), 7, m)
  BY <1>0, Table7, SMTT(60) DEF Sized, NearRow, NearCol, Within, RowErr, ColErr,
     ColScale, Component, Fdct7, Sums, Diffs, Rows7, Cols7
<1>3. /\ Sized(Component(7, 2, x), 7, m)
      /\ NearRow(Fdct7(Rows7, x)[3], Component(7, 2, x), 7, m)
      /\ NearCol(Fdct7(Cols7, x)[3], Component(7, 2, x), 7, m)
  BY <1>0, Table7, SMTT(60) DEF Sized, NearRow, NearCol, Within, RowErr, ColErr,
     ColScale, Component, Fdct7, Sums, Diffs, Rows7, Cols7
<1>4. /\ Sized(Component(7, 3, x), 7, m)
      /\ NearRow(Fdct7(Rows7, x)[4], Component(7, 3, x), 7, m)
      /\ NearCol(Fdct7(Cols7, x)[4], Component(7, 3, x), 7, m)
  BY <1>0, Table7, SMTT(60) DEF Sized, NearRow, NearCol, Within, RowErr, ColErr,
     ColScale, Component, Fdct7, Sums, Diffs, Rows7, Cols7
<1>5. /\ Sized(Component(7, 4, x), 7, m)
      /\ NearRow(Fdct7(Rows7, x)[5], Component(7, 4, x), 7, m)
      /\ NearCol(Fdct7(Cols7, x)[5], Component(7, 4, x), 7, m)
  BY <1>0, Table7, SMTT(60) DEF Sized, NearRow, NearCol, Within, RowErr, ColErr,
     ColScale, Component, Fdct7, Sums, Diffs, Rows7, Cols7
<1>6. /\ Sized(Component(7, 5, x), 7, m)
      /\ NearRow(Fdct7(Rows7, x)[6], Component(7, 5, x), 7, m)
      /\ NearCol(Fdct7(Cols7, x)[6], Component(7, 5, x), 7, m)
  BY <1>0, Table7, SMTT(60) DEF Sized, NearRow, NearCol, Within, RowErr, ColErr,
     ColScale, Component, Fdct7, Sums, Diffs, Rows7, Cols7
<1>7. /\ Sized(Component(7, 6, x), 7, m)
      /\ NearRow(Fdct7(Rows7, x)[7], Component(7, 6, x), 7, m)
      /\ NearCol(Fdct7(Cols7, x)[7], Component(7, 6, x), 7, m)
  BY <1>0, Table7, SMTT(60) DEF Sized, NearRow, NearCol, Within, RowErr, ColErr,
     ColScale, Component, Fdct7, Sums, Diffs, Rows7, Cols7
<1> QED
  BY <1>1, <1>2, <1>3, <1>4, <1>5, <1>6, <1>7

LEMMA Table8 ==
  /\ BasisRow(8, 0) = << 4096, 4096, 4096, 4096, 4096, 4096, 4096, 4096 >>
  /\ BasisRow(8, 1) = << 5681, 4816, 3218, 1130, -1130, -3218, -4816, -5681 >>
  /\ BasisRow(8, 2) = << 5352, 2217, -2217, -5352, -5352, -2217, 2217, 5352 >>
  /\ BasisRow(8, 3) = << 4816, -1130, -5681, -3218, 3218, 5681, 1130, -4816 >>
  /\ BasisRow(8, 4) = << 4096, -4096, -4096, 4096, 4096, -4096, -4096, 4096 >>
  /\ BasisRow(8, 5) = << 3218, -5681, 1130, 4816, -4816, -1130, 5681, -3218 >>
  /\ BasisRow(8, 6) = << 2217, -5352, 5352, -2217, -2217, 5352, -5352, 2217 >>
  /\ BasisRow(8, 7) = << 1130, -3218, 4816, -5681, 5681, -4816, 3218, -1130 >>
BY SMTT(60) DEF BasisRow, Basis, Cosine, RootTwoCos

LEMMA Near8 ==
  ASSUME NEW m \in Nat, m >= 128, NEW x \in [0 .. 7 -> -m .. m], NEW u \in 0 .. 7
  PROVE  /\ Sized(Component(8, u, x), 8, m)
         /\ NearRow(Fdct8(Rows8, x)[u + 1], Component(8, u, x), 8, m)
         /\ NearCol(Fdct8(Rows8, x)[u + 1], Component(8, u, x), 8, m)
<1>0. \A j \in 0 .. 7 : x[j] \in Int /\ -m <= x[j] /\ x[j] <= m
  OBVIOUS
<1>1. /\ Sized(Component(8, 0, x), 8, m)
      /\ NearRow(Fdct8(Rows8, x)[1], Component(8, 0, x), 8, m)
      /\ NearCol(Fdct8(Rows8, x)[1], Component(8, 0, x), 8, m)
  BY <1>0, Table8, SMTT(60) DEF Sized, NearRow, NearCol, Within, RowErr, ColErr,
     ColScale, Component, Fdct8, Sums, Diffs, Rows8
<1>2. /\ Sized(Component(8, 1, x), 8, m)
      /\ NearRow(Fdct8(Rows8, x)[2], Component(8, 1, x), 8, m)
      /\ NearCol(Fdct8(Rows8, x)[2], Component(8, 1, x), 8, m)
  BY <1>0, Table8, SMTT(60) DEF Sized, NearRow, NearCol, Within, RowErr, ColErr,
     ColScale, Component, Fdct8, Sums, Diffs, Rows8
<1>3. /\ Sized(Component(8, 2, x), 8, m)
      /\ NearRow(Fdct8(Rows8, x)[3], Component(8, 2, x), 8, m)
      /\ NearCol(Fdct8(Rows8, x)[3], Component(8, 2, x), 8, m)
  BY <1>0, Table8, SMTT(60) DEF Sized, NearRow, NearCol, Within, RowErr, ColErr,
     ColScale, Component, Fdct8, Sums, Diffs, Rows8
<1>4. /\ Sized(Component(8, 3, x), 8, m)
      /\ NearRow(Fdct8(Rows8, x)[4], Component(8, 3, x), 8, m)
      /\ NearCol(Fdct8(Rows8, x)[4], Component(8, 3, x), 8, m)
  BY <1>0, Table8, SMTT(60) DEF Sized, NearRow, NearCol, Within, RowErr, ColErr,
     ColScale, Component, Fdct8, Sums, Diffs, Rows8
<1>5. /\ Sized(Component(8, 4, x), 8, m)
      /\ NearRow(Fdct8(Rows8, x)[5], Component(8, 4, x), 8, m)
      /\ NearCol(Fdct8(Rows8, x)[5], Component(8, 4, x), 8, m)
  BY <1>0, Table8, SMTT(60) DEF Sized, NearRow, NearCol, Within, RowErr, ColErr,
     ColScale, Component, Fdct8, Sums, Diffs, Rows8
<1>6. /\ Sized(Component(8, 5, x), 8, m)
      /\ NearRow(Fdct8(Rows8, x)[6], Component(8, 5, x), 8, m)
      /\ NearCol(Fdct8(Rows8, x)[6], Component(8, 5, x), 8, m)
  BY <1>0, Table8, SMTT(60) DEF Sized, NearRow, NearCol, Within, RowErr, ColErr,
     ColScale, Component, Fdct8, Sums, Diffs, Rows8
<1>7. /\ Sized(Component(8, 6, x), 8, m)
      /\ NearRow(Fdct8(Rows8, x)[7], Component(8, 6, x), 8, m)
      /\ NearCol(Fdct8(Rows8, x)[7], Component(8, 6, x), 8, m)
  BY <1>0, Table8, SMTT(60) DEF Sized, NearRow, NearCol, Within, RowErr, ColErr,
     ColScale, Component, Fdct8, Sums, Diffs, Rows8
<1>8. /\ Sized(Component(8, 7, x), 8, m)
      /\ NearRow(Fdct8(Rows8, x)[8], Component(8, 7, x), 8, m)
      /\ NearCol(Fdct8(Rows8, x)[8], Component(8, 7, x), 8, m)
  BY <1>0, Table8, SMTT(60) DEF Sized, NearRow, NearCol, Within, RowErr, ColErr,
     ColScale, Component, Fdct8, Sums, Diffs, Rows8
<1> QED
  BY <1>1, <1>2, <1>3, <1>4, <1>5, <1>6, <1>7, <1>8

LEMMA Table9 ==
  /\ BasisRow(9, 0) = << 4096, 4096, 4096, 4096, 4096, 4096, 4096, 4096, 4096 >>
  /\ BasisRow(9, 1) = << 5705, 5017, 3723, 1981, 0, -1981, -3723, -5017, -5705 >>
  /\ BasisRow(9, 2) = << 5443, 2896, -1006, -4437, -5793, -4437, -1006, 2896, 5443 >>
  /\ BasisRow(9, 3) = << 5017, 0, -5017, -5017, 0, 5017, 5017, 0, -5017 >>
  /\ BasisRow(9, 4) = << 4437, -2896, -5443, 1006, 5793, 1006, -5443, -2896, 4437 >>
  /\ BasisRow(9, 5) = << 3723, -5017, -1981, 5705, 0, -5705, 1981, 5017, -3723 >>
  /\ BasisRow(9, 6) = << 2896, -5793, 2896, 2896, -5793, 2896, 2896, -5793, 2896 >>
  /\ BasisRow(9, 7) = << 1981, -5017, 5705, -3723, 0, 3723, -5705, 5017, -1981 >>
BY SMTT(60) DEF BasisRow, Basis, Cosine, RootTwoCos

LEMMA Near9 ==
  ASSUME NEW m \in Nat, m >= 128, NEW x \in [0 .. 8 -> -m .. m], NEW u \in 0 .. 7
  PROVE  /\ Sized(Component(9, u, x), 9, m)
         /\ NearRow(Fdct9(Rows9, x)[u + 1], Component(9, u, x), 9, m)
         /\ NearCol(Fdct9(Cols9, x)[u + 1], Component(9, u, x), 9, m)
<1>0. \A j \in 0 .. 8 : x[j] \in Int /\ -m <= x[j] /\ x[j] <= m
  OBVIOUS
<1>1. /\ Sized(Component(9, 0, x), 9, m)
      /\ NearRow(Fdct9(Rows9, x)[1], Component(9, 0, x), 9, m)
      /\ NearCol(Fdct9(Cols9, x)[1], Component(9, 0, x), 9, m)
  BY <1>0, Table9, SMTT(60) DEF Sized, NearRow, NearCol, Within, RowErr, ColErr,
     ColScale, Component, Fdct9, Sums, Diffs, Rows9, Cols9
<1>2. /\ Sized(Component(9, 1, x), 9, m)
      /\ NearRow(Fdct9(Rows9, x)[2], Component(9, 1, x), 9, m)
      /\ NearCol(Fdct9(Cols9, x)[2], Component(9, 1, x), 9, m)
  BY <1>0, Table9, SMTT(60) DEF Sized, NearRow, NearCol, Within, RowErr, ColErr,
     ColScale, Component, Fdct9, Sums, Diffs, Rows9, Cols9
<1>3. /\ Sized(Component(9, 2, x), 9, m)
      /\ NearRow(Fdct9(Rows9, x)[3], Component(9, 2, x), 9, m)
      /\ NearCol(Fdct9(Cols9, x)[3], Component(9, 2, x), 9, m)
  BY <1>0, Table9, SMTT(60) DEF Sized, NearRow, NearCol, Within, RowErr, ColErr,
     ColScale, Component, Fdct9, Sums, Diffs, Rows9, Cols9
<1>4. /\ Sized(Component(9, 3, x), 9, m)
      /\ NearRow(Fdct9(Rows9, x)[4], Component(9, 3, x), 9, m)
      /\ NearCol(Fdct9(Cols9, x)[4], Component(9, 3, x), 9, m)
  BY <1>0, Table9, SMTT(60) DEF Sized, NearRow, NearCol, Within, RowErr, ColErr,
     ColScale, Component, Fdct9, Sums, Diffs, Rows9, Cols9
<1>5. /\ Sized(Component(9, 4, x), 9, m)
      /\ NearRow(Fdct9(Rows9, x)[5], Component(9, 4, x), 9, m)
      /\ NearCol(Fdct9(Cols9, x)[5], Component(9, 4, x), 9, m)
  BY <1>0, Table9, SMTT(60) DEF Sized, NearRow, NearCol, Within, RowErr, ColErr,
     ColScale, Component, Fdct9, Sums, Diffs, Rows9, Cols9
<1>6. /\ Sized(Component(9, 5, x), 9, m)
      /\ NearRow(Fdct9(Rows9, x)[6], Component(9, 5, x), 9, m)
      /\ NearCol(Fdct9(Cols9, x)[6], Component(9, 5, x), 9, m)
  BY <1>0, Table9, SMTT(60) DEF Sized, NearRow, NearCol, Within, RowErr, ColErr,
     ColScale, Component, Fdct9, Sums, Diffs, Rows9, Cols9
<1>7. /\ Sized(Component(9, 6, x), 9, m)
      /\ NearRow(Fdct9(Rows9, x)[7], Component(9, 6, x), 9, m)
      /\ NearCol(Fdct9(Cols9, x)[7], Component(9, 6, x), 9, m)
  BY <1>0, Table9, SMTT(60) DEF Sized, NearRow, NearCol, Within, RowErr, ColErr,
     ColScale, Component, Fdct9, Sums, Diffs, Rows9, Cols9
<1>8. /\ Sized(Component(9, 7, x), 9, m)
      /\ NearRow(Fdct9(Rows9, x)[8], Component(9, 7, x), 9, m)
      /\ NearCol(Fdct9(Cols9, x)[8], Component(9, 7, x), 9, m)
  BY <1>0, Table9, SMTT(60) DEF Sized, NearRow, NearCol, Within, RowErr, ColErr,
     ColScale, Component, Fdct9, Sums, Diffs, Rows9, Cols9
<1> QED
  BY <1>1, <1>2, <1>3, <1>4, <1>5, <1>6, <1>7, <1>8

LEMMA Table10 ==
  /\ BasisRow(10, 0) = << 4096, 4096, 4096, 4096, 4096, 4096, 4096, 4096, 4096, 4096 >>
  /\ BasisRow(10, 1) = << 5721, 5161, 4096, 2630, 906, -906, -2630, -4096, -5161, -5721
        >>
  /\ BasisRow(10, 2) = << 5509, 3405, 0, -3405, -5509, -5509, -3405, 0, 3405, 5509 >>
  /\ BasisRow(10, 3) = << 5161, 906, -4096, -5721, -2630, 2630, 5721, 4096, -906, -5161
        >>
  /\ BasisRow(10, 4) = << 4686, -1790, -5793, -1790, 4686, 4686, -1790, -5793, -1790,
        4686 >>
  /\ BasisRow(10, 5) = << 4096, -4096, -4096, 4096, 4096, -4096, -4096, 4096, 4096,
        -4096 >>
  /\ BasisRow(10, 6) = << 3405, -5509, 0, 5509, -3405, -3405, 5509, 0, -5509, 3405 >>
  /\ BasisRow(10, 7) = << 2630, -5721, 4096, 906, -5161, 5161, -906, -4096, 5721, -2630
        >>
BY SMTT(60) DEF BasisRow, Basis, Cosine, RootTwoCos

LEMMA Near10 ==
  ASSUME NEW m \in Nat, m >= 128, NEW x \in [0 .. 9 -> -m .. m], NEW u \in 0 .. 7
  PROVE  /\ Sized(Component(10, u, x), 10, m)
         /\ NearRow(Fdct10(Rows10, x)[u + 1], Component(10, u, x), 10, m)
         /\ NearCol(Fdct10(Cols10, x)[u + 1], Component(10, u, x), 10, m)
<1>0. \A j \in 0 .. 9 : x[j] \in Int /\ -m <= x[j] /\ x[j] <= m
  OBVIOUS
<1>1. /\ Sized(Component(10, 0, x), 10, m)
      /\ NearRow(Fdct10(Rows10, x)[1], Component(10, 0, x), 10, m)
      /\ NearCol(Fdct10(Cols10, x)[1], Component(10, 0, x), 10, m)
  <2>1. Sized(Component(10, 0, x), 10, m)
    BY <1>0, Table10, SMTT(60) DEF Sized, Within, Component
  <2>2. NearRow(Fdct10(Rows10, x)[1], Component(10, 0, x), 10, m)
    BY <1>0, Table10, SMTT(60) DEF NearRow, Within, RowErr, Component, Fdct10, Sums,
       Diffs, Rows10
  <2>3. NearCol(Fdct10(Cols10, x)[1], Component(10, 0, x), 10, m)
    BY <1>0, Table10, SMTT(60) DEF NearCol, Within, ColErr, ColScale, Component, Fdct10,
       Sums, Diffs, Cols10
  <2> QED
    BY <2>1, <2>2, <2>3
<1>2. /\ Sized(Component(10, 1, x), 10, m)
      /\ NearRow(Fdct10(Rows10, x)[2], Component(10, 1, x), 10, m)
      /\ NearCol(Fdct10(Cols10, x)[2], Component(10, 1, x), 10, m)
  <2>1. Sized(Component(10, 1, x), 10, m)
    BY <1>0, Table10, SMTT(60) DEF Sized, Within, Component
  <2>2. NearRow(Fdct10(Rows10, x)[2], Component(10, 1, x), 10, m)
    BY <1>0, Table10, SMTT(60) DEF NearRow, Within, RowErr, Component, Fdct10, Sums,
       Diffs, Rows10
  <2>3. NearCol(Fdct10(Cols10, x)[2], Component(10, 1, x), 10, m)
    BY <1>0, Table10, SMTT(60) DEF NearCol, Within, ColErr, ColScale, Component, Fdct10,
       Sums, Diffs, Cols10
  <2> QED
    BY <2>1, <2>2, <2>3
<1>3. /\ Sized(Component(10, 2, x), 10, m)
      /\ NearRow(Fdct10(Rows10, x)[3], Component(10, 2, x), 10, m)
      /\ NearCol(Fdct10(Cols10, x)[3], Component(10, 2, x), 10, m)
  <2>1. Sized(Component(10, 2, x), 10, m)
    BY <1>0, Table10, SMTT(60) DEF Sized, Within, Component
  <2>2. NearRow(Fdct10(Rows10, x)[3], Component(10, 2, x), 10, m)
    BY <1>0, Table10, SMTT(60) DEF NearRow, Within, RowErr, Component, Fdct10, Sums,
       Diffs, Rows10
  <2>3. NearCol(Fdct10(Cols10, x)[3], Component(10, 2, x), 10, m)
    BY <1>0, Table10, SMTT(60) DEF NearCol, Within, ColErr, ColScale, Component, Fdct10,
       Sums, Diffs, Cols10
  <2> QED
    BY <2>1, <2>2, <2>3
<1>4. /\ Sized(Component(10, 3, x), 10, m)
      /\ NearRow(Fdct10(Rows10, x)[4], Component(10, 3, x), 10, m)
      /\ NearCol(Fdct10(Cols10, x)[4], Component(10, 3, x), 10, m)
  <2>1. Sized(Component(10, 3, x), 10, m)
    BY <1>0, Table10, SMTT(60) DEF Sized, Within, Component
  <2>2. NearRow(Fdct10(Rows10, x)[4], Component(10, 3, x), 10, m)
    BY <1>0, Table10, SMTT(60) DEF NearRow, Within, RowErr, Component, Fdct10, Sums,
       Diffs, Rows10
  <2>3. NearCol(Fdct10(Cols10, x)[4], Component(10, 3, x), 10, m)
    BY <1>0, Table10, SMTT(60) DEF NearCol, Within, ColErr, ColScale, Component, Fdct10,
       Sums, Diffs, Cols10
  <2> QED
    BY <2>1, <2>2, <2>3
<1>5. /\ Sized(Component(10, 4, x), 10, m)
      /\ NearRow(Fdct10(Rows10, x)[5], Component(10, 4, x), 10, m)
      /\ NearCol(Fdct10(Cols10, x)[5], Component(10, 4, x), 10, m)
  <2>1. Sized(Component(10, 4, x), 10, m)
    BY <1>0, Table10, SMTT(60) DEF Sized, Within, Component
  <2>2. NearRow(Fdct10(Rows10, x)[5], Component(10, 4, x), 10, m)
    BY <1>0, Table10, SMTT(60) DEF NearRow, Within, RowErr, Component, Fdct10, Sums,
       Diffs, Rows10
  <2>3. NearCol(Fdct10(Cols10, x)[5], Component(10, 4, x), 10, m)
    BY <1>0, Table10, SMTT(60) DEF NearCol, Within, ColErr, ColScale, Component, Fdct10,
       Sums, Diffs, Cols10
  <2> QED
    BY <2>1, <2>2, <2>3
<1>6. /\ Sized(Component(10, 5, x), 10, m)
      /\ NearRow(Fdct10(Rows10, x)[6], Component(10, 5, x), 10, m)
      /\ NearCol(Fdct10(Cols10, x)[6], Component(10, 5, x), 10, m)
  <2>1. Sized(Component(10, 5, x), 10, m)
    BY <1>0, Table10, SMTT(60) DEF Sized, Within, Component
  <2>2. NearRow(Fdct10(Rows10, x)[6], Component(10, 5, x), 10, m)
    BY <1>0, Table10, SMTT(60) DEF NearRow, Within, RowErr, Component, Fdct10, Sums,
       Diffs, Rows10
  <2>3. NearCol(Fdct10(Cols10, x)[6], Component(10, 5, x), 10, m)
    BY <1>0, Table10, SMTT(60) DEF NearCol, Within, ColErr, ColScale, Component, Fdct10,
       Sums, Diffs, Cols10
  <2> QED
    BY <2>1, <2>2, <2>3
<1>7. /\ Sized(Component(10, 6, x), 10, m)
      /\ NearRow(Fdct10(Rows10, x)[7], Component(10, 6, x), 10, m)
      /\ NearCol(Fdct10(Cols10, x)[7], Component(10, 6, x), 10, m)
  <2>1. Sized(Component(10, 6, x), 10, m)
    BY <1>0, Table10, SMTT(60) DEF Sized, Within, Component
  <2>2. NearRow(Fdct10(Rows10, x)[7], Component(10, 6, x), 10, m)
    BY <1>0, Table10, SMTT(60) DEF NearRow, Within, RowErr, Component, Fdct10, Sums,
       Diffs, Rows10
  <2>3. NearCol(Fdct10(Cols10, x)[7], Component(10, 6, x), 10, m)
    BY <1>0, Table10, SMTT(60) DEF NearCol, Within, ColErr, ColScale, Component, Fdct10,
       Sums, Diffs, Cols10
  <2> QED
    BY <2>1, <2>2, <2>3
<1>8. /\ Sized(Component(10, 7, x), 10, m)
      /\ NearRow(Fdct10(Rows10, x)[8], Component(10, 7, x), 10, m)
      /\ NearCol(Fdct10(Cols10, x)[8], Component(10, 7, x), 10, m)
  <2>1. Sized(Component(10, 7, x), 10, m)
    BY <1>0, Table10, SMTT(60) DEF Sized, Within, Component
  <2>2. NearRow(Fdct10(Rows10, x)[8], Component(10, 7, x), 10, m)
    BY <1>0, Table10, SMTT(60) DEF NearRow, Within, RowErr, Component, Fdct10, Sums,
       Diffs, Rows10
  <2>3. NearCol(Fdct10(Cols10, x)[8], Component(10, 7, x), 10, m)
    BY <1>0, Table10, SMTT(60) DEF NearCol, Within, ColErr, ColScale, Component, Fdct10,
       Sums, Diffs, Cols10
  <2> QED
    BY <2>1, <2>2, <2>3
<1> QED
  BY <1>1, <1>2, <1>3, <1>4, <1>5, <1>6, <1>7, <1>8

LEMMA Table11 ==
  /\ BasisRow(11, 0) = << 4096, 4096, 4096, 4096, 4096, 4096, 4096, 4096, 4096, 4096,
        4096 >>
  /\ BasisRow(11, 1) = << 5734, 5269, 4378, 3132, 1632, 0, -1632, -3132, -4378, -5269,
        -5734 >>
  /\ BasisRow(11, 2) = << 5558, 3793, 824, -2406, -4873, -5793, -4873, -2406, 824, 3793,
        5558 >>
  /\ BasisRow(11, 3) = << 5269, 1632, -3132, -5734, -4378, 0, 4378, 5734, 3132, -1632,
        -5269 >>
  /\ BasisRow(11, 4) = << 4873, -824, -5558, -3793, 2406, 5793, 2406, -3793, -5558,
        -824, 4873 >>
  /\ BasisRow(11, 5) = << 4378, -3132, -5269, 1632, 5734, 0, -5734, -1632, 5269, 3132,
        -4378 >>
  /\ BasisRow(11, 6) = << 3793, -4873, -2406, 5558, 824, -5793, 824, 5558, -2406, -4873,
        3793 >>
  /\ BasisRow(11, 7) = << 3132, -5734, 1632, 4378, -5269, 0, 5269, -4378, -1632, 5734,
        -3132 >>
BY SMTT(60) DEF BasisRow, Basis, Cosine, RootTwoCos

LEMMA Near11 ==
  ASSUME NEW m \in Nat, m >= 128, NEW x \in [0 .. 10 -> -m .. m], NEW u \in 0 .. 7
  PROVE  /\ Sized(Component(11, u, x), 11, m)
         /\ NearRow(Fdct11(Rows11, x)[u + 1], Component(11, u, x), 11, m)
         /\ NearCol(Fdct11(Cols11, x)[u + 1], Component(11, u, x), 11, m)
<1>0. \A j \in 0 .. 10 : x[j] \in Int /\ -m <= x[j] /\ x[j] <= m
  OBVIOUS
<1>1. /\ Sized(Component(11, 0, x), 11, m)
      /\ NearRow(Fdct11(Rows11, x)[1], Component(11, 0, x), 11, m)
      /\ NearCol(Fdct11(Cols11, x)[1], Component(11, 0, x), 11, m)
  <2>1. Sized(Component(11, 0, x), 11, m)
    BY <1>0, Table11, SMTT(60) DEF Sized, Within, Component
  <2>2. NearRow(Fdct11(Rows11, x)[1], Component(11, 0, x), 11, m)
    BY <1>0, Table11, SMTT(60) DEF NearRow, Within, RowErr, Component, Fdct11, Sums,
       Diffs, Rows11
  <2>3. NearCol(Fdct11(Cols11, x)[1], Component(11, 0, x), 11, m)
    BY <1>0, Table11, SMTT(60) DEF NearCol, Within, ColErr, ColScale, Component, Fdct11,
       Sums, Diffs, Cols11
  <2> QED
    BY <2>1, <2>2, <2>3
<1>2. /\ Sized(Component(11, 1, x), 11, m)
      /\ NearRow(Fdct11(Rows11, x)[2], Component(11, 1, x), 11, m)
      /\ NearCol(Fdct11(Cols11, x)[2], Component(11, 1, x), 11, m)
  <2>1. Sized(Component(11, 1, x), 11, m)
    BY <1>0, Table11, SMTT(60) DEF Sized, Within, Component
  <2>2. NearRow(Fdct11(Rows11, x)[2], Component(11, 1, x), 11, m)
    BY <1>0, Table11, SMTT(60) DEF NearRow, Within, RowErr, Component, Fdct11, Sums,
       Diffs, Rows11
  <2>3. NearCol(Fdct11(Cols11, x)[2], Component(11, 1, x), 11, m)
    BY <1>0, Table11, SMTT(60) DEF NearCol, Within, ColErr, ColScale, Component, Fdct11,
       Sums, Diffs, Cols11
  <2> QED
    BY <2>1, <2>2, <2>3
<1>3. /\ Sized(Component(11, 2, x), 11, m)
      /\ NearRow(Fdct11(Rows11, x)[3], Component(11, 2, x), 11, m)
      /\ NearCol(Fdct11(Cols11, x)[3], Component(11, 2, x), 11, m)
  <2>1. Sized(Component(11, 2, x), 11, m)
    BY <1>0, Table11, SMTT(60) DEF Sized, Within, Component
  <2>2. NearRow(Fdct11(Rows11, x)[3], Component(11, 2, x), 11, m)
    BY <1>0, Table11, SMTT(60) DEF NearRow, Within, RowErr, Component, Fdct11, Sums,
       Diffs, Rows11
  <2>3. NearCol(Fdct11(Cols11, x)[3], Component(11, 2, x), 11, m)
    BY <1>0, Table11, SMTT(60) DEF NearCol, Within, ColErr, ColScale, Component, Fdct11,
       Sums, Diffs, Cols11
  <2> QED
    BY <2>1, <2>2, <2>3
<1>4. /\ Sized(Component(11, 3, x), 11, m)
      /\ NearRow(Fdct11(Rows11, x)[4], Component(11, 3, x), 11, m)
      /\ NearCol(Fdct11(Cols11, x)[4], Component(11, 3, x), 11, m)
  <2>1. Sized(Component(11, 3, x), 11, m)
    BY <1>0, Table11, SMTT(60) DEF Sized, Within, Component
  <2>2. NearRow(Fdct11(Rows11, x)[4], Component(11, 3, x), 11, m)
    BY <1>0, Table11, SMTT(60) DEF NearRow, Within, RowErr, Component, Fdct11, Sums,
       Diffs, Rows11
  <2>3. NearCol(Fdct11(Cols11, x)[4], Component(11, 3, x), 11, m)
    BY <1>0, Table11, SMTT(60) DEF NearCol, Within, ColErr, ColScale, Component, Fdct11,
       Sums, Diffs, Cols11
  <2> QED
    BY <2>1, <2>2, <2>3
<1>5. /\ Sized(Component(11, 4, x), 11, m)
      /\ NearRow(Fdct11(Rows11, x)[5], Component(11, 4, x), 11, m)
      /\ NearCol(Fdct11(Cols11, x)[5], Component(11, 4, x), 11, m)
  <2>1. Sized(Component(11, 4, x), 11, m)
    BY <1>0, Table11, SMTT(60) DEF Sized, Within, Component
  <2>2. NearRow(Fdct11(Rows11, x)[5], Component(11, 4, x), 11, m)
    BY <1>0, Table11, SMTT(60) DEF NearRow, Within, RowErr, Component, Fdct11, Sums,
       Diffs, Rows11
  <2>3. NearCol(Fdct11(Cols11, x)[5], Component(11, 4, x), 11, m)
    BY <1>0, Table11, SMTT(60) DEF NearCol, Within, ColErr, ColScale, Component, Fdct11,
       Sums, Diffs, Cols11
  <2> QED
    BY <2>1, <2>2, <2>3
<1>6. /\ Sized(Component(11, 5, x), 11, m)
      /\ NearRow(Fdct11(Rows11, x)[6], Component(11, 5, x), 11, m)
      /\ NearCol(Fdct11(Cols11, x)[6], Component(11, 5, x), 11, m)
  <2>1. Sized(Component(11, 5, x), 11, m)
    BY <1>0, Table11, SMTT(60) DEF Sized, Within, Component
  <2>2. NearRow(Fdct11(Rows11, x)[6], Component(11, 5, x), 11, m)
    BY <1>0, Table11, SMTT(60) DEF NearRow, Within, RowErr, Component, Fdct11, Sums,
       Diffs, Rows11
  <2>3. NearCol(Fdct11(Cols11, x)[6], Component(11, 5, x), 11, m)
    BY <1>0, Table11, SMTT(60) DEF NearCol, Within, ColErr, ColScale, Component, Fdct11,
       Sums, Diffs, Cols11
  <2> QED
    BY <2>1, <2>2, <2>3
<1>7. /\ Sized(Component(11, 6, x), 11, m)
      /\ NearRow(Fdct11(Rows11, x)[7], Component(11, 6, x), 11, m)
      /\ NearCol(Fdct11(Cols11, x)[7], Component(11, 6, x), 11, m)
  <2>1. Sized(Component(11, 6, x), 11, m)
    BY <1>0, Table11, SMTT(60) DEF Sized, Within, Component
  <2>2. NearRow(Fdct11(Rows11, x)[7], Component(11, 6, x), 11, m)
    BY <1>0, Table11, SMTT(60) DEF NearRow, Within, RowErr, Component, Fdct11, Sums,
       Diffs, Rows11
  <2>3. NearCol(Fdct11(Cols11, x)[7], Component(11, 6, x), 11, m)
    BY <1>0, Table11, SMTT(60) DEF NearCol, Within, ColErr, ColScale, Component, Fdct11,
       Sums, Diffs, Cols11
  <2> QED
    BY <2>1, <2>2, <2>3
<1>8. /\ Sized(Component(11, 7, x), 11, m)
      /\ NearRow(Fdct11(Rows11, x)[8], Component(11, 7, x), 11, m)
      /\ NearCol(Fdct11(Cols11, x)[8], Component(11, 7, x), 11, m)
  <2>1. Sized(Component(11, 7, x), 11, m)
    BY <1>0, Table11, SMTT(60) DEF Sized, Within, Component
  <2>2. NearRow(Fdct11(Rows11, x)[8], Component(11, 7, x), 11, m)
    BY <1>0, Table11, SMTT(60) DEF NearRow, Within, RowErr, Component, Fdct11, Sums,
       Diffs, Rows11
  <2>3. NearCol(Fdct11(Cols11, x)[8], Component(11, 7, x), 11, m)
    BY <1>0, Table11, SMTT(60) DEF NearCol, Within, ColErr, ColScale, Component, Fdct11,
       Sums, Diffs, Cols11
  <2> QED
    BY <2>1, <2>2, <2>3
<1> QED
  BY <1>1, <1>2, <1>3, <1>4, <1>5, <1>6, <1>7, <1>8

LEMMA Table12 ==
  /\ BasisRow(12, 0) = << 4096, 4096, 4096, 4096, 4096, 4096, 4096, 4096, 4096, 4096,
        4096, 4096 >>
  /\ BasisRow(12, 1) = << 5743, 5352, 4596, 3526, 2217, 756, -756, -2217, -3526, -4596,
        -5352, -5743 >>
  /\ BasisRow(12, 2) = << 5595, 4096, 1499, -1499, -4096, -5595, -5595, -4096, -1499,
        1499, 4096, 5595 >>
  /\ BasisRow(12, 3) = << 5352, 2217, -2217, -5352, -5352, -2217, 2217, 5352, 5352,
        2217, -2217, -5352 >>
  /\ BasisRow(12, 4) = << 5017, 0, -5017, -5017, 0, 5017, 5017, 0, -5017, -5017, 0, 5017
        >>
  /\ BasisRow(12, 5) = << 4596, -2217, -5743, -756, 5352, 3526, -3526, -5352, 756, 5743,
        2217, -4596 >>
  /\ BasisRow(12, 6) = << 4096, -4096, -4096, 4096, 4096, -4096, -4096, 4096, 4096,
        -4096, -4096, 4096 >>
  /\ BasisRow(12, 7) = << 3526, -5352, -756, 5743, -2217, -4596, 4596, 2217, -5743, 756,
        5352, -3526 >>
BY SMTT(60) DEF BasisRow, Basis, Cosine, RootTwoCos

LEMMA Near12 ==
  ASSUME NEW m \in Nat, m >= 128, NEW x \in [0 .. 11 -> -m .. m], NEW u \in 0 .. 7
  PROVE  /\ Sized(Component(12, u, x), 12, m)
         /\ NearRow(Fdct12(Rows12, x)[u + 1], Component(12, u, x), 12, m)
         /\ NearCol(Fdct12(Cols12, x)[u + 1], Component(12, u, x), 12, m)
<1>0. \A j \in 0 .. 11 : x[j] \in Int /\ -m <= x[j] /\ x[j] <= m
  OBVIOUS
<1>1. /\ Sized(Component(12, 0, x), 12, m)
      /\ NearRow(Fdct12(Rows12, x)[1], Component(12, 0, x), 12, m)
      /\ NearCol(Fdct12(Cols12, x)[1], Component(12, 0, x), 12, m)
  <2>1. Sized(Component(12, 0, x), 12, m)
    BY <1>0, Table12, SMTT(60) DEF Sized, Within, Component
  <2>2. NearRow(Fdct12(Rows12, x)[1], Component(12, 0, x), 12, m)
    BY <1>0, Table12, SMTT(60) DEF NearRow, Within, RowErr, Component, Fdct12, Sums,
       Diffs, Rows12
  <2>3. NearCol(Fdct12(Cols12, x)[1], Component(12, 0, x), 12, m)
    BY <1>0, Table12, SMTT(60) DEF NearCol, Within, ColErr, ColScale, Component, Fdct12,
       Sums, Diffs, Cols12
  <2> QED
    BY <2>1, <2>2, <2>3
<1>2. /\ Sized(Component(12, 1, x), 12, m)
      /\ NearRow(Fdct12(Rows12, x)[2], Component(12, 1, x), 12, m)
      /\ NearCol(Fdct12(Cols12, x)[2], Component(12, 1, x), 12, m)
  <2>1. Sized(Component(12, 1, x), 12, m)
    BY <1>0, Table12, SMTT(60) DEF Sized, Within, Component
  <2>2. NearRow(Fdct12(Rows12, x)[2], Component(12, 1, x), 12, m)
    BY <1>0, Table12, SMTT(60) DEF NearRow, Within, RowErr, Component, Fdct12, Sums,
       Diffs, Rows12
  <2>3. NearCol(Fdct12(Cols12, x)[2], Component(12, 1, x), 12, m)
    BY <1>0, Table12, SMTT(60) DEF NearCol, Within, ColErr, ColScale, Component, Fdct12,
       Sums, Diffs, Cols12
  <2> QED
    BY <2>1, <2>2, <2>3
<1>3. /\ Sized(Component(12, 2, x), 12, m)
      /\ NearRow(Fdct12(Rows12, x)[3], Component(12, 2, x), 12, m)
      /\ NearCol(Fdct12(Cols12, x)[3], Component(12, 2, x), 12, m)
  <2>1. Sized(Component(12, 2, x), 12, m)
    BY <1>0, Table12, SMTT(60) DEF Sized, Within, Component
  <2>2. NearRow(Fdct12(Rows12, x)[3], Component(12, 2, x), 12, m)
    BY <1>0, Table12, SMTT(60) DEF NearRow, Within, RowErr, Component, Fdct12, Sums,
       Diffs, Rows12
  <2>3. NearCol(Fdct12(Cols12, x)[3], Component(12, 2, x), 12, m)
    BY <1>0, Table12, SMTT(60) DEF NearCol, Within, ColErr, ColScale, Component, Fdct12,
       Sums, Diffs, Cols12
  <2> QED
    BY <2>1, <2>2, <2>3
<1>4. /\ Sized(Component(12, 3, x), 12, m)
      /\ NearRow(Fdct12(Rows12, x)[4], Component(12, 3, x), 12, m)
      /\ NearCol(Fdct12(Cols12, x)[4], Component(12, 3, x), 12, m)
  <2>1. Sized(Component(12, 3, x), 12, m)
    BY <1>0, Table12, SMTT(60) DEF Sized, Within, Component
  <2>2. NearRow(Fdct12(Rows12, x)[4], Component(12, 3, x), 12, m)
    BY <1>0, Table12, SMTT(60) DEF NearRow, Within, RowErr, Component, Fdct12, Sums,
       Diffs, Rows12
  <2>3. NearCol(Fdct12(Cols12, x)[4], Component(12, 3, x), 12, m)
    BY <1>0, Table12, SMTT(60) DEF NearCol, Within, ColErr, ColScale, Component, Fdct12,
       Sums, Diffs, Cols12
  <2> QED
    BY <2>1, <2>2, <2>3
<1>5. /\ Sized(Component(12, 4, x), 12, m)
      /\ NearRow(Fdct12(Rows12, x)[5], Component(12, 4, x), 12, m)
      /\ NearCol(Fdct12(Cols12, x)[5], Component(12, 4, x), 12, m)
  <2>1. Sized(Component(12, 4, x), 12, m)
    BY <1>0, Table12, SMTT(60) DEF Sized, Within, Component
  <2>2. NearRow(Fdct12(Rows12, x)[5], Component(12, 4, x), 12, m)
    BY <1>0, Table12, SMTT(60) DEF NearRow, Within, RowErr, Component, Fdct12, Sums,
       Diffs, Rows12
  <2>3. Fdct12(Cols12, x)[5] =
          ((8918 * (x[0] + x[11]) + -8918 * (x[2] + x[9])) + (-8918 * (x[3] + x[8]) +
          8918 * (x[5] + x[6])))
    BY <1>0, SMTT(60) DEF Fdct12, Sums, Diffs, Cols12
  <2>4. NearCol(Fdct12(Cols12, x)[5], Component(12, 4, x), 12, m)
    BY <1>0, <2>3, Table12, SMTT(60) DEF NearCol, Within, ColErr, ColScale, Component
  <2> QED
    BY <2>1, <2>2, <2>4
<1>6. /\ Sized(Component(12, 5, x), 12, m)
      /\ NearRow(Fdct12(Rows12, x)[6], Component(12, 5, x), 12, m)
      /\ NearCol(Fdct12(Cols12, x)[6], Component(12, 5, x), 12, m)
  <2>1. Sized(Component(12, 5, x), 12, m)
    BY <1>0, Table12, SMTT(60) DEF Sized, Within, Component
  <2>2. NearRow(Fdct12(Rows12, x)[6], Component(12, 5, x), 12, m)
    BY <1>0, Table12, SMTT(60) DEF NearRow, Within, RowErr, Component, Fdct12, Sums,
       Diffs, Rows12
  <2>3. Fdct12(Cols12, x)[6] =
          (((8170 * (x[0] - x[11]) + -3941 * (x[1] - x[10])) + (-10210 * (x[2] - x[9]) +
          -1344 * (x[3] - x[8]))) + (9514 * (x[4] - x[7]) + 6269 * (x[5] - x[6])))
    BY <1>0, SMTT(60) DEF Fdct12, Sums, Diffs, Cols12
  <2>4. NearCol(Fdct12(Cols12, x)[6], Component(12, 5, x), 12, m)
    BY <1>0, <2>3, Table12, SMTT(60) DEF NearCol, Within, ColErr, ColScale, Component
  <2> QED
    BY <2>1, <2>2, <2>4
<1>7. /\ Sized(Component(12, 6, x), 12, m)
      /\ NearRow(Fdct12(Rows12, x)[7], Component(12, 6, x), 12, m)
      /\ NearCol(Fdct12(Cols12, x)[7], Component(12, 6, x), 12, m)
  <2>1. Sized(Component(12, 6, x), 12, m)
    BY <1>0, Table12, SMTT(60) DEF Sized, Within, Component
  <2>2. NearRow(Fdct12(Rows12, x)[7], Component(12, 6, x), 12, m)
    BY <1>0, Table12, SMTT(60) DEF NearRow, Within, RowErr, Component, Fdct12, Sums,
       Diffs, Rows12
  <2>3. NearCol(Fdct12(Cols12, x)[7], Component(12, 6, x), 12, m)
    BY <1>0, Table12, SMTT(60) DEF NearCol, Within, ColErr, ColScale, Component, Fdct12,
       Sums, Diffs, Cols12
  <2> QED
    BY <2>1, <2>2, <2>3
<1>8. /\ Sized(Component(12, 7, x), 12, m)
      /\ NearRow(Fdct12(Rows12, x)[8], Component(12, 7, x), 12, m)
      /\ NearCol(Fdct12(Cols12, x)[8], Component(12, 7, x), 12, m)
  <2>1. Sized(Component(12, 7, x), 12, m)
    BY <1>0, Table12, SMTT(60) DEF Sized, Within, Component
  <2>2. NearRow(Fdct12(Rows12, x)[8], Component(12, 7, x), 12, m)
    BY <1>0, Table12, SMTT(60) DEF NearRow, Within, RowErr, Component, Fdct12, Sums,
       Diffs, Rows12
  <2>3. NearCol(Fdct12(Cols12, x)[8], Component(12, 7, x), 12, m)
    BY <1>0, Table12, SMTT(60) DEF NearCol, Within, ColErr, ColScale, Component, Fdct12,
       Sums, Diffs, Cols12
  <2> QED
    BY <2>1, <2>2, <2>3
<1> QED
  BY <1>1, <1>2, <1>3, <1>4, <1>5, <1>6, <1>7, <1>8

LEMMA Table13 ==
  /\ BasisRow(13, 0) = << 4096, 4096, 4096, 4096, 4096, 4096, 4096, 4096, 4096, 4096,
        4096, 4096, 4096 >>
  /\ BasisRow(13, 1) = << 5750, 5416, 4767, 3841, 2692, 1386, 0, -1386, -2692, -3841,
        -4767, -5416, -5750 >>
  /\ BasisRow(13, 2) = << 5624, 4336, 2054, -698, -3291, -5129, -5793, -5129, -3291,
        -698, 2054, 4336, 5624 >>
  /\ BasisRow(13, 3) = << 5416, 2692, -1386, -4767, -5750, -3841, 0, 3841, 5750, 4767,
        1386, -2692, -5416 >>
  /\ BasisRow(13, 4) = << 5129, 698, -4336, -5624, -2054, 3291, 5793, 3291, -2054,
        -5624, -4336, 698, 5129 >>
  /\ BasisRow(13, 5) = << 4767, -1386, -5750, -2692, 3841, 5416, 0, -5416, -3841, 2692,
        5750, 1386, -4767 >>
  /\ BasisRow(13, 6) = << 4336, -3291, -5129, 2054, 5624, -698, -5793, -698, 5624, 2054,
        -5129, -3291, 4336 >>
  /\ BasisRow(13, 7) = << 3841, -4767, -2692, 5416, 1386, -5750, 0, 5750, -1386, -5416,
        2692, 4767, -3841 >>
BY SMTT(60) DEF BasisRow, Basis, Cosine, RootTwoCos

LEMMA Near13 ==
  ASSUME NEW m \in Nat, m >= 128, NEW x \in [0 .. 12 -> -m .. m], NEW u \in 0 .. 7
  PROVE  /\ Sized(Component(13, u, x), 13, m)
         /\ NearRow(Fdct13(Rows13, x)[u + 1], Component(13, u, x), 13, m)
         /\ NearCol(Fdct13(Cols13, x)[u + 1], Component(13, u, x), 13, m)
<1>0. \A j \in 0 .. 12 : x[j] \in Int /\ -m <= x[j] /\ x[j] <= m
  OBVIOUS
<1>1. /\ Sized(Component(13, 0, x), 13, m)
      /\ NearRow(Fdct13(Rows13, x)[1], Component(13, 0, x), 13, m)
      /\ NearCol(Fdct13(Cols13, x)[1], Component(13, 0, x), 13, m)
  <2>1. Sized(Component(13, 0, x), 13, m)
    BY <1>0, Table13, SMTT(60) DEF Sized, Within, Component
  <2>2. NearRow(Fdct13(Rows13, x)[1], Component(13, 0, x), 13, m)
    BY <1>0, Table13, SMTT(60) DEF NearRow, Within, RowErr, Component, Fdct13, Sums,
       Diffs, Rows13
  <2>3. NearCol(Fdct13(Cols13, x)[1], Component(13, 0, x), 13, m)
    BY <1>0, Table13, SMTT(60) DEF NearCol, Within, ColErr, ColScale, Component, Fdct13,
       Sums, Diffs, Cols13
  <2> QED
    BY <2>1, <2>2, <2>3
<1>2. /\ Sized(Component(13, 1, x), 13, m)
      /\ NearRow(Fdct13(Rows13, x)[2], Component(13, 1, x), 13, m)
      /\ NearCol(Fdct13(Cols13, x)[2], Component(13, 1, x), 13, m)
  <2>1. Sized(Component(13, 1, x), 13, m)
    BY <1>0, Table13, SMTT(60) DEF Sized, Within, Component
  <2>2. NearRow(Fdct13(Rows13, x)[2], Component(13, 1, x), 13, m)
    BY <1>0, Table13, SMTT(60) DEF NearRow, Within, RowErr, Component, Fdct13, Sums,
       Diffs, Rows13
  <2>3. NearCol(Fdct13(Cols13, x)[2], Component(13, 1, x), 13, m)
    BY <1>0, Table13, SMTT(60) DEF NearCol, Within, ColErr, ColScale, Component, Fdct13,
       Sums, Diffs, Cols13
  <2> QED
    BY <2>1, <2>2, <2>3
<1>3. /\ Sized(Component(13, 2, x), 13, m)
      /\ NearRow(Fdct13(Rows13, x)[3], Component(13, 2, x), 13, m)
      /\ NearCol(Fdct13(Cols13, x)[3], Component(13, 2, x), 13, m)
  <2>1. Sized(Component(13, 2, x), 13, m)
    BY <1>0, Table13, SMTT(60) DEF Sized, Within, Component
  <2>2. NearRow(Fdct13(Rows13, x)[3], Component(13, 2, x), 13, m)
    BY <1>0, Table13, SMTT(60) DEF NearRow, Within, RowErr, Component, Fdct13, Sums,
       Diffs, Rows13
  <2>3. NearCol(Fdct13(Cols13, x)[3], Component(13, 2, x), 13, m)
    BY <1>0, Table13, SMTT(60) DEF NearCol, Within, ColErr, ColScale, Component, Fdct13,
       Sums, Diffs, Cols13
  <2> QED
    BY <2>1, <2>2, <2>3
<1>4. /\ Sized(Component(13, 3, x), 13, m)
      /\ NearRow(Fdct13(Rows13, x)[4], Component(13, 3, x), 13, m)
      /\ NearCol(Fdct13(Cols13, x)[4], Component(13, 3, x), 13, m)
  <2>1. Sized(Component(13, 3, x), 13, m)
    BY <1>0, Table13, SMTT(60) DEF Sized, Within, Component
  <2>2. NearRow(Fdct13(Rows13, x)[4], Component(13, 3, x), 13, m)
    BY <1>0, Table13, SMTT(60) DEF NearRow, Within, RowErr, Component, Fdct13, Sums,
       Diffs, Rows13
  <2>3. NearCol(Fdct13(Cols13, x)[4], Component(13, 3, x), 13, m)
    BY <1>0, Table13, SMTT(60) DEF NearCol, Within, ColErr, ColScale, Component, Fdct13,
       Sums, Diffs, Cols13
  <2> QED
    BY <2>1, <2>2, <2>3
<1>5. /\ Sized(Component(13, 4, x), 13, m)
      /\ NearRow(Fdct13(Rows13, x)[5], Component(13, 4, x), 13, m)
      /\ NearCol(Fdct13(Cols13, x)[5], Component(13, 4, x), 13, m)
  <2>1. Sized(Component(13, 4, x), 13, m)
    BY <1>0, Table13, SMTT(60) DEF Sized, Within, Component
  <2>2. NearRow(Fdct13(Rows13, x)[5], Component(13, 4, x), 13, m)
    BY <1>0, Table13, SMTT(60) DEF NearRow, Within, RowErr, Component, Fdct13, Sums,
       Diffs, Rows13
  <2>3. NearCol(Fdct13(Cols13, x)[5], Component(13, 4, x), 13, m)
    BY <1>0, Table13, SMTT(60) DEF NearCol, Within, ColErr, ColScale, Component, Fdct13,
       Sums, Diffs, Cols13
  <2> QED
    BY <2>1, <2>2, <2>3
<1>6. /\ Sized(Component(13, 5, x), 13, m)
      /\ NearRow(Fdct13(Rows13, x)[6], Component(13, 5, x), 13, m)
      /\ NearCol(Fdct13(Cols13, x)[6], Component(13, 5, x), 13, m)
  <2>1. Sized(Component(13, 5, x), 13, m)
    BY <1>0, Table13, SMTT(60) DEF Sized, Within, Component
  <2>2. NearRow(Fdct13(Rows13, x)[6], Component(13, 5, x), 13, m)
    BY <1>0, Table13, SMTT(60) DEF NearRow, Within, RowErr, Component, Fdct13, Sums,
       Diffs, Rows13
  <2>3. NearCol(Fdct13(Cols13, x)[6], Component(13, 5, x), 13, m)
    BY <1>0, Table13, SMTT(60) DEF NearCol, Within, ColErr, ColScale, Component, Fdct13,
       Sums, Diffs, Cols13
  <2> QED
    BY <2>1, <2>2, <2>3
<1>7. /\ Sized(Component(13, 6, x), 13, m)
      /\ NearRow(Fdct13(Rows13, x)[7], Component(13, 6, x), 13, m)
      /\ NearCol(Fdct13(Cols13, x)[7], Component(13, 6, x), 13, m)
  <2>1. Sized(Component(13, 6, x), 13, m)
    BY <1>0, Table13, SMTT(60) DEF Sized, Within, Component
  <2>2. NearRow(Fdct13(Rows13, x)[7], Component(13, 6, x), 13, m)
    BY <1>0, Table13, SMTT(60) DEF NearRow, Within, RowErr, Component, Fdct13, Sums,
       Diffs, Rows13
  <2>3. NearCol(Fdct13(Cols13, x)[7], Component(13, 6, x), 13, m)
    BY <1>0, Table13, SMTT(60) DEF NearCol, Within, ColErr, ColScale, Component, Fdct13,
       Sums, Diffs, Cols13
  <2> QED
    BY <2>1, <2>2, <2>3
<1>8. /\ Sized(Component(13, 7, x), 13, m)
      /\ NearRow(Fdct13(Rows13, x)[8], Component(13, 7, x), 13, m)
      /\ NearCol(Fdct13(Cols13, x)[8], Component(13, 7, x), 13, m)
  <2>1. Sized(Component(13, 7, x), 13, m)
    BY <1>0, Table13, SMTT(60) DEF Sized, Within, Component
  <2>2. NearRow(Fdct13(Rows13, x)[8], Component(13, 7, x), 13, m)
    BY <1>0, Table13, SMTT(60) DEF NearRow, Within, RowErr, Component, Fdct13, Sums,
       Diffs, Rows13
  <2>3. NearCol(Fdct13(Cols13, x)[8], Component(13, 7, x), 13, m)
    BY <1>0, Table13, SMTT(60) DEF NearCol, Within, ColErr, ColScale, Component, Fdct13,
       Sums, Diffs, Cols13
  <2> QED
    BY <2>1, <2>2, <2>3
<1> QED
  BY <1>1, <1>2, <1>3, <1>4, <1>5, <1>6, <1>7, <1>8

LEMMA Table14 ==
  /\ BasisRow(14, 0) = << 4096, 4096, 4096, 4096, 4096, 4096, 4096, 4096, 4096, 4096,
        4096, 4096, 4096, 4096 >>
  /\ BasisRow(14, 1) = << 5756, 5468, 4905, 4096, 3082, 1913, 649, -649, -1913, -3082,
        -4096, -4905, -5468, -5756 >>
  /\ BasisRow(14, 2) = << 5647, 4529, 2513, 0, -2513, -4529, -5647, -5647, -4529, -2513,
        0, 2513, 4529, 5647 >>
  /\ BasisRow(14, 3) = << 5468, 3082, -649, -4096, -5756, -4905, -1913, 1913, 4905,
        5756, 4096, 649, -3082, -5468 >>
  /\ BasisRow(14, 4) = << 5219, 1289, -3612, -5793, -3612, 1289, 5219, 5219, 1289,
        -3612, -5793, -3612, 1289, 5219 >>
  /\ BasisRow(14, 5) = << 4905, -649, -5468, -4096, 1913, 5756, 3082, -3082, -5756,
        -1913, 4096, 5468, 649, -4905 >>
  /\ BasisRow(14, 6) = << 4529, -2513, -5647, 0, 5647, 2513, -4529, -4529, 2513, 5647,
        0, -5647, -2513, 4529 >>
  /\ BasisRow(14, 7) = << 4096, -4096, -4096, 4096, 4096, -4096, -4096, 4096, 4096,
        -4096, -4096, 4096, 4096, -4096 >>
BY SMTT(60) DEF BasisRow, Basis, Cosine, RootTwoCos

LEMMA Near14 ==
  ASSUME NEW m \in Nat, m >= 128, NEW x \in [0 .. 13 -> -m .. m], NEW u \in 0 .. 7
  PROVE  /\ Sized(Component(14, u, x), 14, m)
         /\ NearRow(Fdct14(Rows14, x)[u + 1], Component(14, u, x), 14, m)
         /\ NearCol(Fdct14(Cols14, x)[u + 1], Component(14, u, x), 14, m)
<1>0. \A j \in 0 .. 13 : x[j] \in Int /\ -m <= x[j] /\ x[j] <= m
  OBVIOUS
<1>1. /\ Sized(Component(14, 0, x), 14, m)
      /\ NearRow(Fdct14(Rows14, x)[1], Component(14, 0, x), 14, m)
      /\ NearCol(Fdct14(Cols14, x)[1], Component(14, 0, x), 14, m)
  <2>1. Sized(Component(14, 0, x), 14, m)
    BY <1>0, Table14, SMTT(60) DEF Sized, Within, Component
  <2>2. NearRow(Fdct14(Rows14, x)[1], Component(14, 0, x), 14, m)
    BY <1>0, Table14, SMTT(60) DEF NearRow, Within, RowErr, Component, Fdct14, Sums,
       Diffs, Rows14
  <2>3. NearCol(Fdct14(Cols14, x)[1], Component(14, 0, x), 14, m)
    BY <1>0, Table14, SMTT(60) DEF NearCol, Within, ColErr, ColScale, Component, Fdct14,
       Sums, Diffs, Cols14
  <2> QED
    BY <2>1, <2>2, <2>3
<1>2. /\ Sized(Component(14, 1, x), 14, m)
      /\ NearRow(Fdct14(Rows14, x)[2], Component(14, 1, x), 14, m)
      /\ NearCol(Fdct14(Cols14, x)[2], Component(14, 1, x), 14, m)
  <2>1. Sized(Component(14, 1, x), 14, m)
    BY <1>0, Table14, SMTT(60) DEF Sized, Within, Component
  <2>2. NearRow(Fdct14(Rows14, x)[2], Component(14, 1, x), 14, m)
    BY <1>0, Table14, SMTT(60) DEF NearRow, Within, RowErr, Component, Fdct14, Sums,
       Diffs, Rows14
  <2>3. NearCol(Fdct14(Cols14, x)[2], Component(14, 1, x), 14, m)
    BY <1>0, Table14, SMTT(60) DEF NearCol, Within, ColErr, ColScale, Component, Fdct14,
       Sums, Diffs, Cols14
  <2> QED
    BY <2>1, <2>2, <2>3
<1>3. /\ Sized(Component(14, 2, x), 14, m)
      /\ NearRow(Fdct14(Rows14, x)[3], Component(14, 2, x), 14, m)
      /\ NearCol(Fdct14(Cols14, x)[3], Component(14, 2, x), 14, m)
  <2>1. Sized(Component(14, 2, x), 14, m)
    BY <1>0, Table14, SMTT(60) DEF Sized, Within, Component
  <2>2. NearRow(Fdct14(Rows14, x)[3], Component(14, 2, x), 14, m)
    BY <1>0, Table14, SMTT(60) DEF NearRow, Within, RowErr, Component, Fdct14, Sums,
       Diffs, Rows14
  <2>3. NearCol(Fdct14(Cols14, x)[3], Component(14, 2, x), 14, m)
    BY <1>0, Table14, SMTT(60) DEF NearCol, Within, ColErr, ColScale, Component, Fdct14,
       Sums, Diffs, Cols14
  <2> QED
    BY <2>1, <2>2, <2>3
<1>4. /\ Sized(Component(14, 3, x), 14, m)
      /\ NearRow(Fdct14(Rows14, x)[4], Component(14, 3, x), 14, m)
      /\ NearCol(Fdct14(Cols14, x)[4], Component(14, 3, x), 14, m)
  <2>1. Sized(Component(14, 3, x), 14, m)
    BY <1>0, Table14, SMTT(60) DEF Sized, Within, Component
  <2>2. NearRow(Fdct14(Rows14, x)[4], Component(14, 3, x), 14, m)
    BY <1>0, Table14, SMTT(60) DEF NearRow, Within, RowErr, Component, Fdct14, Sums,
       Diffs, Rows14
  <2>3. NearCol(Fdct14(Cols14, x)[4], Component(14, 3, x), 14, m)
    BY <1>0, Table14, SMTT(60) DEF NearCol, Within, ColErr, ColScale, Component, Fdct14,
       Sums, Diffs, Cols14
  <2> QED
    BY <2>1, <2>2, <2>3
<1>5. /\ Sized(Component(14, 4, x), 14, m)
      /\ NearRow(Fdct14(Rows14, x)[5], Component(14, 4, x), 14, m)
      /\ NearCol(Fdct14(Cols14, x)[5], Component(14, 4, x), 14, m)
  <2>1. Sized(Component(14, 4, x), 14, m)
    BY <1>0, Table14, SMTT(60) DEF Sized, Within, Component
  <2>2. NearRow(Fdct14(Rows14, x)[5], Component(14, 4, x), 14, m)
    BY <1>0, Table14, SMTT(60) DEF NearRow, Within, RowErr, Component, Fdct14, Sums,
       Diffs, Rows14
  <2>3. NearCol(Fdct14(Cols14, x)[5], Component(14, 4, x), 14, m)
    BY <1>0, Table14, SMTT(60) DEF NearCol, Within, ColErr, ColScale, Component, Fdct14,
       Sums, Diffs, Cols14
  <2> QED
    BY <2>1, <2>2, <2>3
<1>6. /\ Sized(Component(14, 5, x), 14, m)
      /\ NearRow(Fdct14(Rows14, x)[6], Component(14, 5, x), 14, m)
      /\ NearCol(Fdct14(Cols14, x)[6], Component(14, 5, x), 14, m)
  <2>1. Sized(Component(14, 5, x), 14, m)
    BY <1>0, Table14, SMTT(60) DEF Sized, Within, Component
  <2>2. NearRow(Fdct14(Rows14, x)[6], Component(14, 5, x), 14, m)
    BY <1>0, Table14, SMTT(60) DEF NearRow, Within, RowErr, Component, Fdct14, Sums,
       Diffs, Rows14
  <2>3. NearCol(Fdct14(Cols14, x)[6], Component(14, 5, x), 14, m)
    BY <1>0, Table14, SMTT(60) DEF NearCol, Within, ColErr, ColScale, Component, Fdct14,
       Sums, Diffs, Cols14
  <2> QED
    BY <2>1, <2>2, <2>3
<1>7. /\ Sized(Component(14, 6, x), 14, m)
      /\ NearRow(Fdct14(Rows14, x)[7], Component(14, 6, x), 14, m)
      /\ NearCol(Fdct14(Cols14, x)[7], Component(14, 6, x), 14, m)
  <2>1. Sized(Component(14, 6, x), 14, m)
    BY <1>0, Table14, SMTT(60) DEF Sized, Within, Component
  <2>2. NearRow(Fdct14(Rows14, x)[7], Component(14, 6, x), 14, m)
    BY <1>0, Table14, SMTT(60) DEF NearRow, Within, RowErr, Component, Fdct14, Sums,
       Diffs, Rows14
  <2>3. NearCol(Fdct14(Cols14, x)[7], Component(14, 6, x), 14, m)
    BY <1>0, Table14, SMTT(60) DEF NearCol, Within, ColErr, ColScale, Component, Fdct14,
       Sums, Diffs, Cols14
  <2> QED
    BY <2>1, <2>2, <2>3
<1>8. /\ Sized(Component(14, 7, x), 14, m)
      /\ NearRow(Fdct14(Rows14, x)[8], Component(14, 7, x), 14, m)
      /\ NearCol(Fdct14(Cols14, x)[8], Component(14, 7, x), 14, m)
  <2>1. Sized(Component(14, 7, x), 14, m)
    BY <1>0, Table14, SMTT(60) DEF Sized, Within, Component
  <2>2. NearRow(Fdct14(Rows14, x)[8], Component(14, 7, x), 14, m)
    BY <1>0, Table14, SMTT(60) DEF NearRow, Within, RowErr, Component, Fdct14, Sums,
       Diffs, Rows14
  <2>3. NearCol(Fdct14(Cols14, x)[8], Component(14, 7, x), 14, m)
    BY <1>0, Table14, SMTT(60) DEF NearCol, Within, ColErr, ColScale, Component, Fdct14,
       Sums, Diffs, Cols14
  <2> QED
    BY <2>1, <2>2, <2>3
<1> QED
  BY <1>1, <1>2, <1>3, <1>4, <1>5, <1>6, <1>7, <1>8

LEMMA Table15 ==
  /\ BasisRow(15, 0) = << 4096, 4096, 4096, 4096, 4096, 4096, 4096, 4096, 4096, 4096,
        4096, 4096, 4096, 4096, 4096 >>
  /\ BasisRow(15, 1) = << 5761, 5509, 5017, 4305, 3405, 2356, 1204, 0, -1204, -2356,
        -3405, -4305, -5017, -5509, -5761 >>
  /\ BasisRow(15, 2) = << 5666, 4686, 2896, 605, -1790, -3876, -5292, -5793, -5292,
        -3876, -1790, 605, 2896, 4686, 5666 >>
  /\ BasisRow(15, 3) = << 5509, 3405, 0, -3405, -5509, -5509, -3405, 0, 3405, 5509,
        5509, 3405, 0, -3405, -5509 >>
  /\ BasisRow(15, 4) = << 5292, 1790, -2896, -5666, -4686, -605, 3876, 5793, 3876, -605,
        -4686, -5666, -2896, 1790, 5292 >>
  /\ BasisRow(15, 5) = << 5017, 0, -5017, -5017, 0, 5017, 5017, 0, -5017, -5017, 0,
        5017, 5017, 0, -5017 >>
  /\ BasisRow(15, 6) = << 4686, -1790, -5793, -1790, 4686, 4686, -1790, -5793, -1790,
        4686, 4686, -1790, -5793, -1790, 4686 >>
  /\ BasisRow(15, 7) = << 4305, -3405, -5017, 2356, 5509, -1204, -5761, 0, 5761, 1204,
        -5509, -2356, 5017, 3405, -4305 >>
BY SMTT(60) DEF BasisRow, Basis, Cosine, RootTwoCos

LEMMA Near15 ==
  ASSUME NEW m \in Nat, m >= 128, NEW x \in [0 .. 14 -> -m .. m], NEW u \in 0 .. 7
  PROVE  /\ Sized(Component(15, u, x), 15, m)
         /\ NearRow(Fdct15(Rows15, x)[u + 1], Component(15, u, x), 15, m)
         /\ NearCol(Fdct15(Cols15, x)[u + 1], Component(15, u, x), 15, m)
<1>0. \A j \in 0 .. 14 : x[j] \in Int /\ -m <= x[j] /\ x[j] <= m
  OBVIOUS
<1>1. /\ Sized(Component(15, 0, x), 15, m)
      /\ NearRow(Fdct15(Rows15, x)[1], Component(15, 0, x), 15, m)
      /\ NearCol(Fdct15(Cols15, x)[1], Component(15, 0, x), 15, m)
  <2>1. Sized(Component(15, 0, x), 15, m)
    BY <1>0, Table15, SMTT(60) DEF Sized, Within, Component
  <2>2. NearRow(Fdct15(Rows15, x)[1], Component(15, 0, x), 15, m)
    BY <1>0, Table15, SMTT(60) DEF NearRow, Within, RowErr, Component, Fdct15, Sums,
       Diffs, Rows15
  <2>3. NearCol(Fdct15(Cols15, x)[1], Component(15, 0, x), 15, m)
    BY <1>0, Table15, SMTT(60) DEF NearCol, Within, ColErr, ColScale, Component, Fdct15,
       Sums, Diffs, Cols15
  <2> QED
    BY <2>1, <2>2, <2>3
<1>2. /\ Sized(Component(15, 1, x), 15, m)
      /\ NearRow(Fdct15(Rows15, x)[2], Component(15, 1, x), 15, m)
      /\ NearCol(Fdct15(Cols15, x)[2], Component(15, 1, x), 15, m)
  <2>1. Sized(Component(15, 1, x), 15, m)
    BY <1>0, Table15, SMTT(60) DEF Sized, Within, Component
  <2>2. NearRow(Fdct15(Rows15, x)[2], Component(15, 1, x), 15, m)
    BY <1>0, Table15, SMTT(60) DEF NearRow, Within, RowErr, Component, Fdct15, Sums,
       Diffs, Rows15
  <2>3. NearCol(Fdct15(Cols15, x)[2], Component(15, 1, x), 15, m)
    BY <1>0, Table15, SMTT(60) DEF NearCol, Within, ColErr, ColScale, Component, Fdct15,
       Sums, Diffs, Cols15
  <2> QED
    BY <2>1, <2>2, <2>3
<1>3. /\ Sized(Component(15, 2, x), 15, m)
      /\ NearRow(Fdct15(Rows15, x)[3], Component(15, 2, x), 15, m)
      /\ NearCol(Fdct15(Cols15, x)[3], Component(15, 2, x), 15, m)
  <2>1. Sized(Component(15, 2, x), 15, m)
    BY <1>0, Table15, SMTT(60) DEF Sized, Within, Component
  <2>2. Fdct15(Rows15, x)[3] =
          (((11332 * (x[0] + x[14]) + 6476 * (x[1] + x[13])) + (5793 * (x[2] + x[12]) +
          1211 * (x[3] + x[11]))) + ((-6476 * (x[4] + x[10]) + -7752 * (x[5] + x[9])) +
          (-10584 * (x[6] + x[8]) + -11586 * x[7]))) + 5793 * ((((x[1] + x[13]) + (x[4]
          + x[10])) \div 2))
    BY <1>0, SMTT(60) DEF Fdct15, Sums, Diffs, Rows15
  <2>3. Fdct15(Cols15, x)[3] =
          (((12893 * (x[0] + x[14]) + 7369 * (x[1] + x[13])) + (6591 * (x[2] + x[12]) +
          1378 * (x[3] + x[11]))) + ((-7369 * (x[4] + x[10]) + -8820 * (x[5] + x[9])) +
          (-12042 * (x[6] + x[8]) + -13182 * x[7]))) + 6591 * ((((x[1] + x[13]) + (x[4]
          + x[10])) \div 2))
    BY <1>0, SMTT(60) DEF Fdct15, Sums, Diffs, Cols15
  <2>4. NearRow(Fdct15(Rows15, x)[3], Component(15, 2, x), 15, m)
    BY <1>0, <2>2, Table15, SMTT(60) DEF NearRow, Within, RowErr, Component
  <2>5. NearCol(Fdct15(Cols15, x)[3], Component(15, 2, x), 15, m)
    BY <1>0, <2>3, Table15, SMTT(60) DEF NearCol, Within, ColErr, ColScale, Component
  <2> QED
    BY <2>1, <2>2, <2>3, <2>4, <2>5
<1>4. /\ Sized(Component(15, 3, x), 15, m)
      /\ NearRow(Fdct15(Rows15, x)[4], Component(15, 3, x), 15, m)
      /\ NearCol(Fdct15(Cols15, x)[4], Component(15, 3, x), 15, m)
  <2>1. Sized(Component(15, 3, x), 15, m)
    BY <1>0, Table15, SMTT(60) DEF Sized, Within, Component
  <2>2. NearRow(Fdct15(Rows15, x)[4], Component(15, 3, x), 15, m)
    BY <1>0, Table15, SMTT(60) DEF NearRow, Within, RowErr, Component, Fdct15, Sums,
       Diffs, Rows15
  <2>3. NearCol(Fdct15(Cols15, x)[4], Component(15, 3, x), 15, m)
    BY <1>0, Table15, SMTT(60) DEF NearCol, Within, ColErr, ColScale, Component, Fdct15,
       Sums, Diffs, Cols15
  <2> QED
    BY <2>1, <2>2, <2>3
<1>5. /\ Sized(Component(15, 4, x), 15, m)
      /\ NearRow(Fdct15(Rows15, x)[5], Component(15, 4, x), 15, m)
      /\ NearCol(Fdct15(Cols15, x)[5], Component(15, 4, x), 15, m)
  <2>1. Sized(Component(15, 4, x), 15, m)
    BY <1>0, Table15, SMTT(60) DEF Sized, Within, Component
  <2>2. Fdct15(Rows15, x)[5] =
          (((10584 * (x[0] + x[14]) + 6476 * (x[1] + x[13])) + (-5793 * (x[2] + x[12]) +
          -11332 * (x[3] + x[11]))) + ((-6476 * (x[4] + x[10]) + -1211 * (x[5] + x[9]))
          + (7752 * (x[6] + x[8]) + 11586 * x[7]))) + -5793 * ((((x[1] + x[13]) + (x[4]
          + x[10])) \div 2))
    BY <1>0, SMTT(60) DEF Fdct15, Sums, Diffs, Rows15
  <2>3. Fdct15(Cols15, x)[5] =
          (((12041 * (x[0] + x[14]) + 7369 * (x[1] + x[13])) + (-6590 * (x[2] + x[12]) +
          -12893 * (x[3] + x[11]))) + ((-7369 * (x[4] + x[10]) + -1378 * (x[5] + x[9]))
          + (8820 * (x[6] + x[8]) + 13180 * x[7]))) + -6590 * ((((x[1] + x[13]) + (x[4]
          + x[10])) \div 2))
    BY <1>0, SMTT(60) DEF Fdct15, Sums, Diffs, Cols15
  <2>4. NearRow(Fdct15(Rows15, x)[5], Component(15, 4, x), 15, m)
    BY <1>0, <2>2, Table15, SMTT(60) DEF NearRow, Within, RowErr, Component
  <2>5. NearCol(Fdct15(Cols15, x)[5], Component(15, 4, x), 15, m)
    BY <1>0, <2>3, Table15, SMTT(60) DEF NearCol, Within, ColErr, ColScale, Component
  <2> QED
    BY <2>1, <2>2, <2>3, <2>4, <2>5
<1>6. /\ Sized(Component(15, 5, x), 15, m)
      /\ NearRow(Fdct15(Rows15, x)[6], Component(15, 5, x), 15, m)
      /\ NearCol(Fdct15(Cols15, x)[6], Component(15, 5, x), 15, m)
  <2>1. Sized(Component(15, 5, x), 15, m)
    BY <1>0, Table15, SMTT(60) DEF Sized, Within, Component
  <2>2. NearRow(Fdct15(Rows15, x)[6], Component(15, 5, x), 15, m)
    BY <1>0, Table15, SMTT(60) DEF NearRow, Within, RowErr, Component, Fdct15, Sums,
       Diffs, Rows15
  <2>3. NearCol(Fdct15(Cols15, x)[6], Component(15, 5, x), 15, m)
    BY <1>0, Table15, SMTT(60) DEF NearCol, Within, ColErr, ColScale, Component, Fdct15,
       Sums, Diffs, Cols15
  <2> QED
    BY <2>1, <2>2, <2>3
<1>7. /\ Sized(Component(15, 6, x), 15, m)
      /\ NearRow(Fdct15(Rows15, x)[7], Component(15, 6, x), 15, m)
      /\ NearCol(Fdct15(Cols15, x)[7], Component(15, 6, x), 15, m)
  <2>1. Sized(Component(15, 6, x), 15, m)
    BY <1>0, Table15, SMTT(60) DEF Sized, Within, Component
  <2>2. NearRow(Fdct15(Rows15, x)[7], Component(15, 6, x), 15, m)
    BY <1>0, Table15, SMTT(60) DEF NearRow, Within, RowErr, Component, Fdct15, Sums,
       Diffs, Rows15
  <2>3. NearCol(Fdct15(Cols15, x)[7], Component(15, 6, x), 15, m)
    BY <1>0, Table15, SMTT(60) DEF NearCol, Within, ColErr, ColScale, Component, Fdct15,
       Sums, Diffs, Cols15
  <2> QED
    BY <2>1, <2>2, <2>3
<1>8. /\ Sized(Component(15, 7, x), 15, m)
      /\ NearRow(Fdct15(Rows15, x)[8], Component(15, 7, x), 15, m)
      /\ NearCol(Fdct15(Cols15, x)[8], Component(15, 7, x), 15, m)
  <2>1. Sized(Component(15, 7, x), 15, m)
    BY <1>0, Table15, SMTT(60) DEF Sized, Within, Component
  <2>2. NearRow(Fdct15(Rows15, x)[8], Component(15, 7, x), 15, m)
    BY <1>0, Table15, SMTT(60) DEF NearRow, Within, RowErr, Component, Fdct15, Sums,
       Diffs, Rows15
  <2>3. NearCol(Fdct15(Cols15, x)[8], Component(15, 7, x), 15, m)
    BY <1>0, Table15, SMTT(60) DEF NearCol, Within, ColErr, ColScale, Component, Fdct15,
       Sums, Diffs, Cols15
  <2> QED
    BY <2>1, <2>2, <2>3
<1> QED
  BY <1>1, <1>2, <1>3, <1>4, <1>5, <1>6, <1>7, <1>8

LEMMA Table16 ==
  /\ BasisRow(16, 0) = << 4096, 4096, 4096, 4096, 4096, 4096, 4096, 4096, 4096, 4096,
        4096, 4096, 4096, 4096, 4096, 4096 >>
  /\ BasisRow(16, 1) = << 5765, 5543, 5109, 4478, 3675, 2731, 1682, 568, -568, -1682,
        -2731, -3675, -4478, -5109, -5543, -5765 >>
  /\ BasisRow(16, 2) = << 5681, 4816, 3218, 1130, -1130, -3218, -4816, -5681, -5681,
        -4816, -3218, -1130, 1130, 3218, 4816, 5681 >>
  /\ BasisRow(16, 3) = << 5543, 3675, 568, -2731, -5109, -5765, -4478, -1682, 1682,
        4478, 5765, 5109, 2731, -568, -3675, -5543 >>
  /\ BasisRow(16, 4) = << 5352, 2217, -2217, -5352, -5352, -2217, 2217, 5352, 5352,
        2217, -2217, -5352, -5352, -2217, 2217, 5352 >>
  /\ BasisRow(16, 5) = << 5109, 568, -4478, -5543, -1682, 3675, 5765, 2731, -2731,
        -5765, -3675, 1682, 5543, 4478, -568, -5109 >>
  /\ BasisRow(16, 6) = << 4816, -1130, -5681, -3218, 3218, 5681, 1130, -4816, -4816,
        1130, 5681, 3218, -3218, -5681, -1130, 4816 >>
  /\ BasisRow(16, 7) = << 4478, -2731, -5543, 568, 5765, 1682, -5109, -3675, 3675, 5109,
        -1682, -5765, -568, 5543, 2731, -4478 >>
BY SMTT(60) DEF BasisRow, Basis, Cosine, RootTwoCos

LEMMA Near16 ==
  ASSUME NEW m \in Nat, m >= 128, NEW x \in [0 .. 15 -> -m .. m], NEW u \in 0 .. 7
  PROVE  /\ Sized(Component(16, u, x), 16, m)
         /\ NearRow(Fdct16(Rows16, x)[u + 1], Component(16, u, x), 16, m)
         /\ NearCol(Fdct16(Rows16, x)[u + 1], Component(16, u, x), 16, m)
<1>0. \A j \in 0 .. 15 : x[j] \in Int /\ -m <= x[j] /\ x[j] <= m
  OBVIOUS
<1>1. /\ Sized(Component(16, 0, x), 16, m)
      /\ NearRow(Fdct16(Rows16, x)[1], Component(16, 0, x), 16, m)
      /\ NearCol(Fdct16(Rows16, x)[1], Component(16, 0, x), 16, m)
  <2>1. Sized(Component(16, 0, x), 16, m)
    BY <1>0, Table16, SMTT(60) DEF Sized, Within, Component
  <2>2. Fdct16(Rows16, x)[1] \in Int
    BY <1>0, SMTT(60) DEF Fdct16, Sums, Diffs, Rows16
  <2>3. NearRow(Fdct16(Rows16, x)[1], Component(16, 0, x), 16, m)
    BY <1>0, Table16, SMTT(60) DEF NearRow, Within, RowErr, Component, Fdct16, Sums,
       Diffs, Rows16
  <2>4. NearCol(Fdct16(Rows16, x)[1], Component(16, 0, x), 16, m)
    BY <2>1, <2>2, <2>3, SMT DEF Sized, NearRow, NearCol, Within, RowErr, ColErr, ColScale
  <2> QED
    BY <2>1, <2>2, <2>3, <2>4
<1>2. /\ Sized(Component(16, 1, x), 16, m)
      /\ NearRow(Fdct16(Rows16, x)[2], Component(16, 1, x), 16, m)
      /\ NearCol(Fdct16(Rows16, x)[2], Component(16, 1, x), 16, m)
  <2>1. Sized(Component(16, 1, x), 16, m)
    BY <1>0, Table16, SMTT(60) DEF Sized, Within, Component
  <2>2. Fdct16(Rows16, x)[2] =
          (((11529 * (x[0] - x[15]) + 11086 * (x[1] - x[14])) + (10217 * (x[2] - x[13])
          + 8956 * (x[3] - x[12]))) + ((7350 * (x[4] - x[11]) + 5461 * (x[5] - x[10])) +
          (3363 * (x[6] - x[9]) + 1135 * (x[7] - x[8]))))
    BY <1>0, SMTT(60) DEF Fdct16, Sums, Diffs, Rows16
  <2>3. Fdct16(Rows16, x)[2] \in Int
    BY <1>0, <2>2
  <2>4. NearRow(Fdct16(Rows16, x)[2], Component(16, 1, x), 16, m)
    BY <1>0, <2>2, Table16, SMTT(60) DEF NearRow, Within, RowErr, Component
  <2>5. NearCol(Fdct16(Rows16, x)[2], Component(16, 1, x), 16, m)
    BY <2>1, <2>3, <2>4, SMT DEF Sized, NearRow, NearCol, Within, RowErr, ColErr, ColScale
  <2> QED
    BY <2>1, <2>2, <2>3, <2>4, <2>5
<1>3. /\ Sized(Component(16, 2, x), 16, m)
      /\ NearRow(Fdct16(Rows16, x)[3], Component(16, 2, x), 16, m)
      /\ NearCol(Fdct16(Rows16, x)[3], Component(16, 2, x), 16, m)
  <2>1. Sized(Component(16, 2, x), 16, m)
    BY <1>0, Table16, SMTT(60) DEF Sized, Within, Component
  <2>2. Fdct16(Rows16, x)[3] =
          (((11363 * (x[0] + x[15]) + 9633 * (x[1] + x[14])) + (6436 * (x[2] + x[13]) +
          2260 * (x[3] + x[12]))) + ((-2260 * (x[4] + x[11]) + -6436 * (x[5] + x[10])) +
          (-9633 * (x[6] + x[9]) + -11363 * (x[7] + x[8]))))
    BY <1>0, SMTT(60) DEF Fdct16, Sums, Diffs, Rows16
  <2>3. Fdct16(Rows16, x)[3] \in Int
    BY <1>0, <2>2
  <2>4. NearRow(Fdct16(Rows16, x)[3], Component(16, 2, x), 16, m)
    BY <1>0, <2>2, Table16, SMTT(60) DEF NearRow, Within, RowErr, Component
  <2>5. NearCol(Fdct16(Rows16, x)[3], Component(16, 2, x), 16, m)
    BY <2>1, <2>3, <2>4, SMT DEF Sized, NearRow, NearCol, Within, RowErr, ColErr, ColScale
  <2> QED
    BY <2>1, <2>2, <2>3, <2>4, <2>5
<1>4. /\ Sized(Component(16, 3, x), 16, m)
      /\ NearRow(Fdct16(Rows16, x)[4], Component(16, 3, x), 16, m)
      /\ NearCol(Fdct16(Rows16, x)[4], Component(16, 3, x), 16, m)
  <2>1. Sized(Component(16, 3, x), 16, m)
    BY <1>0, Table16, SMTT(60) DEF Sized, Within, Component
  <2>2. Fdct16(Rows16, x)[4] =
          (((11086 * (x[0] - x[15]) + 7350 * (x[1] - x[14])) + (1136 * (x[2] - x[13]) +
          -5461 * (x[3] - x[12]))) + ((-10217 * (x[4] - x[11]) + -11529 * (x[5] -
          x[10])) + (-8956 * (x[6] - x[9]) + -3363 * (x[7] - x[8]))))
    BY <1>0, SMTT(60) DEF Fdct16, Sums, Diffs, Rows16
  <2>3. Fdct16(Rows16, x)[4] \in Int
    BY <1>0, <2>2
  <2>4. NearRow(Fdct16(Rows16, x)[4], Component(16, 3, x), 16, m)
    BY <1>0, <2>2, Table16, SMTT(60) DEF NearRow, Within, RowErr, Component
  <2>5. NearCol(Fdct16(Rows16, x)[4], Component(16, 3, x), 16, m)
    BY <2>1, <2>3, <2>4, SMT DEF Sized, NearRow, NearCol, Within, RowErr, ColErr, ColScale
  <2> QED
    BY <2>1, <2>2, <2>3, <2>4, <2>5
<1>5. /\ Sized(Component(16, 4, x), 16, m)
      /\ NearRow(Fdct16(Rows16, x)[5], Component(16, 4, x), 16, m)
      /\ NearCol(Fdct16(Rows16, x)[5], Component(16, 4, x), 16, m)
  <2>1. Sized(Component(16, 4, x), 16, m)
    BY <1>0, Table16, SMTT(60) DEF Sized, Within, Component
  <2>2. Fdct16(Rows16, x)[5] =
          (((10703 * (x[0] + x[15]) + 4433 * (x[1] + x[14])) + (-4433 * (x[2] + x[13]) +
          -10703 * (x[3] + x[12]))) + ((-10703 * (x[4] + x[11]) + -4433 * (x[5] +
          x[10])) + (4433 * (x[6] + x[9]) + 10703 * (x[7] + x[8]))))
    BY <1>0, SMTT(60) DEF Fdct16, Sums, Diffs, Rows16
  <2>3. Fdct16(Rows16, x)[5] \in Int
    BY <1>0, <2>2
  <2>4. NearRow(Fdct16(Rows16, x)[5], Component(16, 4, x), 16, m)
    BY <1>0, <2>2, Table16, SMTT(60) DEF NearRow, Within, RowErr, Component
  <2>5. NearCol(Fdct16(Rows16, x)[5], Component(16, 4, x), 16, m)
    BY <2>1, <2>3, <2>4, SMT DEF Sized, NearRow, NearCol, Within, RowErr, ColErr, ColScale
  <2> QED
    BY <2>1, <2>2, <2>3, <2>4, <2>5
<1>6. /\ Sized(Component(16, 5, x), 16, m)
      /\ NearRow(Fdct16(Rows16, x)[6], Component(16, 5, x), 16, m)
      /\ NearCol(Fdct16(Rows16, x)[6], Component(16, 5, x), 16, m)
  <2>1. Sized(Component(16, 5, x), 16, m)
    BY <1>0, Table16, SMTT(60) DEF Sized, Within, Component
  <2>2. Fdct16(Rows16, x)[6] =
          (((10217 * (x[0] - x[15]) + 1136 * (x[1] - x[14])) + (-8955 * (x[2] - x[13]) +
          -11086 * (x[3] - x[12]))) + ((-3363 * (x[4] - x[11]) + 7350 * (x[5] - x[10]))
          + (11529 * (x[6] - x[9]) + 5461 * (x[7] - x[8]))))
    BY <1>0, SMTT(60) DEF Fdct16, Sums, Diffs, Rows16
  <2>3. Fdct16(Rows16, x)[6] \in Int
    BY <1>0, <2>2
  <2>4. NearRow(Fdct16(Rows16, x)[6], Component(16, 5, x), 16, m)
    BY <1>0, <2>2, Table16, SMTT(60) DEF NearRow, Within, RowErr, Component
  <2>5. NearCol(Fdct16(Rows16, x)[6], Component(16, 5, x), 16, m)
    BY <2>1, <2>3, <2>4, SMT DEF Sized, NearRow, NearCol, Within, RowErr, ColErr, ColScale
  <2> QED
    BY <2>1, <2>2, <2>3, <2>4, <2>5
<1>7. /\ Sized(Component(16, 6, x), 16, m)
      /\ NearRow(Fdct16(Rows16, x)[7], Component(16, 6, x), 16, m)
      /\ NearCol(Fdct16(Rows16, x)[7], Component(16, 6, x), 16, m)
  <2>1. Sized(Component(16, 6, x), 16, m)
    BY <1>0, Table16, SMTT(60) DEF Sized, Within, Component
  <2>2. Fdct16(Rows16, x)[7] =
          (((9633 * (x[0] + x[15]) + -2260 * (x[1] + x[14])) + (-11363 * (x[2] + x[13])
          + -6437 * (x[3] + x[12]))) + ((6437 * (x[4] + x[11]) + 11363 * (x[5] + x[10]))
          + (2260 * (x[6] + x[9]) + -9633 * (x[7] + x[8]))))
    BY <1>0, SMTT(60) DEF Fdct16, Sums, Diffs, Rows16
  <2>3. Fdct16(Rows16, x)[7] \in Int
    BY <1>0, <2>2
  <2>4. NearRow(Fdct16(Rows16, x)[7], Component(16, 6, x), 16, m)
    BY <1>0, <2>2, Table16, SMTT(60) DEF NearRow, Within, RowErr, Component
  <2>5. NearCol(Fdct16(Rows16, x)[7], Component(16, 6, x), 16, m)
    BY <2>1, <2>3, <2>4, SMT DEF Sized, NearRow, NearCol, Within, RowErr, ColErr, ColScale
  <2> QED
    BY <2>1, <2>2, <2>3, <2>4, <2>5
<1>8. /\ Sized(Component(16, 7, x), 16, m)
      /\ NearRow(Fdct16(Rows16, x)[8], Component(16, 7, x), 16, m)
      /\ NearCol(Fdct16(Rows16, x)[8], Component(16, 7, x), 16, m)
  <2>1. Sized(Component(16, 7, x), 16, m)
    BY <1>0, Table16, SMTT(60) DEF Sized, Within, Component
  <2>2. Fdct16(Rows16, x)[8] =
          (((8956 * (x[0] - x[15]) + -5461 * (x[1] - x[14])) + (-11086 * (x[2] - x[13])
          + 1137 * (x[3] - x[12]))) + ((11530 * (x[4] - x[11]) + 3363 * (x[5] - x[10]))
          + (-10217 * (x[6] - x[9]) + -7350 * (x[7] - x[8]))))
    BY <1>0, SMTT(60) DEF Fdct16, Sums, Diffs, Rows16
  <2>3. Fdct16(Rows16, x)[8] \in Int
    BY <1>0, <2>2
  <2>4. NearRow(Fdct16(Rows16, x)[8], Component(16, 7, x), 16, m)
    BY <1>0, <2>2, Table16, SMTT(60) DEF NearRow, Within, RowErr, Component
  <2>5. NearCol(Fdct16(Rows16, x)[8], Component(16, 7, x), 16, m)
    BY <2>1, <2>3, <2>4, SMT DEF Sized, NearRow, NearCol, Within, RowErr, ColErr, ColScale
  <2> QED
    BY <2>1, <2>2, <2>3, <2>4, <2>5
<1> QED
  BY <1>1, <1>2, <1>3, <1>4, <1>5, <1>6, <1>7, <1>8

\* Each of the sixteen kernels, in each pass, is the DCT of its points but for the
\* rounding of its factors.
LEMMA KernelNear ==
  ASSUME NEW n \in 1 .. 16, NEW m \in Nat, m >= 128, NEW x \in [0 .. n - 1 -> -m .. m],
         NEW u \in 0 .. 7, u < n
  PROVE  /\ Sized(Component(n, u, x), n, m)
         /\ NearRow(Fdct(n, Rows[n], x)[u + 1], Component(n, u, x), n, m)
         /\ NearCol(Fdct(n, Cols[n], x)[u + 1], Component(n, u, x), n, m)
<1>1. CASE n = 1
  <2>1. x \in [0 .. 0 -> -m .. m] /\ u \in 0 .. 0
    BY <1>1
  <2> QED
    BY <1>1, <2>1, Near1, SMT DEF Fdct, Rows, Cols
<1>2. CASE n = 2
  <2>1. x \in [0 .. 1 -> -m .. m] /\ u \in 0 .. 1
    BY <1>2
  <2> QED
    BY <1>2, <2>1, Near2, SMT DEF Fdct, Rows, Cols
<1>3. CASE n = 3
  <2>1. x \in [0 .. 2 -> -m .. m] /\ u \in 0 .. 2
    BY <1>3
  <2> QED
    BY <1>3, <2>1, Near3, SMT DEF Fdct, Rows, Cols
<1>4. CASE n = 4
  <2>1. x \in [0 .. 3 -> -m .. m] /\ u \in 0 .. 3
    BY <1>4
  <2> QED
    BY <1>4, <2>1, Near4, SMT DEF Fdct, Rows, Cols
<1>5. CASE n = 5
  <2>1. x \in [0 .. 4 -> -m .. m] /\ u \in 0 .. 4
    BY <1>5
  <2> QED
    BY <1>5, <2>1, Near5, SMT DEF Fdct, Rows, Cols
<1>6. CASE n = 6
  <2>1. x \in [0 .. 5 -> -m .. m] /\ u \in 0 .. 5
    BY <1>6
  <2> QED
    BY <1>6, <2>1, Near6, SMT DEF Fdct, Rows, Cols
<1>7. CASE n = 7
  <2>1. x \in [0 .. 6 -> -m .. m] /\ u \in 0 .. 6
    BY <1>7
  <2> QED
    BY <1>7, <2>1, Near7, SMT DEF Fdct, Rows, Cols
<1>8. CASE n = 8
  <2>1. x \in [0 .. 7 -> -m .. m] /\ u \in 0 .. 7
    BY <1>8
  <2> QED
    BY <1>8, <2>1, Near8, SMT DEF Fdct, Rows, Cols
<1>9. CASE n = 9
  <2>1. x \in [0 .. 8 -> -m .. m] /\ u \in 0 .. 7
    BY <1>9
  <2> QED
    BY <1>9, <2>1, Near9, SMT DEF Fdct, Rows, Cols
<1>10. CASE n = 10
  <2>1. x \in [0 .. 9 -> -m .. m] /\ u \in 0 .. 7
    BY <1>10
  <2> QED
    BY <1>10, <2>1, Near10, SMT DEF Fdct, Rows, Cols
<1>11. CASE n = 11
  <2>1. x \in [0 .. 10 -> -m .. m] /\ u \in 0 .. 7
    BY <1>11
  <2> QED
    BY <1>11, <2>1, Near11, SMT DEF Fdct, Rows, Cols
<1>12. CASE n = 12
  <2>1. x \in [0 .. 11 -> -m .. m] /\ u \in 0 .. 7
    BY <1>12
  <2> QED
    BY <1>12, <2>1, Near12, SMT DEF Fdct, Rows, Cols
<1>13. CASE n = 13
  <2>1. x \in [0 .. 12 -> -m .. m] /\ u \in 0 .. 7
    BY <1>13
  <2> QED
    BY <1>13, <2>1, Near13, SMT DEF Fdct, Rows, Cols
<1>14. CASE n = 14
  <2>1. x \in [0 .. 13 -> -m .. m] /\ u \in 0 .. 7
    BY <1>14
  <2> QED
    BY <1>14, <2>1, Near14, SMT DEF Fdct, Rows, Cols
<1>15. CASE n = 15
  <2>1. x \in [0 .. 14 -> -m .. m] /\ u \in 0 .. 7
    BY <1>15
  <2> QED
    BY <1>15, <2>1, Near15, SMT DEF Fdct, Rows, Cols
<1>16. CASE n = 16
  <2>1. x \in [0 .. 15 -> -m .. m] /\ u \in 0 .. 7
    BY <1>16
  <2> QED
    BY <1>16, <2>1, Near16, SMT DEF Fdct, Rows, Cols
<1> QED
  BY <1>1, <1>2, <1>3, <1>4, <1>5, <1>6, <1>7, <1>8, <1>9, <1>10, <1>11, <1>12, <1>13,
    <1>14, <1>15, <1>16

LEMMA BasisWhole ==
  ASSUME NEW n \in 1 .. 16, NEW u \in 0 .. 7, u < n, NEW j \in 0 .. n - 1
  PROVE  BasisRow(n, u)[j + 1] \in Int
<1>1. CASE n = 1
  BY <1>1, Table1, SMT
<1>2. CASE n = 2
  BY <1>2, Table2, SMT
<1>3. CASE n = 3
  BY <1>3, Table3, SMT
<1>4. CASE n = 4
  BY <1>4, Table4, SMT
<1>5. CASE n = 5
  BY <1>5, Table5, SMT
<1>6. CASE n = 6
  BY <1>6, Table6, SMT
<1>7. CASE n = 7
  BY <1>7, Table7, SMT
<1>8. CASE n = 8
  BY <1>8, Table8, SMT
<1>9. CASE n = 9
  BY <1>9, Table9, SMT
<1>10. CASE n = 10
  BY <1>10, Table10, SMT
<1>11. CASE n = 11
  BY <1>11, Table11, SMT
<1>12. CASE n = 12
  BY <1>12, Table12, SMT
<1>13. CASE n = 13
  BY <1>13, Table13, SMT
<1>14. CASE n = 14
  BY <1>14, Table14, SMT
<1>15. CASE n = 15
  BY <1>15, Table15, SMT
<1>16. CASE n = 16
  BY <1>16, Table16, SMT
<1> QED
  BY <1>1, <1>2, <1>3, <1>4, <1>5, <1>6, <1>7, <1>8, <1>9, <1>10, <1>11, <1>12, <1>13,
    <1>14, <1>15, <1>16

\* Two differences of the same multiples.
Mixed(a, b, c, p, q) == a \in Int /\ b \in Int /\ c \in Int /\ a = p * b - q * c

LEMMA MixedSum ==
  ASSUME NEW p \in Int, NEW q \in Int, NEW a1, NEW b1, NEW c1, Mixed(a1, b1, c1, p, q),
         NEW a2, NEW b2, NEW c2, Mixed(a2, b2, c2, p, q)
  PROVE  Mixed(a1 + a2, b1 + b2, c1 + c2, p, q)
BY DEF Mixed

LEMMA MixedTerm ==
  ASSUME NEW p \in Int, NEW q \in Int, NEW b \in Int, NEW c \in Int, NEW k \in Int
  PROVE  Mixed((p * b - q * c) * k, b * k, c * k, p, q)
BY DEF Mixed

LEMMA ComponentLinear ==
  ASSUME NEW n \in 1 .. 16, NEW u \in 0 .. 7, u < n, NEW p \in Int, NEW q \in Int,
         NEW x \in [0 .. n - 1 -> Int], NEW y \in [0 .. n - 1 -> Int]
  PROVE  Mixed(Component(n, u, [j \in 0 .. n - 1 |-> p * x[j] - q * y[j]]),
               Component(n, u, x), Component(n, u, y), p, q)
<1> DEFINE z == [j \in 0 .. n - 1 |-> p * x[j] - q * y[j]]
           t(w, j) == IF j < n THEN w[j] * BasisRow(n, u)[j + 1] ELSE 0
           four(w, j) == (t(w, j) + t(w, j + 1)) + (t(w, j + 2) + t(w, j + 3))
           M(j) == Mixed(t(z, j), t(x, j), t(y, j), p, q)
           F(j) == Mixed(four(z, j), four(x, j), four(y, j), p, q)
<1>1. ASSUME NEW j \in 0 .. 15 PROVE M(j)
  <2>1. CASE j < n
    <3> DEFINE k == BasisRow(n, u)[j + 1]
    <3>1. j \in 0 .. n - 1
      BY <2>1
    <3>2. k \in Int /\ x[j] \in Int /\ y[j] \in Int /\ z[j] = p * x[j] - q * y[j]
      BY <3>1, BasisWhole
    <3>3. t(z, j) = z[j] * k /\ t(x, j) = x[j] * k /\ t(y, j) = y[j] * k
      BY <2>1
    <3> HIDE DEF k, t, z
    <3> QED
      BY <3>2, <3>3, MixedTerm
  <2>2. CASE ~(j < n)
    <3>1. Mixed(0, 0, 0, p, q)
      BY DEF Mixed
    <3> QED
      BY <2>2, <3>1
  <2> QED
    BY <2>1, <2>2
<1> HIDE DEF t, z
<1>2. ASSUME NEW j \in {0, 4, 8, 12} PROVE F(j)
  <2>1. M(j) /\ M(j + 1) /\ M(j + 2) /\ M(j + 3)
    BY <1>1
  <2>2. /\ Mixed(t(z, j) + t(z, j + 1), t(x, j) + t(x, j + 1), t(y, j) + t(y, j + 1), p, q)
        /\ Mixed(t(z, j + 2) + t(z, j + 3), t(x, j + 2) + t(x, j + 3),
                 t(y, j + 2) + t(y, j + 3), p, q)
    BY <2>1, MixedSum
  <2> QED
    BY <2>2, MixedSum
<1>3. F(0) /\ F(4) /\ F(8) /\ F(12)
  BY <1>2
<1> HIDE DEF four
<1>4. Mixed((four(z, 0) + four(z, 4)) + (four(z, 8) + four(z, 12)),
            (four(x, 0) + four(x, 4)) + (four(x, 8) + four(x, 12)),
            (four(y, 0) + four(y, 4)) + (four(y, 8) + four(y, 12)), p, q)
  <2>1. /\ Mixed(four(z, 0) + four(z, 4), four(x, 0) + four(x, 4), four(y, 0) + four(y, 4), p, q)
        /\ Mixed(four(z, 8) + four(z, 12), four(x, 8) + four(x, 12), four(y, 8) + four(y, 12), p, q)
    BY <1>3, MixedSum
  <2> QED
    BY <2>1, MixedSum
<1> QED
  BY <1>4 DEF Component, four, t, z

LEMMA WithinTimes ==
  ASSUME NEW a \in Int, NEW b \in Int, NEW d \in Int, NEW k \in Nat, Within(a, b, d)
  PROVE  Within(k * a, k * b, k * d)
<1>1. b - d <= a /\ a <= b + d
  BY DEF Within
<1>2. k * (b - d) <= k * a /\ k * a <= k * (b + d)
  BY <1>1
<1> QED
  BY <1>2 DEF Within

LEMMA WithinShift ==
  ASSUME NEW a \in Int, NEW b \in Int, NEW d \in Int, Within(a - b, 0, d)
  PROVE  Within(a, b, d)
BY DEF Within

LEMMA WithinChain ==
  ASSUME NEW a \in Int, NEW b \in Int, NEW c \in Int, NEW d \in Int, NEW e \in Int,
         Within(a, b, d), Within(b, c, e)
  PROVE  Within(a, c, d + e)
BY DEF Within

\* The rounding shift, undone, is off by half a unit.
Restored(x, n) == 2^n * DESCALE(x, n)
LEMMA DescaleNear ==
  ASSUME NEW n \in 7 .. 17, NEW x \in Int
  PROVE  /\ 2^n \in Nat \ {0} /\ 2^n \div 2 \in Nat
         /\ DESCALE(x, n) \in Int
         /\ Within(2^n * DESCALE(x, n), x, 2^n \div 2)
<1>7. CASE n = 7
  BY <1>7 DEF DESCALE, Within
<1>8. CASE n = 8
  BY <1>8 DEF DESCALE, Within
<1>9. CASE n = 9
  BY <1>9 DEF DESCALE, Within
<1>10. CASE n = 10
  BY <1>10 DEF DESCALE, Within
<1>11. CASE n = 11
  BY <1>11 DEF DESCALE, Within
<1>12. CASE n = 12
  BY <1>12 DEF DESCALE, Within
<1>13. CASE n = 13
  BY <1>13 DEF DESCALE, Within
<1>14. CASE n = 14
  BY <1>14 DEF DESCALE, Within
<1>15. CASE n = 15
  BY <1>15 DEF DESCALE, Within
<1>16. CASE n = 16
  BY <1>16 DEF DESCALE, Within
<1>17. CASE n = 17
  BY <1>17 DEF DESCALE, Within
<1> QED
  BY <1>7, <1>8, <1>9, <1>10, <1>11, <1>12, <1>13, <1>14, <1>15, <1>16, <1>17

LEMMA PowerNat == ASSUME NEW n \in 7 .. 17 PROVE 2^n \in Nat /\ 2^n \div 2 \in Nat
<1>1. 0 \in Int
  OBVIOUS
<1> QED
  BY <1>1, DescaleNear

\* By how much the first pass over w samples, shifted by shift, may be off.
Slack(w, shift) == IF w <= 2 THEN 128 ELSE 2^shift \div 2 + RowErr[w] * 128 + 1024

\* Of one point or two, nothing is lost.
LEMMA ExactRow ==
  ASSUME NEW w \in 1 .. 16, w <= 2, NEW shift \in 7 .. 17, shift <= 13,
         NEW x, \A j \in 0 .. w - 1 : x[j] \in Int, NEW u \in 0 .. 7, u < w
  PROVE  Restored(Fdct(w, Rows[w], x)[u + 1], shift) = 2048 * DESCALE(Component(w, u, x), 10)
<1>1. \E k \in Int : Fdct(w, Rows[w], x)[u + 1] = 8192 * k /\ Component(w, u, x) = 4096 * k
  <2>1. CASE w = 1
    <3>1. Fdct(w, Rows[w], x)[u + 1] = 8192 * x[0] /\ Component(w, u, x) = 4096 * x[0]
      BY <2>1, Table1, SMTT(60) DEF Fdct, Fdct1, Rows, Component
    <3> QED
      BY <2>1, <3>1
  <2>2. CASE w = 2 /\ u = 0
    <3>1. /\ Fdct(w, Rows[w], x)[u + 1] = 8192 * (x[0] + x[1])
          /\ Component(w, u, x) = 4096 * (x[0] + x[1])
      BY <2>2, Table2, SMTT(60) DEF Fdct, Fdct2, Rows, Component
    <3> QED
      BY <2>2, <3>1
  <2>3. CASE w = 2 /\ u = 1
    <3>1. /\ Fdct(w, Rows[w], x)[u + 1] = 8192 * (x[0] - x[1])
          /\ Component(w, u, x) = 4096 * (x[0] - x[1])
      BY <2>3, Table2, SMTT(60) DEF Fdct, Fdct2, Rows, Component
    <3>2. x[0] - x[1] \in Int
      BY <2>3
    <3> QED
      BY <3>1, <3>2
  <2> QED
    BY <2>1, <2>2, <2>3
<1>2. PICK k \in Int : Fdct(w, Rows[w], x)[u + 1] = 8192 * k /\ Component(w, u, x) = 4096 * k
  BY <1>1
<1>3. Restored(8192 * k, shift) = 8192 * k
  <2>7. CASE shift = 7
    BY <2>7 DEF DESCALE, Restored
  <2>8. CASE shift = 8
    BY <2>8 DEF DESCALE, Restored
  <2>9. CASE shift = 9
    BY <2>9 DEF DESCALE, Restored
  <2>10. CASE shift = 10
    BY <2>10 DEF DESCALE, Restored
  <2>11. CASE shift = 11
    BY <2>11 DEF DESCALE, Restored
  <2>12. CASE shift = 12
    BY <2>12 DEF DESCALE, Restored
  <2>13. CASE shift = 13
    BY <2>13 DEF DESCALE, Restored
  <2> QED
    BY <2>7, <2>8, <2>9, <2>10, <2>11, <2>12, <2>13
<1>4. DESCALE(4096 * k, 10) = 4 * k
  BY DEF DESCALE
<1> QED
  BY <1>2, <1>3, <1>4

RowClose(y, c, w, shift) == Within(Restored(y, shift), 2048 * DESCALE(c, 10), Slack(w, shift))
LinesOf(w) == [0 .. w - 1 -> Samples]

\* The first pass, undone, is 2048 times that of the reference.
LEMMA RowNear ==
  ASSUME NEW w \in 1 .. 16, NEW shift \in 7 .. 17, w <= 2 => shift <= 13,
         NEW x \in LinesOf(w), NEW u \in 0 .. 7, u < w
  PROVE  /\ DESCALE(Component(w, u, x), 10) \in Int
         /\ Slack(w, shift) \in Nat /\ Slack(w, shift) >= 128
         /\ RowClose(Fdct(w, Rows[w], x)[u + 1], Component(w, u, x), w, shift)
<1> DEFINE y == Fdct(w, Rows[w], x)[u + 1]
           c == Component(w, u, x)
           phi == DESCALE(y, shift)
           rho == DESCALE(c, 10)
           p == 2^shift
           half == 2^shift \div 2
           e == RowErr[w]
           a == 128
           b == 127
<1>1. a \in Nat /\ b \in Nat /\ x \in [0 .. w - 1 -> -a .. b] /\ x \in [0 .. w - 1 -> -a .. a]
  <2>1. a \in Nat /\ b \in Nat /\ b <= a
    OBVIOUS
  <2>2. x \in [0 .. w - 1 -> -a .. b]
    BY DEF LinesOf, Samples
  <2> HIDE DEF a, b
  <2> QED
    BY <2>1, <2>2
<1>2. y \in Int
  <2> HIDE DEF a, b
  <2>1. Spread(Fdct(w, Rows[w], x), w, RowDc[w], RowAc[w], a, b)
    BY <1>1, KernelSpread
  <2>2. RowDc[w] \in Nat /\ RowAc[w] \in Nat
    BY TablesNat
  <2>3. u + 1 = 1 \/ u + 1 \in 2 .. AtMost8(w)
    BY DEF AtMost8
  <2> QED
    BY <1>1, <2>1, <2>2, <2>3 DEF Spread
<1>3. a >= 128
  OBVIOUS
<1>4. c \in Int /\ Within(y, 2 * c, e * a)
  <2> HIDE DEF a, b
  <2>1. Sized(c, w, a) /\ NearRow(y, c, w, a)
    BY <1>1, <1>3, KernelNear
  <2> QED
    BY <2>1 DEF Sized, NearRow
<1>5. e \in Nat
  BY SMT DEF RowErr
<1> HIDE DEF y, c
<1>6. p \in Nat /\ half \in Nat /\ phi \in Int /\ Within(p * phi, y, half)
  BY <1>2, DescaleNear
<1>7. rho \in Int /\ 1024 * rho - 512 <= c /\ c <= 1024 * rho + 512
  BY <1>4 DEF DESCALE
<1>8. Slack(w, shift) = IF w <= 2 THEN 128 ELSE half + e * 128 + 1024
  BY DEF Slack
<1> HIDE DEF phi, rho, p, half, e
<1>9. Within(p * phi, 2048 * rho, half + e * 128 + 1024)
  <2> DEFINE pp == p * phi
  <2>1. pp \in Int
    BY <1>6
  <2>2. y - half <= pp /\ pp <= y + half
    BY <1>6 DEF Within
  <2>3. 2 * c - e * 128 <= y /\ y <= 2 * c + e * 128
    BY <1>4 DEF Within
  <2> HIDE DEF pp
  <2>4. /\ 2048 * rho - (half + e * 128 + 1024) <= pp
        /\ pp <= 2048 * rho + (half + e * 128 + 1024)
    BY <1>2, <1>4, <1>5, <1>6, <1>7, <2>1, <2>2, <2>3
  <2> QED
    BY <2>4 DEF Within, pp
<1>10. CASE w <= 2
  <2>1. p * phi = 2048 * rho
    <3>1. w <= 2 /\ shift <= 13
      BY <1>10
    <3>2. \A j \in 0 .. w - 1 : x[j] \in Int
      <4> HIDE DEF a, b
      <4> QED
        BY <1>1
    <3>3. Restored(Fdct(w, Rows[w], x)[u + 1], shift) = 2048 * DESCALE(Component(w, u, x), 10)
      BY <3>1, <3>2, ExactRow
    <3> QED
      BY <3>3 DEF p, phi, rho, y, c, Restored
  <2>2. Within(2048 * rho, 2048 * rho, 128)
    BY <1>7 DEF Within
  <2> QED
    BY <1>7, <1>8, <1>10, <2>1, <2>2 DEF p, phi, rho, y, c, Restored, RowClose
<1>11. CASE ~(w <= 2)
  BY <1>5, <1>6, <1>7, <1>8, <1>9, <1>11 DEF p, phi, rho, y, c, Restored, RowClose
<1> QED
  BY <1>10, <1>11

ListsOf(n) == [0 .. n - 1 -> Int]
LinesWithin(n, p, x, q, y, m) == \A r \in 0 .. n - 1 : Within(p * x[r], q * y[r], m)
ComponentsWithin(n, v, p, x, q, y, m) ==
  Within(p * Component(n, v, x), q * Component(n, v, y), 4096 * n * m)

\* The second pass, undone, is the component along the column.
LEMMA ColumnNear ==
  ASSUME NEW n \in 1 .. 16, NEW v \in 0 .. 7, v < n, NEW p \in Int, NEW q \in Int,
         NEW m \in Nat, m >= 128,
         NEW x \in ListsOf(n), NEW y \in ListsOf(n),
         LinesWithin(n, p, x, q, y, m)
  PROVE  /\ Component(n, v, x) \in Int /\ Component(n, v, y) \in Int
         /\ ComponentsWithin(n, v, p, x, q, y, m)
<1> DEFINE z == [r \in 0 .. n - 1 |-> p * x[r] - q * y[r]]
           cx == Component(n, v, x)
           cy == Component(n, v, y)
<1>1. z \in [0 .. n - 1 -> -m .. m]
  <2>1. ASSUME NEW r \in 0 .. n - 1 PROVE p * x[r] - q * y[r] \in -m .. m
    <3>1. p * x[r] \in Int /\ q * y[r] \in Int
      BY DEF ListsOf
    <3>2. q * y[r] - m <= p * x[r] /\ p * x[r] <= q * y[r] + m
      BY DEF Within, LinesWithin
    <3> QED
      BY <3>1, <3>2
  <2> QED
    BY <2>1
<1>2. Mixed(Component(n, v, z), cx, cy, p, q)
  BY ComponentLinear DEF ListsOf
<1> HIDE DEF z, cx, cy
<1>3. Sized(Component(n, v, z), n, m)
  BY <1>1, KernelNear
<1>4. cx \in Int /\ cy \in Int /\ Component(n, v, z) = p * cx - q * cy
  BY <1>2 DEF Mixed
<1>5. Within(p * cx, q * cy, 4096 * n * m)
  <2>1. p * cx \in Int /\ q * cy \in Int
    BY <1>4
  <2>2. Within(p * cx - q * cy, 0, 4096 * n * m)
    BY <1>3, <1>4 DEF Sized
  <2>3. 4096 * n * m \in Int
    OBVIOUS
  <2> QED
    BY <2>1, <2>2, <2>3, WithinShift
<1> QED
  BY <1>4, <1>5 DEF cx, cy, ComponentsWithin

\* Dct without its memory of what TLC has already computed.
ReferenceColumn(w, h, s, u) ==
  [r \in 0 .. h - 1 |-> DESCALE(Component(w, u, s[r]), 10)]
Reference(w, h, s, v, u) ==
  DESCALE(Component(h, v, ReferenceColumn(w, h, s, u)) \div (w * h), 8)

LEMMA DctDomain ==
  ASSUME NEW w \in 1 .. 16, NEW h \in 1 .. 16, NEW s
  PROVE  /\ DOMAIN Dct(w, h, s) = 0 .. AtMost8(h) - 1
         /\ \A v \in 0 .. AtMost8(h) - 1 : DOMAIN Dct(w, h, s)[v] = 0 .. AtMost8(w) - 1
BY DEF Dct

LEMMA DctEntry ==
  ASSUME NEW w \in 1 .. 16, NEW h \in 1 .. 16, NEW s,
         NEW v \in 0 .. AtMost8(h) - 1, NEW u \in 0 .. AtMost8(w) - 1
  PROVE  Dct(w, h, s)[v][u] = Reference(w, h, s, v, u)
<1> DEFINE Entry(r, k) == DESCALE(Component(w, k, s[r]), 10)
           Row(r) == ListOf(AtMost8(w), LAMBDA k : Entry(r, k))
           rows == ListOf(h, Row)
           InColumn(k) == [r \in 0 .. h - 1 |-> rows[r + 1][k + 1]]
           Out(i, k) == DESCALE(Component(h, i, InColumn(k)) \div (w * h), 8)
<1>1. AtMost8(w) \in 1 .. 8 /\ AtMost8(h) \in 1 .. 8
  BY DEF AtMost8
<1>2. Dct(w, h, s)[v][u] = Out(v, u)
  BY DEF Dct
<1>3. InColumn(u) = ReferenceColumn(w, h, s, u)
  <2> HIDE DEF Entry
  <2>1. ASSUME NEW r \in 0 .. h - 1 PROVE Row(r)[u + 1] = Entry(r, u)
    <3>1. Row(r) = [k \in 1 .. AtMost8(w) |-> Entry(r, k - 1)]
      BY <1>1 DEF ListOf
    <3>2. u + 1 \in 1 .. AtMost8(w) /\ (u + 1) - 1 = u
      BY <1>1
    <3> QED
      BY <3>1, <3>2
  <2> HIDE DEF Row
  <2>2. ASSUME NEW r \in 0 .. h - 1 PROVE rows[r + 1] = Row(r)
    <3>1. rows = [k \in 1 .. h |-> Row(k - 1)]
      BY DEF ListOf
    <3>2. r + 1 \in 1 .. h /\ (r + 1) - 1 = r
      OBVIOUS
    <3> QED
      BY <3>1, <3>2
  <2> HIDE DEF rows
  <2>3. InColumn(u) = [r \in 0 .. h - 1 |-> Entry(r, u)]
    BY <2>1, <2>2
  <2> QED
    BY <2>3 DEF ReferenceColumn, Entry
<1> HIDE DEF InColumn
<1> QED
  BY <1>2, <1>3 DEF Reference

\* The largest value that the first pass of f leaves.
FirstPassMax(f) == DESCALE(RowDc[f.w] * 128, f.row)

\* That the errors of both passes of f and of the reference, at the scale of the
\* columns before any shift, stay below 9 units of the workspace.
Tight(f) ==
  LET w == f.w
      h == f.h
      p == 2^f.row
      c == 2^f.col
      g == ColScale[h]
      unit == p * ((h * h) * c)
  IN  /\ w <= 2 => f.row <= 13
      /\ 128 <= FirstPassMax(f)
      /\ DESCALE(RowDc[w] * 127, f.row) <= FirstPassMax(f)
      /\ DESCALE(RowAc[w] * 255, f.row) <= FirstPassMax(f)
      /\ unit = g * (2048 * ((w * h) * 256))
      /\ p * ((h * h) * (c \div 2)) + p * (ColErr[h] * FirstPassMax(f))
           + g * (4096 * h * Slack(w, f.row))
           + g * (2048 * (w * h)) + g * (2048 * ((w * h) * 128)) < 9 * unit

\* The arithmetic of the 28 functions that do not start with 12 or with 14 points.
LEMMA SizesTight ==
  ASSUME NEW sz \in ScaledSizes, sz[1] \notin {12, 14}
  PROVE  Tight(do_dct(sz))
<1>1. /\ Tight(do_dct(<<1, 1>>))
      /\ Tight(do_dct(<<2, 2>>))
      /\ Tight(do_dct(<<3, 3>>))
      /\ Tight(do_dct(<<4, 4>>))
  <2>1. /\ do_dct(<<1, 1>>) = jpeg_fdct_1x1
        /\ do_dct(<<2, 2>>) = jpeg_fdct_2x2
        /\ do_dct(<<3, 3>>) = jpeg_fdct_3x3
        /\ do_dct(<<4, 4>>) = jpeg_fdct_4x4
    BY SMT DEF do_dct
  <2>2. /\ Tight(jpeg_fdct_1x1)
        /\ Tight(jpeg_fdct_2x2)
        /\ Tight(jpeg_fdct_3x3)
        /\ Tight(jpeg_fdct_4x4)
    BY SMT DEF Tight, FirstPassMax, Slack, RowErr, ColErr, ColScale, RowDc, RowAc,
      DESCALE, jpeg_fdct_1x1, jpeg_fdct_2x2, jpeg_fdct_3x3, jpeg_fdct_4x4
  <2> QED
    BY <2>1, <2>2
<1>2. /\ Tight(do_dct(<<5, 5>>))
      /\ Tight(do_dct(<<6, 6>>))
      /\ Tight(do_dct(<<7, 7>>))
      /\ Tight(do_dct(<<8, 8>>))
  <2>1. /\ do_dct(<<5, 5>>) = jpeg_fdct_5x5
        /\ do_dct(<<6, 6>>) = jpeg_fdct_6x6
        /\ do_dct(<<7, 7>>) = jpeg_fdct_7x7
        /\ do_dct(<<8, 8>>) = jpeg_fdct_islow
    BY SMT DEF do_dct
  <2>2. /\ Tight(jpeg_fdct_5x5)
        /\ Tight(jpeg_fdct_6x6)
        /\ Tight(jpeg_fdct_7x7)
        /\ Tight(jpeg_fdct_islow)
    BY SMT DEF Tight, FirstPassMax, Slack, RowErr, ColErr, ColScale, RowDc, RowAc,
      DESCALE, jpeg_fdct_5x5, jpeg_fdct_6x6, jpeg_fdct_7x7, jpeg_fdct_islow
  <2> QED
    BY <2>1, <2>2
<1>3. /\ Tight(do_dct(<<9, 9>>))
      /\ Tight(do_dct(<<10, 10>>))
      /\ Tight(do_dct(<<11, 11>>))
      /\ Tight(do_dct(<<13, 13>>))
  <2>1. /\ do_dct(<<9, 9>>) = jpeg_fdct_9x9
        /\ do_dct(<<10, 10>>) = jpeg_fdct_10x10
        /\ do_dct(<<11, 11>>) = jpeg_fdct_11x11
        /\ do_dct(<<13, 13>>) = jpeg_fdct_13x13
    BY SMT DEF do_dct
  <2>2. /\ Tight(jpeg_fdct_9x9)
        /\ Tight(jpeg_fdct_10x10)
        /\ Tight(jpeg_fdct_11x11)
        /\ Tight(jpeg_fdct_13x13)
    BY SMT DEF Tight, FirstPassMax, Slack, RowErr, ColErr, ColScale, RowDc, RowAc,
      DESCALE, jpeg_fdct_9x9, jpeg_fdct_10x10, jpeg_fdct_11x11, jpeg_fdct_13x13
  <2> QED
    BY <2>1, <2>2
<1>4. /\ Tight(do_dct(<<15, 15>>))
      /\ Tight(do_dct(<<16, 16>>))
      /\ Tight(do_dct(<<2, 1>>))
      /\ Tight(do_dct(<<4, 2>>))
  <2>1. /\ do_dct(<<15, 15>>) = jpeg_fdct_15x15
        /\ do_dct(<<16, 16>>) = jpeg_fdct_16x16
        /\ do_dct(<<2, 1>>) = jpeg_fdct_2x1
        /\ do_dct(<<4, 2>>) = jpeg_fdct_4x2
    BY SMT DEF do_dct
  <2>2. /\ Tight(jpeg_fdct_15x15)
        /\ Tight(jpeg_fdct_16x16)
        /\ Tight(jpeg_fdct_2x1)
        /\ Tight(jpeg_fdct_4x2)
    BY SMT DEF Tight, FirstPassMax, Slack, RowErr, ColErr, ColScale, RowDc, RowAc,
      DESCALE, jpeg_fdct_15x15, jpeg_fdct_16x16, jpeg_fdct_2x1, jpeg_fdct_4x2
  <2> QED
    BY <2>1, <2>2
<1>5. /\ Tight(do_dct(<<6, 3>>))
      /\ Tight(do_dct(<<8, 4>>))
      /\ Tight(do_dct(<<10, 5>>))
      /\ Tight(do_dct(<<16, 8>>))
  <2>1. /\ do_dct(<<6, 3>>) = jpeg_fdct_6x3
        /\ do_dct(<<8, 4>>) = jpeg_fdct_8x4
        /\ do_dct(<<10, 5>>) = jpeg_fdct_10x5
        /\ do_dct(<<16, 8>>) = jpeg_fdct_16x8
    BY SMT DEF do_dct
  <2>2. /\ Tight(jpeg_fdct_6x3)
        /\ Tight(jpeg_fdct_8x4)
        /\ Tight(jpeg_fdct_10x5)
        /\ Tight(jpeg_fdct_16x8)
    BY SMT DEF Tight, FirstPassMax, Slack, RowErr, ColErr, ColScale, RowDc, RowAc,
      DESCALE, jpeg_fdct_6x3, jpeg_fdct_8x4, jpeg_fdct_10x5, jpeg_fdct_16x8
  <2> QED
    BY <2>1, <2>2
<1>6. /\ Tight(do_dct(<<1, 2>>))
      /\ Tight(do_dct(<<2, 4>>))
      /\ Tight(do_dct(<<3, 6>>))
      /\ Tight(do_dct(<<4, 8>>))
  <2>1. /\ do_dct(<<1, 2>>) = jpeg_fdct_1x2
        /\ do_dct(<<2, 4>>) = jpeg_fdct_2x4
        /\ do_dct(<<3, 6>>) = jpeg_fdct_3x6
        /\ do_dct(<<4, 8>>) = jpeg_fdct_4x8
    BY SMT DEF do_dct
  <2>2. /\ Tight(jpeg_fdct_1x2)
        /\ Tight(jpeg_fdct_2x4)
        /\ Tight(jpeg_fdct_3x6)
        /\ Tight(jpeg_fdct_4x8)
    BY SMT DEF Tight, FirstPassMax, Slack, RowErr, ColErr, ColScale, RowDc, RowAc,
      DESCALE, jpeg_fdct_1x2, jpeg_fdct_2x4, jpeg_fdct_3x6, jpeg_fdct_4x8
  <2> QED
    BY <2>1, <2>2
<1>7. /\ Tight(do_dct(<<5, 10>>))
      /\ Tight(do_dct(<<6, 12>>))
      /\ Tight(do_dct(<<7, 14>>))
      /\ Tight(do_dct(<<8, 16>>))
  <2>1. /\ do_dct(<<5, 10>>) = jpeg_fdct_5x10
        /\ do_dct(<<6, 12>>) = jpeg_fdct_6x12
        /\ do_dct(<<7, 14>>) = jpeg_fdct_7x14
        /\ do_dct(<<8, 16>>) = jpeg_fdct_8x16
    BY SMT DEF do_dct
  <2>2. /\ Tight(jpeg_fdct_5x10)
        /\ Tight(jpeg_fdct_6x12)
        /\ Tight(jpeg_fdct_7x14)
        /\ Tight(jpeg_fdct_8x16)
    BY SMT DEF Tight, FirstPassMax, Slack, RowErr, ColErr, ColScale, RowDc, RowAc,
      DESCALE, jpeg_fdct_5x10, jpeg_fdct_6x12, jpeg_fdct_7x14, jpeg_fdct_8x16
  <2> QED
    BY <2>1, <2>2
<1>8. CASE \E n \in 1 .. 16 : sz = <<n, n>>
  <2>1. PICK n \in 1 .. 16 : sz = <<n, n>>
    BY <1>8
  <2>2. n # 12 /\ n # 14
    BY <2>1
  <2> QED
    BY <1>1, <1>2, <1>3, <1>4, <2>1, <2>2
<1>9. CASE \E n \in 1 .. 8 : sz = <<2 * n, n>>
  <2>1. PICK n \in 1 .. 8 : sz = <<2 * n, n>>
    BY <1>9
  <2>2. n # 6 /\ n # 7
    BY <2>1
  <2> QED
    BY <1>4, <1>5, <2>1, <2>2
<1>10. CASE \E n \in 1 .. 8 : sz = <<n, 2 * n>>
  <2>1. PICK n \in 1 .. 8 : sz = <<n, 2 * n>>
    BY <1>10
  <2> QED
    BY <1>6, <1>7, <1>5, <2>1
<1> QED
  BY <1>8, <1>9, <1>10 DEF ScaledSizes

\* An entry of the first pass.
LEMMA FirstPassEntry ==
  ASSUME NEW f, NEW w \in 1 .. 16, NEW h \in 1 .. 16, Of(f, w, h), Tight(f),
         NEW s \in BlocksOf(w, h), NEW r \in 0 .. h - 1, NEW u \in 0 .. 7, u < w
  PROVE  /\ FirstPassMax(f) \in Nat
         /\ FirstPass(f, s)[r][u + 1] \in -FirstPassMax(f) .. FirstPassMax(f)
         /\ FirstPass(f, s)[r][u + 1] = DESCALE(Fdct(w, Rows[w], s[r])[u + 1], f.row)
<1> DEFINE a == 128
           b == 127
           y == Fdct(w, Rows[w], s[r])
           lo == DESCALE(RowDc[w] * a, f.row)
           hi == DESCALE(RowDc[w] * b, f.row)
           ac == DESCALE(RowAc[w] * (a + b), f.row)
<1>1. /\ f.w = w /\ f.h = h /\ f.row \in 7 .. 17
      /\ RowDc[w] \in Nat /\ RowAc[w] \in Nat
  BY TablesNat DEF Of
<1>2. lo = FirstPassMax(f) /\ hi <= lo /\ ac <= lo
  BY <1>1 DEF Tight, FirstPassMax
<1>3. a \in Nat /\ b \in Nat /\ a + b \in Nat
  OBVIOUS
<1>11. s[r] \in [0 .. w - 1 -> -a .. b]
  <2> DEFINE Line == [0 .. w - 1 -> -a .. b]
  <2>1. s \in [0 .. h - 1 -> Line]
    BY DEF BlocksOf, Samples
  <2> HIDE DEF Line
  <2>2. s[r] \in Line
    BY <2>1
  <2> QED
    BY <2>2 DEF Line
<1> HIDE DEF a, b
<1>4. lo \in Nat /\ hi \in Nat /\ ac \in Nat
  <2>1. RowDc[w] * a \in Nat /\ RowDc[w] * b \in Nat /\ RowAc[w] * (a + b) \in Nat
    BY <1>1, <1>3
  <2> QED
    BY <1>1, <2>1, DescaleNat
<1>5. Spread(y, w, RowDc[w], RowAc[w], a, b)
  BY <1>3, <1>11, KernelSpread
<1>6. FirstPass(f, s)[r] = Descaled(y, f.row)
  BY <1>1 DEF FirstPass
<1> HIDE DEF y
<1>7. u + 1 = 1 \/ u + 1 \in 2 .. AtMost8(w)
  BY DEF AtMost8
<1>8. /\ Descaled(y, f.row)[1] \in -lo .. hi
      /\ \A k \in 2 .. AtMost8(w) : Descaled(y, f.row)[k] \in -ac .. ac
  BY <1>1, <1>3, <1>5, PassSpread
<1>9. Descaled(y, f.row)[u + 1] = DESCALE(y[u + 1], f.row)
  <2>1. u + 1 \in 1 .. AtMost8(w)
    BY DEF AtMost8
  <2> QED
    BY <1>5, <2>1 DEF Descaled, Spread
<1> HIDE DEF lo, hi, ac
<1>10. Descaled(y, f.row)[u + 1] \in -lo .. lo
  BY <1>2, <1>4, <1>7, <1>8
<1> QED
  BY <1>2, <1>4, <1>6, <1>9, <1>10 DEF y

LEMMA QuotientWithin ==
  ASSUME NEW x \in Int, NEW k \in Nat \ {0}
  PROVE  x \div k \in Int /\ Within(x, k * (x \div k), k)
<1>1. /\ x \div k \in Int
      /\ k * (x \div k) <= x /\ x <= k * (x \div k) + k
  OBVIOUS
<1>2. k * (x \div k) \in Int
  BY <1>1
<1> QED
  BY <1>1, <1>2 DEF Within

\* Less than 9 units apart is no more than 8 apart.
LEMMA UnitsApart ==
  ASSUME NEW k \in Nat, NEW a \in Int, NEW b \in Int, NEW t \in Int, NEW m \in Nat,
         Within(k * a, k * b, t), t < (m + 1) * k
  PROVE  Distance(a, b) <= m
<1>1. k * (a - b) <= t /\ k * (b - a) <= t
  <2>1. k * a \in Int /\ k * b \in Int
    OBVIOUS
  <2>2. k * (a - b) = k * a - k * b /\ k * (b - a) = k * b - k * a
    OBVIOUS
  <2>3. k * a - k * b <= t /\ k * b - k * a <= t
    BY <2>1 DEF Within
  <2> QED
    BY <2>2, <2>3
<1>2. \A n \in Int : k * n <= t => n <= m
  <2> SUFFICES ASSUME NEW n \in Int, k * n <= t, n >= m + 1 PROVE FALSE
    OBVIOUS
  <2>1. k * n >= k * (m + 1)
    OBVIOUS
  <2>2. k * n \in Int /\ k * (m + 1) \in Int /\ (m + 1) * k = k * (m + 1)
    OBVIOUS
  <2> QED
    BY <2>1, <2>2
<1>3. a - b <= m /\ b - a <= m
  BY <1>1, <1>2
<1> QED
  BY <1>3 DEF Distance

\* The workspace is within 8 of the reference, whatever the samples.
LEMMA ForwardNear ==
  ASSUME NEW f, NEW w \in 1 .. 16, NEW h \in 1 .. 16, Of(f, w, h), Tight(f),
         NEW s \in BlocksOf(w, h),
         NEW v \in 0 .. 7, v < h, NEW u \in 0 .. 7, u < w
  PROVE  Distance(Forward(f, s)[v][u], Reference(w, h, s, v, u)) <= 8
<1> DEFINE p == 2^f.row
           c == 2^f.col
           half == 2^f.col \div 2
           g == ColScale[h]
           e == ColErr[h]
           m == FirstPassMax(f)
           slack == Slack(w, f.row)
           phi == [r \in 0 .. h - 1 |-> FirstPass(f, s)[r][u + 1]]
           rho == ReferenceColumn(w, h, s, u)
           cphi == Component(h, v, phi)
           crho == Component(h, v, rho)
           z == Fdct(h, Cols[h], phi)[v + 1]
           out == DESCALE(z, f.col)
           area == w * h
           q == crho \div area
           d == DESCALE(q, 8)
           square == h * h
           q2048 == 2048
           q256 == 256
<1>1. /\ f.w = w /\ f.h = h /\ f.row \in 7 .. 17 /\ f.col \in 7 .. 17
      /\ w <= 2 => f.row <= 13
      /\ m >= 128
  BY DEF Of, Tight
<1>2. ASSUME NEW r \in 0 .. h - 1
      PROVE  /\ m \in Nat /\ phi[r] \in -m .. m
             /\ rho[r] \in Int
             /\ slack \in Nat /\ slack >= 128
             /\ Within(p * phi[r], q2048 * rho[r], slack)
  <2>0. phi[r] = FirstPass(f, s)[r][u + 1]
    OBVIOUS
  <2>1. /\ m \in Nat /\ FirstPass(f, s)[r][u + 1] \in -m .. m
        /\ FirstPass(f, s)[r][u + 1] = DESCALE(Fdct(w, Rows[w], s[r])[u + 1], f.row)
    BY FirstPassEntry
  <2>2. s[r] \in LinesOf(w)
    BY DEF BlocksOf, LinesOf
  <2>3. rho[r] = DESCALE(Component(w, u, s[r]), 10)
    BY DEF ReferenceColumn
  <2>4. /\ DESCALE(Component(w, u, s[r]), 10) \in Int
        /\ slack \in Nat /\ slack >= 128
        /\ RowClose(Fdct(w, Rows[w], s[r])[u + 1], Component(w, u, s[r]), w, f.row)
    BY <1>1, <2>2, RowNear
  <2> HIDE DEF phi, rho, m, slack
  <2> QED
    BY <2>0, <2>1, <2>3, <2>4 DEF RowClose, Restored, slack
<1>3. m \in Nat /\ slack \in Nat /\ slack >= 128
  <2>1. 0 \in 0 .. h - 1
    OBVIOUS
  <2> QED
    BY <1>2, <2>1
<1>4. /\ phi \in [0 .. h - 1 -> -m .. m]
      /\ phi \in ListsOf(h) /\ rho \in ListsOf(h)
  <2>1. DOMAIN phi = 0 .. h - 1 /\ phi = [r \in 0 .. h - 1 |-> phi[r]]
    OBVIOUS
  <2>2. rho = [r \in 0 .. h - 1 |-> rho[r]]
    BY DEF ReferenceColumn
  <2> HIDE DEF phi, rho, m, slack
  <2> QED
    BY <1>2, <1>3, <2>1, <2>2 DEF ListsOf
<1>5. /\ p \in Nat /\ c \in Nat /\ half \in Nat
  BY <1>1, PowerNat
<1> HIDE DEF phi, rho, m, slack, p, c, half
<1>6. /\ cphi \in Int /\ crho \in Int
      /\ Within(p * cphi, q2048 * crho, 4096 * h * slack)
  <2>1. p \in Int /\ q2048 \in Int
    BY <1>5
  <2>2. LinesWithin(h, p, phi, q2048, rho, slack)
    BY <1>2 DEF LinesWithin
  <2> HIDE DEF q2048, cphi, crho
  <2>3. /\ Component(h, v, phi) \in Int /\ Component(h, v, rho) \in Int
        /\ ComponentsWithin(h, v, p, phi, q2048, rho, slack)
    BY <1>3, <1>4, <2>1, <2>2, ColumnNear
  <2> QED
    BY <2>3 DEF ComponentsWithin, cphi, crho
<1>7. Within(square * z, g * cphi, e * m)
  BY <1>1, <1>3, <1>4, KernelNear DEF NearCol
<1>8. z \in Int /\ Forward(f, s)[v][u] = out
  <2>1. Spread(Fdct(h, Cols[h], phi), h, ColDc[h], ColAc[h], m, m)
    BY <1>3, <1>4, KernelSpread
  <2>2. v + 1 \in 1 .. AtMost8(h) /\ (v + 1 = 1 \/ v + 1 \in 2 .. AtMost8(h))
    BY DEF AtMost8
  <2>3. ColDc[h] \in Nat /\ ColAc[h] \in Nat
    BY TablesNat
  <2>4. z \in Int
    BY <1>3, <2>1, <2>2, <2>3 DEF Spread
  <2>5. Descaled(Fdct(h, Cols[h], phi), f.col)[v + 1] = out
    BY <2>1, <2>2 DEF Descaled, Spread
  <2>6. SecondPass(f, s, u) = Descaled(Fdct(h, Cols[h], phi), f.col)
    BY <1>1 DEF SecondPass, phi
  <2> QED
    BY <1>1, <2>4, <2>5, <2>6, ForwardPasses
<1> HIDE DEF cphi, crho, z
<1>9. out \in Int /\ Within(c * out, z, half)
  BY <1>1, <1>8, DescaleNear DEF Restored, c, half
<1>10. area \in Nat \ {0} /\ square \in Nat /\ g \in Nat /\ e \in Nat
  <2>1. g \in Nat /\ e \in Nat
    BY SMT DEF ColScale, ColErr
  <2> QED
    BY <2>1
<1> HIDE DEF area, square, g, e, out
<1>11. q \in Int /\ Within(crho, area * q, area)
  <2>1. crho \in Int
    BY <1>6
  <2>2. area \in Nat \ {0}
    BY <1>10
  <2> QED
    BY <2>1, <2>2, QuotientWithin
<1> HIDE DEF q
<1>12. d \in Int /\ Within(q, q256 * d, 128)
  BY <1>11 DEF DESCALE, Within
<1> HIDE DEF d
<1> DEFINE t1 == p * (square * half)
           t2 == p * (e * m)
           t3 == g * (4096 * h * slack)
           t4 == g * (q2048 * area)
           t5 == g * (q2048 * (area * 128))
           unit == p * (square * c)
<1>13. /\ unit = g * (q2048 * (area * q256))
       /\ t1 + t2 + t3 + t4 + t5 < 9 * unit
  BY <1>1 DEF Tight, p, c, half, g, e, m, slack, area, square
<1>14. q2048 \in Nat /\ q256 \in Nat
  OBVIOUS
<1> HIDE DEF q2048, q256
<1>15. Within(unit * out, p * (square * z), t1)
  <2>1. Within(square * (c * out), square * z, square * half)
    <3>1. c * out \in Int /\ z \in Int /\ half \in Int /\ square \in Nat
      BY <1>5, <1>8, <1>9, <1>10
    <3>2. Within(c * out, z, half)
      BY <1>9
    <3> QED
      BY <3>1, <3>2, WithinTimes
  <2>2. square * (c * out) \in Int /\ square * z \in Int /\ square * half \in Int
    BY <1>5, <1>8, <1>9, <1>10
  <2>3. Within(p * (square * (c * out)), p * (square * z), t1)
    BY <1>5, <2>1, <2>2, WithinTimes
  <2>4. p * (square * (c * out)) = unit * out
    BY <1>5, <1>9, <1>10
  <2> QED
    BY <2>3, <2>4
<1>16. Within(p * (square * z), g * (p * cphi), t2)
  <2>1. square * z \in Int /\ g * cphi \in Int /\ e * m \in Int
    BY <1>3, <1>6, <1>8, <1>10
  <2>2. Within(p * (square * z), p * (g * cphi), t2)
    BY <1>5, <1>7, <2>1, WithinTimes
  <2>3. p * (g * cphi) = g * (p * cphi)
    BY <1>5, <1>6, <1>10
  <2> QED
    BY <2>2, <2>3
<1>17. Within(g * (p * cphi), g * (q2048 * crho), t3)
  <2>1. p * cphi \in Int /\ q2048 * crho \in Int /\ 4096 * h * slack \in Int
    BY <1>3, <1>5, <1>6, <1>14
  <2> QED
    BY <1>6, <1>10, <2>1, WithinTimes
<1>18. Within(g * (q2048 * crho), g * (q2048 * (area * q)), t4)
  <2>1. area * q \in Int /\ area \in Int /\ crho \in Int /\ q2048 \in Nat
    BY <1>6, <1>10, <1>11, <1>14
  <2>2. Within(q2048 * crho, q2048 * (area * q), q2048 * area)
    <3>1. Within(crho, area * q, area)
      BY <1>11
    <3> QED
      BY <2>1, <3>1, WithinTimes
  <2>3. q2048 * crho \in Int /\ q2048 * (area * q) \in Int /\ q2048 * area \in Int
    BY <1>6, <1>14, <2>1
  <2> QED
    BY <1>10, <2>2, <2>3, WithinTimes
<1>19. Within(g * (q2048 * (area * q)), unit * d, t5)
  <2>1. q256 * d \in Int /\ 128 \in Int /\ area \in Nat
    BY <1>10, <1>12, <1>14
  <2>2. Within(area * q, area * (q256 * d), area * 128)
    BY <1>11, <1>12, <2>1, WithinTimes
  <2>3. area * q \in Int /\ area * (q256 * d) \in Int /\ area * 128 \in Int
    BY <1>11, <2>1
  <2>4. Within(q2048 * (area * q), q2048 * (area * (q256 * d)), q2048 * (area * 128))
    BY <1>14, <2>2, <2>3, WithinTimes
  <2>5. /\ q2048 * (area * q) \in Int /\ q2048 * (area * (q256 * d)) \in Int
        /\ q2048 * (area * 128) \in Int
    BY <1>14, <2>3
  <2>6. Within(g * (q2048 * (area * q)), g * (q2048 * (area * (q256 * d))), t5)
    BY <1>10, <2>4, <2>5, WithinTimes
  <2>7. g * (q2048 * (area * (q256 * d))) = unit * d
    BY <1>10, <1>12, <1>13, <1>14
  <2> QED
    BY <2>6, <2>7
<1>20. /\ t1 \in Int /\ t2 \in Int /\ t3 \in Int /\ t4 \in Int /\ t5 \in Int /\ unit \in Nat
       /\ unit * out \in Int /\ p * (square * z) \in Int /\ g * (p * cphi) \in Int
       /\ g * (q2048 * crho) \in Int /\ g * (q2048 * (area * q)) \in Int /\ unit * d \in Int
  BY <1>3, <1>5, <1>6, <1>8, <1>9, <1>10, <1>11, <1>12, <1>14
<1> HIDE DEF t1, t2, t3, t4, t5, unit
<1>21. Within(unit * out, unit * d, t1 + t2 + t3 + t4 + t5)
  <2>1. Within(unit * out, g * (p * cphi), t1 + t2)
    BY <1>15, <1>16, <1>20, WithinChain
  <2>2. Within(unit * out, g * (q2048 * crho), t1 + t2 + t3)
    BY <1>17, <1>20, <2>1, WithinChain
  <2>3. Within(unit * out, g * (q2048 * (area * q)), t1 + t2 + t3 + t4)
    BY <1>18, <1>20, <2>2, WithinChain
  <2> QED
    BY <1>19, <1>20, <2>3, WithinChain
<1>22. Distance(out, d) <= 8
  <2> DEFINE t == t1 + t2 + t3 + t4 + t5
             most == 8
  <2>1. t \in Int /\ most \in Nat /\ t < (most + 1) * unit
    BY <1>13, <1>20
  <2> HIDE DEF t, most
  <2>2. Distance(out, d) <= most
    BY <1>9, <1>12, <1>20, <1>21, <2>1, UnitsApart DEF t
  <2> QED
    BY <2>2 DEF most
<1> QED
  BY <1>8, <1>22 DEF d, q, crho, rho, area, Reference

-----------------------------------------------------------------------------
(* The state machine                                                       *)

\* The block and its coefficients: what is compressed is samples, whether they come
\* from the camera or from a decompressor.
TransformsInv ==
  /\ stage \in {"raw", "coded", "shown", "recoded"}
  /\ size \in Sizes
  /\ quant \in Tables
  /\ samples \in BlocksOf(size[1], size[2])
  /\ coefs \in Matrices
  /\ stage \in {"coded", "recoded"} => Encodable(coefs)

LEMMA TransformsInitial == Init => TransformsInv
<1> SUFFICES ASSUME Init PROVE TransformsInv
  OBVIOUS
<1>1. samples \in BlocksOf(size[1], size[2])
  BY BlocksAssumption DEF Init, BlocksOf, Samples
<1>2. coefs \in Matrices
  BY DEF Init, Zero8x8, Matrices
<1> QED
  BY <1>1, <1>2 DEF Init, TransformsInv

LEMMA QuantIsMatrix == Quantizers \subseteq Matrices
BY DEF Quantizers, Matrices

LEMMA QuantTypes == ASSUME TransformsInv PROVE quant \in Quantizers /\ quant \in Matrices
<1>1. quant \in Quantizers
  BY TablesAssumption DEF TransformsInv, Quantizers
<1> QED
  BY <1>1, QuantIsMatrix

LEMMA EncodePreserves ==
  ASSUME TransformsInv, NEW from, NEW to \in {"coded", "recoded"}, Encode(from, to)
  PROVE  TransformsInv'
<1>1. size \in ScaledSizes /\ samples \in BlocksOf(size[1], size[2])
  BY SizesAssumption DEF TransformsInv
<1>2. /\ coefs' = forward_DCT(Forward(do_dct(size), samples), quant)
      /\ stage' = to /\ size' = size /\ quant' = quant /\ samples' = samples
  BY DEF Encode
<1>3. coefs' \in Matrices /\ Encodable(coefs')
  BY <1>1, <1>2, QuantTypes, EncodedFits
<1> QED
  BY <1>2, <1>3 DEF TransformsInv

LEMMA DecompressPreserves ==
  ASSUME TransformsInv, Decompress
  PROVE  TransformsInv'
<1> DEFINE w == size[1]
           h == size[2]
           shown == Inverse(inverse_DCT(size), coefs, quant)
           Row(r) == [c \in DOMAIN shown[r] |-> shown[r][c] - 128]
<1>1. size \in ScaledSizes /\ coefs \in Matrices
  BY SizesAssumption DEF TransformsInv
<1>2. w \in 1 .. 16 /\ h \in 1 .. 16 /\ InverseOf(inverse_DCT(size), w, h)
  <2>1. w \in 1 .. 16 /\ h \in 1 .. 16
    BY <1>1 DEF ScaledSizes
  <2> QED
    BY <1>1, <2>1, InverseSizes
<1> HIDE DEF w, h
<1>3. shown \in [0 .. h - 1 -> [0 .. w - 1 -> 0 .. 255]]
  BY <1>1, <1>2, QuantTypes, InverseIsSamples
<1>4. /\ samples' = [r \in DOMAIN shown |-> Row(r)]
      /\ stage' = "shown" /\ size' = size /\ quant' = quant /\ coefs' = coefs
  BY DEF Decompress
<1> HIDE DEF shown
<1>5. ASSUME NEW r \in 0 .. h - 1 PROVE Row(r) \in [0 .. w - 1 -> Samples]
  <2>1. shown[r] \in [0 .. w - 1 -> 0 .. 255]
    BY <1>3
  <2>2. DOMAIN shown[r] = 0 .. w - 1 /\ \A c \in 0 .. w - 1 : shown[r][c] \in 0 .. 255
    BY <2>1
  <2>3. \A k \in 0 .. 255 : k - 128 \in Samples
    BY DEF Samples
  <2> QED
    BY <2>2, <2>3
<1>6. DOMAIN shown = 0 .. h - 1
  BY <1>3
<1> HIDE DEF Row
<1>7. samples' \in BlocksOf(w, h)
  BY <1>4, <1>5, <1>6 DEF BlocksOf
<1> QED
  BY <1>4, <1>7 DEF TransformsInv, w, h

LEMMA TransformsPreserved == TransformsInv /\ [Next]_vars => TransformsInv'
<1> SUFFICES ASSUME TransformsInv, [Next]_vars PROVE TransformsInv'
  OBVIOUS
<1>1. CASE Compress
  BY <1>1, EncodePreserves DEF Compress
<1>2. CASE Decompress
  BY <1>2, DecompressPreserves
<1>3. CASE Recompress
  BY <1>3, EncodePreserves DEF Recompress
<1>4. CASE UNCHANGED vars
  BY <1>4 DEF vars, TransformsInv
<1> QED
  BY <1>1, <1>2, <1>3, <1>4 DEF Next

\* Whatever block of samples is compressed, by whichever of the 32 functions and with
\* whichever quantizers, encode_one_block has no JERR_BAD_DCT_COEF to raise: a DC
\* coefficient is within -1024 .. 1023, so that two differ by less than 2^11, and an AC
\* one within -1023 .. 1023; after showing and compressing again too.
THEOREM EncodableAlways == Spec => []CoefficientsEncodable
<1>1. TransformsInv => CoefficientsEncodable
  <2> SUFFICES ASSUME TransformsInv, stage \in {"coded", "recoded"}
               PROVE  /\ coefs[0][0] \in -1024 .. 1023
                      /\ \A v, u \in 0 .. 7 :
                           <<v, u>> # <<0, 0>> => coefs[v][u] \in -1023 .. 1023
    BY Zenon DEF CoefficientsEncodable
  <2> DEFINE DcRange == -1024 .. 1023
             AcRange == -1023 .. 1023
  <2>1. \A k \in Int : k <= 1023 => /\ -1024 <= k => k \in DcRange
                                    /\ -1023 <= k => k \in AcRange
    OBVIOUS
  <2>2. \A v, u \in 0 .. 7 : coefs[v][u] \in Int
    BY DEF TransformsInv, Matrices
  <2>3. Encodable(coefs)
    BY DEF TransformsInv
  <2> HIDE DEF DcRange, AcRange
  <2>4. coefs[0][0] \in DcRange
    BY <2>1, <2>2, <2>3 DEF Encodable
  <2>5. ASSUME NEW v \in 0 .. 7, NEW u \in 0 .. 7, <<v, u>> # <<0, 0>>
        PROVE  coefs[v][u] \in AcRange
    BY <2>1, <2>2, <2>3, <2>5 DEF Encodable
  <2> QED
    BY <2>4, <2>5, Zenon DEF DcRange, AcRange
<1> QED
  BY <1>1, TransformsInitial, TransformsPreserved, PTL DEF Spec

\* The workspace is what the transform of the block leaves in it.
WorkspaceInv ==
  stage = "coded" => workspace = Forward(do_dct(size), samples)

LEMMA WorkspacePreserved == TransformsInv /\ WorkspaceInv /\ [Next]_vars => WorkspaceInv'
<1> SUFFICES ASSUME TransformsInv, WorkspaceInv, [Next]_vars PROVE WorkspaceInv'
  OBVIOUS
<1>1. CASE Compress
  BY <1>1 DEF Compress, Encode, WorkspaceInv
<1>2. CASE Decompress
  BY <1>2 DEF Decompress, WorkspaceInv
<1>3. CASE Recompress
  BY <1>3 DEF Recompress, Encode, WorkspaceInv
<1>4. CASE UNCHANGED vars
  BY <1>4 DEF vars, WorkspaceInv
<1> QED
  BY <1>1, <1>2, <1>3, <1>4 DEF Next

LEMMA WorkspaceNear ==
  ASSUME \A sz \in Sizes : sz[1] \notin {12, 14}, TransformsInv, WorkspaceInv
  PROVE  ForwardIsDct
<1> DEFINE w == size[1]
           h == size[2]
           f == do_dct(size)
           d == Dct(w, h, samples)
<1> SUFFICES ASSUME stage = "coded", NEW v \in DOMAIN d, NEW u \in DOMAIN d[v]
             PROVE  Distance(workspace[v][u], d[v][u]) <= 8
  BY DEF ForwardIsDct
<1>1. size \in ScaledSizes /\ size[1] \notin {12, 14}
  BY SizesAssumption DEF TransformsInv
<1>2. w \in 1 .. 16 /\ h \in 1 .. 16
  BY <1>1 DEF ScaledSizes
<1>3. Of(f, w, h) /\ Tight(f)
  BY <1>1, SizesFit, SizesTight
<1>4. samples \in BlocksOf(w, h) /\ workspace = Forward(f, samples)
  BY DEF TransformsInv, WorkspaceInv
<1> HIDE DEF w, h, f
<1>5. v \in 0 .. AtMost8(h) - 1 /\ u \in 0 .. AtMost8(w) - 1
  <2>1. DOMAIN d = 0 .. AtMost8(h) - 1
    BY <1>2, DctDomain
  <2>2. \A k \in 0 .. AtMost8(h) - 1 : DOMAIN d[k] = 0 .. AtMost8(w) - 1
    BY <1>2, DctDomain
  <2> HIDE DEF d
  <2> QED
    BY <2>1, <2>2
<1>6. v \in 0 .. 7 /\ v < h /\ u \in 0 .. 7 /\ u < w
  BY <1>2, <1>5 DEF AtMost8
<1>7. d[v][u] = Reference(w, h, samples, v, u)
  BY <1>2, <1>5, DctEntry
<1> HIDE DEF d
<1> QED
  BY <1>2, <1>3, <1>4, <1>6, <1>7, ForwardNear

\* Whatever block of samples is compressed, each of the functions of jfdctint.c but those
\* whose first pass is of 12 or of 14 points leaves in the workspace the DCT of the
\* block, to one unit of a coefficient, in every coefficient it computes.
THEOREM ForwardIsDctAlways ==
  ASSUME \A sz \in Sizes : sz[1] \notin {12, 14}
  PROVE  Spec => []ForwardIsDct
<1>1. Init => TransformsInv /\ WorkspaceInv
  BY TransformsInitial DEF Init, WorkspaceInv
<1>2. TransformsInv /\ WorkspaceInv /\ [Next]_vars => TransformsInv' /\ WorkspaceInv'
  BY TransformsPreserved, WorkspacePreserved
<1>3. TransformsInv /\ WorkspaceInv => ForwardIsDct
  BY WorkspaceNear
<1> QED
  BY <1>1, <1>2, <1>3, PTL DEF Spec
====
