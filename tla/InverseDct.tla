---------------------------- MODULE InverseDct ----------------------------
(* src/jpeg-8d/jidctint.c, the slow-but-accurate integer inverse DCT:       *)
(* dequantized coefficients to a block of w x h samples.  Each function     *)
(* works the columns first and the rows next, in the same kernel of its     *)
(* size; IdctN is the N-point kernel before the shift of its pass.  It has  *)
(* an even part and an odd part, which the output stage adds and subtracts. *)
(* Products are by FIX constants of 13 fraction bits, 8192 being the shift  *)
(* by CONST_BITS.  The shortcuts of the 8-point passes for columns and rows *)
(* without AC terms compute what the kernel computes.                       *)
EXTENDS FixedPoint

\* The n outputs even[j] + odd[j], then even[j] - odd[j] in the opposite order.
Mirror(n, even, odd) ==
  [k \in 1 .. n |-> IF k <= Len(odd) THEN even[k] + odd[k]
                    ELSE IF k <= Len(even) THEN even[k]
                    ELSE even[n + 1 - k] - odd[n + 1 - k]]

Idct1(x) == << x[0] >>
Idct2(x) == << x[0] + x[1], x[0] - x[1] >>

Idct3(x) ==
  LET t0b == 8192 * x[0]  t12 == 5793 * x[2]
  IN  Mirror(3, << t0b + t12,  t0b - t12 - t12 >>,
             << 10033 * x[1] >>)

Idct4(x) ==
  LET z1 == 4433 * (x[1] + x[3])
  IN  Mirror(4, << 8192 * (x[0] + x[2]),  8192 * (x[0] - x[2]) >>,
             << z1 + 6270 * x[1],  z1 - 15137 * x[3] >>)

Idct5(x) ==
  LET t12b == 8192 * x[0]  z1 == 6476 * (x[2] + x[4])  z2 == 2896 * (x[2] - x[4])
      z3 == t12b + z2  z1b == 6810 * (x[1] + x[3])
  IN  Mirror(5, << z3 + z1,  z3 - z1,  t12b - 4 * z2 >>,
             << z1b + 4209 * x[1],  z1b - 17828 * x[3] >>)

Idct6(x) ==
  LET t0b == 8192 * x[0]  t10 == 5793 * x[4]  t1 == t0b + t10  t0c == 10033 * x[2]
      t1b == 2998 * (x[1] + x[5])
  IN  Mirror(6, << t1 + t0c,  t0b - t10 - t10,  t1 - t0c >>,
             << t1b + 8192 * (x[1] + x[3]),  8192 * (x[1] - x[3] - x[5]),
                t1b + 8192 * (x[5] - x[3]) >>)

Idct7(x) ==
  LET t13b == 8192 * x[0]  t10 == 7223 * (x[4] - x[6])  t12 == 2578 * (x[2] - x[4])
      t0 == x[2] + x[6]  t0b == 10438 * t0 + t13b  t1 == 7663 * (x[1] + x[3])
      t2 == 1395 * (x[1] - x[3])  t2b == -11295 * (x[3] + x[5])  z2b == 5027 * (x[1] + x[5])
  IN  Mirror(7, << t10 + t0b - 637 * x[6],  t10 + t12 + t13b - 15083 * x[4],
                t12 + t0b - 20239 * x[2],  t13b + 11585 * (x[4] - t0) >>,
             << t1 - t2 + z2b,  t1 + t2 + t2b,  t2b + z2b + 15326 * x[5] >>)

Idct8(x) ==
  LET z1 == 4433 * (x[2] + x[6])  t2 == z1 + 6270 * x[2]  t3 == z1 - 15137 * x[6]
      t0 == 8192 * (x[0] + x[4])  t1 == 8192 * (x[0] - x[4])  z2b == x[7] + x[3]
      z3 == x[5] + x[1]  z1b == 9633 * (z2b + z3)  z2d == (-16069 * z2b) + z1b
      z3c == (-3196 * z3) + z1b  z1c == -7373 * (x[7] + x[1])  z1d == -20995 * (x[5] + x[3])
  IN  Mirror(8, << t0 + t2,  t1 + t3,  t1 - t3,  t0 - t2 >>,
             << 12299 * x[1] + z1c + z3c,  25172 * x[3] + z1d + z2d,
                16819 * x[5] + z1d + z3c,  2446 * x[7] + z1c + z2d >>)

Idct9(x) ==
  LET t0b == 8192 * x[0]  t3 == 5793 * x[6]  t1 == t0b + t3  t2 == t0b - t3 - t3
      t0c == 5793 * (x[2] - x[4])  t0d == 10887 * (x[2] + x[4])  t2b == 8875 * x[2]
      t3b == 2012 * x[4]  z2 == -10033 * x[3]  t2c == 7447 * (x[1] + x[5])
      t3c == 3962 * (x[1] + x[7])  t1b == 11409 * (x[5] - x[7])
  IN  Mirror(9, << t1 + t0d - t3b,  t2 + t0c,  t1 - t0d + t2b,  t1 - t2b + t3b,
                t2 - t0c - t0c >>,
             << t2c + t3c - z2,  10033 * (x[1] - x[5] - x[7]),  t2c + z2 - t1b,
                t3c + z2 + t1b >>)

Idct10(x) ==
  LET z3b == 8192 * x[0]  z1 == 9373 * x[4]  z2 == 3580 * x[4]  t10 == z3b + z1  t11 == z3b - z2
      z1b == 6810 * (x[2] + x[6])  t12 == z1b + 4209 * x[2]  t13 == z1b - 17828 * x[6]
      z3c == 8192 * x[5]  t11b == x[3] + x[7]  t13b == x[3] - x[7]  t12b == 2531 * t13b
      z2b == 7791 * t11b  z4 == z3c + t12b  z2c == 4815 * t11b  z4b == z3c - t12b - 4096 * t13b
  IN  Mirror(10, << t10 + t12,  t11 + t13,  z3b - 2 * (z1 - z2),  t11 - t13,  t10 - t12 >>,
             << 11443 * x[1] + z2b + z4,  10323 * x[1] - z2c - z4b,
                8192 * (x[1] - t13b) - z3c,  5260 * x[1] - z2c + z4b,
                1812 * x[1] - z2b + z4 >>)

Idct11(x) ==
  LET t10b == 8192 * x[0]  t20 == 20862 * (x[4] - x[6])  t23 == 3529 * (x[4] - x[2])
      z4 == x[2] + x[6]  z4b == z4 - x[4]  t25 == t10b + 11116 * z4b  t24b == (-9467 * z4) + t25
      t11 == x[1] + x[3]  t14 == 3264 * (t11 + x[5] + x[7])  t11b == 7274 * t11
      t12 == 5492 * (x[1] + x[5])  t13 == t14 + 3000 * (x[1] + x[7])
      z1 == t14 - 9527 * (x[3] + x[5])  z1b == -14731 * (x[3] + x[7])
  IN  Mirror(11, << t20 + t25 + 17333 * x[6],  t20 + t23 + t25 - 14924 * x[4],
                t24b - 6461 * x[6],  t23 + t25 - 12399 * x[2],
                t24b + 15929 * x[4] - 11395 * x[2],  t10b - 11585 * z4b >>,
             << t11b + t12 + t13 - 7562 * x[1],  t11b + z1 + 16984 * x[3] + z1b,
                t12 + z1 - 9766 * x[5],  t13 + z1b + 17223 * x[7],
                t14 + (-12019 * x[3]) + 8203 * x[5] - 13802 * x[7] >>)

Idct12(x) ==
  LET z3b == 8192 * x[0]  z4 == 10033 * x[4]  t10 == z3b + z4  t11 == z3b - z4
      z4b == 11190 * x[2]  z1 == 8192 * x[2]  z2 == 8192 * x[6]  t12 == z1 - z2
      t12b == z4b + z2  t12c == z4b - z1 - z2  t11b == 10703 * x[3]  t14 == -4433 * x[3]
      t10b == x[1] + x[5]  t15 == 7053 * (t10b + x[7])  t12d == t15 + 2139 * t10b
      t13 == -8565 * (x[5] + x[7])  z1b == x[1] - x[7]  z2b == x[3] - x[5]
      z3c == 4433 * (z1b + z2b)
  IN  Mirror(12, << t10 + t12b,  z3b + t12,  t11 + t12c,  t11 - t12c,  z3b - t12,
                t10 - t12b >>,
             << t12d + t11b + 2295 * x[1],  z3c + 6270 * z1b,
                t12d + t13 + t14 - 12112 * x[5],  t13 + t15 - t11b + 12998 * x[7],
                z3c - 15137 * z2b,  t15 + t14 - 5540 * x[1] - 16244 * x[7] >>)

Idct13(x) ==
  LET z1b == 8192 * x[0]  t10 == x[4] + x[6]  t11 == x[4] - x[6]  t12 == 9465 * t10
      t13 == 793 * t11 + z1b  t12b == 2592 * t10  t13b == 3989 * t11 + z1b  t12c == 3570 * t10
      t13c == 7678 * t11 - z1b  t11b == 10832 * (x[1] + x[3])  t12d == 9534 * (x[1] + x[5])
      t15 == x[1] + x[7]  t13d == 7682 * t15  t14 == -2773 * (x[3] + x[5])
      t14b == -9534 * (x[3] + x[7])  t14c == -5384 * (x[5] + x[7])  t15b == 2773 * t15
      z1c == 7682 * (x[5] - x[3])
  IN  Mirror(13, << 11249 * x[2] + t12 + t13,  8672 * x[2] - t12b + t13b,
                4108 * x[2] - t12 + t13,  (-1396 * x[2]) - t12c - t13c,
                (-6581 * x[2]) + t12c - t13c,  (-10258 * x[2]) + t12b + t13b,
                11585 * (t11 - x[2]) + z1b >>,
             << t11b + t12d + t13d - 16549 * x[1],  t11b + t14 + 6859 * x[3] + t14b,
                t12d + t14 - 12879 * x[5] + t14c,  t13d + t14b + 18068 * x[7] + t14c,
                t15b + 2611 * x[1] - 3818 * x[3] + z1c,
                t15b + z1c + 3150 * x[5] - 14273 * x[7] >>)

Idct14(x) ==
  LET z1b == 8192 * x[0]  z2 == 10438 * x[4]  z3 == 2578 * x[4]  z4 == 7223 * x[4]
      t10 == z1b + z2  t11 == z1b + z3  t12 == z1b - z4  z3b == 9058 * (x[2] + x[6])
      t13 == z3b + 2237 * x[2]  t14 == z3b - 14084 * x[6]  t15 == 5027 * x[2] - 11295 * x[6]
      z4b == 8192 * x[7]  t14b == x[1] + x[5]  t11b == 10935 * (x[1] + x[3])
      t12b == 9810 * t14b  t14c == 6164 * t14b  z1c == x[1] - x[3]  t15b == 3826 * z1c - z4b
      t13b == (-1297 * (x[3] + x[5])) - z4b  t13c == 11512 * (x[5] - x[3])
  IN  Mirror(14, << t10 + t13,  t11 + t14,  t12 + t15,  z1b - 2 * (z2 + z3 - z4),  t12 - t15,
                t11 - t14,  t10 - t13 >>,
             << t11b + t12b + z4b - 9232 * x[1],  t11b + t13b - 3474 * x[3],
                t12b + t13b - 19447 * x[5],  8192 * (z1c - x[5]) + z4b,
                t14c + t13c + z4b - 13850 * x[5],  t15b + t13c + 5529 * x[3],
                t14c - 8693 * x[1] + t15b >>)

Idct15(x) ==
  LET z1b == 8192 * x[0]  t10 == 3580 * x[6]  t11 == 9373 * x[6]  t12 == z1b - t10
      t13 == z1b + t11  z1c == z1b - 2 * (t11 - t10)  z4 == x[2] - x[4]  z3 == x[4] + x[2]
      t10b == 10958 * z3  t11b == 374 * z4  z2 == 11795 * x[2]  t10c == 4482 * z3
      t11c == 3271 * z4  t10d == 6476 * z3  t11d == 2896 * z4  t11e == t11d + t11d
      z3b == 10033 * x[5]  t13b == x[3] - x[7]  t15 == 6810 * (x[1] + t13b)
      t13c == -6810 * x[3]  t15b == -11018 * x[3]  z2b == x[1] - x[7]  t12b == z3b + 11522 * z2b
      z2c == 4712 * (x[1] + x[7])
  IN  Mirror(15, << t13 + t10b + t11b,  t12 + t10d + t11d,  z1c + t11e,
                t12 - t10b + t11b + z2,  t13 - t10d + t11d,  t13 - t10c - t11c,
                t12 + t10c - t11c - z2,  z1c - t11e - t11e >>,
             << t12b + 20131 * x[7] - t15b,  t15 + 4209 * x[1],  10033 * z2b - z3b,
                t13c + z2c + 3897 * x[1] - z3b,  t15 - 17828 * t13b,
                t15b + z2c - 7121 * x[7] + z3b,  t12b - 9113 * x[1] + t13c >>)

Idct16(x) ==
  LET t0b == 8192 * x[0]  t1 == 10703 * x[4]  t2 == 4433 * x[4]  t10 == t0b + t1
      t11 == t0b - t1  t12 == t0b + t2  t13 == t0b - t2  z3 == x[2] - x[6]  z4 == 2260 * z3
      z3b == 11363 * z3  t0c == z3b + 20995 * x[6]  t1b == z4 + 7373 * x[2]
      t2b == z3b - 4926 * x[2]  t3 == z4 - 4176 * x[6]  t11b == x[1] + x[5]
      t1c == 11086 * (x[1] + x[3])  t2c == 10217 * t11b  t3b == 8956 * (x[1] + x[7])
      t10b == 7350 * (x[1] - x[7])  t11c == 5461 * t11b  t12b == 3363 * (x[1] - x[3])
      z1 == 1136 * (x[3] + x[5])  z1b == 11529 * (x[5] - x[3])  z2 == x[3] + x[7]
      z1c == -5461 * z2  z2b == -10217 * z2  z2c == -11086 * (x[5] + x[7])
      z2d == 3363 * (x[7] - x[5])
  IN  Mirror(16, << t10 + t0c,  t12 + t1b,  t13 + t2b,  t11 + t3,  t11 - t3,  t13 - t2b,
                t12 - t1b,  t10 - t0c >>,
             << t1c + t2c + t3b - 18730 * x[1],  t1c + z1 + 589 * x[3] + z1c,
                t2c + z1 - 9222 * x[5] + z2c,  t3b + z1c + 8728 * x[7] + z2c,
                t10b + z2b + 25733 * x[7] + z2d,  t11c + z1b - 6278 * x[5] + z2d,
                t12b + z1b + 16154 * x[3] + z2b,  t10b + t11c + t12b - 15038 * x[1] >>)

\* The kernel of size n.
Idct(n, x) ==
  CASE n = 1 -> Idct1(x)   [] n = 2 -> Idct2(x)   [] n = 3 -> Idct3(x)
    [] n = 4 -> Idct4(x)   [] n = 5 -> Idct5(x)   [] n = 6 -> Idct6(x)
    [] n = 7 -> Idct7(x)   [] n = 8 -> Idct8(x)   [] n = 9 -> Idct9(x)
    [] n = 10 -> Idct10(x) [] n = 11 -> Idct11(x) [] n = 12 -> Idct12(x)
    [] n = 13 -> Idct13(x) [] n = 14 -> Idct14(x) [] n = 15 -> Idct15(x)
    [] n = 16 -> Idct16(x)

\* A column of n.  The 4-point first pass shifts the odd part alone, so that a
\* tie is rounded up in it and down in what is subtracted.
Column(n, shift, x) ==
  IF n = 4 /\ shift > 0
  THEN LET z == Idct4([k \in 0 .. 3 |-> IF k % 2 = 1 THEN x[k] ELSE 0])
           odd == << DESCALE(z[1], shift), DESCALE(z[2], shift) >>
       IN  Mirror(4, << 4 * (x[0] + x[2]), 4 * (x[0] - x[2]) >>, odd)
  ELSE Descaled(Idct(n, x), shift)

\* Both passes of function f over the coefficients b[v][u] and their quantizers q[v][u]:
\* the samples [row][column].
Inverse(f, b, q) ==
  LET w == f.w  h == f.h
      InColumn(u) ==
        Column(h, f.col, [v \in 0 .. AtMost8(h) - 1 |-> b[v][u] * q[v][u]])
      cols == ListOf(AtMost8(w), InColumn)
      Row(r) == Descaled(Idct(w, [u \in 0 .. AtMost8(w) - 1 |-> cols[u + 1][r + 1]]), f.row)
  IN  [r \in 0 .. h - 1 |-> LET y == Row(r) IN [j \in 0 .. w - 1 |-> RangeLimit(y[j + 1])]]

\* The functions: their block, and the shifts down of their two passes.
jpeg_idct_islow == [w |-> 8, h |-> 8, col |-> 11, row |-> 18]
jpeg_idct_7x7 == [w |-> 7, h |-> 7, col |-> 11, row |-> 18]
jpeg_idct_6x6 == [w |-> 6, h |-> 6, col |-> 11, row |-> 18]
jpeg_idct_5x5 == [w |-> 5, h |-> 5, col |-> 11, row |-> 18]
jpeg_idct_4x4 == [w |-> 4, h |-> 4, col |-> 11, row |-> 18]
jpeg_idct_3x3 == [w |-> 3, h |-> 3, col |-> 11, row |-> 18]
jpeg_idct_2x2 == [w |-> 2, h |-> 2, col |-> 0, row |-> 3]
jpeg_idct_1x1 == [w |-> 1, h |-> 1, col |-> 0, row |-> 3]
jpeg_idct_9x9 == [w |-> 9, h |-> 9, col |-> 11, row |-> 18]
jpeg_idct_10x10 == [w |-> 10, h |-> 10, col |-> 11, row |-> 18]
jpeg_idct_11x11 == [w |-> 11, h |-> 11, col |-> 11, row |-> 18]
jpeg_idct_12x12 == [w |-> 12, h |-> 12, col |-> 11, row |-> 18]
jpeg_idct_13x13 == [w |-> 13, h |-> 13, col |-> 11, row |-> 18]
jpeg_idct_14x14 == [w |-> 14, h |-> 14, col |-> 11, row |-> 18]
jpeg_idct_15x15 == [w |-> 15, h |-> 15, col |-> 11, row |-> 18]
jpeg_idct_16x16 == [w |-> 16, h |-> 16, col |-> 11, row |-> 18]
jpeg_idct_16x8 == [w |-> 16, h |-> 8, col |-> 11, row |-> 18]
jpeg_idct_14x7 == [w |-> 14, h |-> 7, col |-> 11, row |-> 18]
jpeg_idct_12x6 == [w |-> 12, h |-> 6, col |-> 11, row |-> 18]
jpeg_idct_10x5 == [w |-> 10, h |-> 5, col |-> 11, row |-> 18]
jpeg_idct_8x4 == [w |-> 8, h |-> 4, col |-> 11, row |-> 18]
jpeg_idct_6x3 == [w |-> 6, h |-> 3, col |-> 11, row |-> 18]
jpeg_idct_4x2 == [w |-> 4, h |-> 2, col |-> 0, row |-> 16]
jpeg_idct_2x1 == [w |-> 2, h |-> 1, col |-> 0, row |-> 3]
jpeg_idct_8x16 == [w |-> 8, h |-> 16, col |-> 11, row |-> 18]
jpeg_idct_7x14 == [w |-> 7, h |-> 14, col |-> 11, row |-> 18]
jpeg_idct_6x12 == [w |-> 6, h |-> 12, col |-> 11, row |-> 18]
jpeg_idct_5x10 == [w |-> 5, h |-> 10, col |-> 11, row |-> 18]
jpeg_idct_4x8 == [w |-> 4, h |-> 8, col |-> 11, row |-> 18]
jpeg_idct_3x6 == [w |-> 3, h |-> 6, col |-> 11, row |-> 18]
jpeg_idct_2x4 == [w |-> 2, h |-> 4, col |-> 0, row |-> 16]
jpeg_idct_1x2 == [w |-> 1, h |-> 2, col |-> 0, row |-> 3]
====
