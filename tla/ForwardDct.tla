---------------------------- MODULE ForwardDct ----------------------------
(* src/jpeg-8d/jfdctint.c, the slow-but-accurate integer forward DCT: a     *)
(* block of w x h samples (1 to 16 each way) to at most 8 x 8 coefficients, *)
(* scaled up by 8.  Each function of the file works the rows first and the  *)
(* columns next, and each of its two passes is one of sixteen one-          *)
(* dimensional kernels followed by a rounding shift.                        *)
(*                                                                          *)
(* FdctN(c, x) is the N-point kernel, before that shift.  Its products are  *)
(* by fixed-point constants of CONST_BITS = 13 fraction bits: FIX(r) is     *)
(* r * 2^13 rounded, 8192 is FIX(1), and stands for the shifts by           *)
(* CONST_BITS (or by PASS1_BITS, of what is then not shifted down) too.     *)
(* RowsN are the constants of the first pass, ColsN those of the second,    *)
(* which also scale the output by (8/N)^2 up to a power of two.  Samples    *)
(* are centred at 0: the code subtracts CENTERJSAMPLE in the DC term alone, *)
(* and every other term is of differences.                                  *)
EXTENDS FixedPoint

\* x[j] + x[n-1-j] and x[j] - x[n-1-j], the even and the odd half of the input.
Sums(n, x) == [j \in 0 .. n - 1 |-> x[j] + x[n - 1 - j]]
Diffs(n, x) == [j \in 0 .. n - 1 |-> x[j] - x[n - 1 - j]]

Fdct1(c, x) == << 8192 * x[0] >>
Fdct2(c, x) == << 8192 * (x[0] + x[1]), 8192 * (x[0] - x[1]) >>

Rows3 == << 8192, 5793, 10033 >>
\* MUTANT: the second pass does not scale by 16/9.
Cols3_Unscaled == Rows3
Cols3 == << 14564, 10298, 17837 >>
Fdct3(c, x) ==
  LET s == Sums(3, x)  d == Diffs(3, x)
  IN  << c[1] * (s[0] + x[1]),  c[3] * d[0],  c[2] * (s[0] - x[1] - x[1]) >>

Rows4 == << 4433, 6270, 15137 >>
Fdct4(c, x) ==
  LET s == Sums(4, x)  d == Diffs(4, x)  t0b == c[1] * (d[0] + d[1])
  IN  << 8192 * (s[0] + s[1]),  t0b + c[2] * d[0],  8192 * (s[0] - s[1]),
        t0b - c[3] * d[1] >>

Rows5 == << 6476, 2896, 6810, 8192, 4209, 17828 >>
Cols5 == << 8290, 3707, 8716, 10486, 5387, 22820 >>
Fdct5(c, x) ==
  LET s == Sums(5, x)  d == Diffs(5, x)  t10 == s[0] + s[1]  t11b == c[1] * (s[0] - s[1])
      t10c == c[2] * (t10 - 4 * x[2])  t10d == c[3] * (d[0] + d[1])
  IN  << c[4] * (t10 + x[2]),  t10d + c[5] * d[0],  t11b + t10c,  t10d - c[6] * d[1],
        t11b - t10c >>

Rows6 == << 2998, 8192, 10033, 5793 >>
Cols6 == << 5331, 14564, 17837, 10298 >>
Fdct6(c, x) ==
  LET s == Sums(6, x)  d == Diffs(6, x)  t10 == s[0] + s[2]  t10b == c[1] * (d[0] + d[2])
  IN  << c[2] * (t10 + s[1]),  t10b + c[2] * (d[0] + d[1]),  c[3] * (s[0] - s[2]),
        c[2] * (d[0] - d[1] - d[2]),  c[4] * (t10 - s[1] - s[1]),
        t10b + c[2] * (d[2] - d[1]) >>

Rows7 == << 2896, 7542, 2578, 7223, 7663, 1395, 11295, 5027, 15326, 8192, 5793 >>
Cols7 == << 3783, 9850, 3367, 9434, 10009, 1822, 14752, 6565, 20017, 10700, 7566 >>
Fdct7(c, x) ==
  LET s == Sums(7, x)  d == Diffs(7, x)  z1 == s[0] + s[2]  t3 == x[3] + x[3]
      z1d == c[1] * (z1 - t3 - t3)  z2 == c[2] * (s[0] - s[2])  z3 == c[3] * (s[1] - s[2])
      z2b == c[4] * (s[0] - s[1])  t1b == c[5] * (d[0] + d[1])  t2b == c[6] * (d[0] - d[1])
      t2c == -c[7] * (d[1] + d[2])  t3b == c[8] * (d[0] + d[2])
  IN  << c[10] * (z1 + s[1] + x[3]),  t1b - t2b + t3b,  z1d + z2 + z3,  t1b + t2b + t2c,
        z2b + z3 - c[11] * (s[1] - t3),  t2c + t3b + c[9] * d[2],  z1d - z2 + z2b >>

Rows8 == << 4433, 9633, 12299, 25172, 16819, 2446, 7373, 20995, 3196, 16069, 6270, 15137 >>
Fdct8(c, x) ==
  LET s == Sums(8, x)  d == Diffs(8, x)  t10 == s[0] + s[3]  t12 == s[0] - s[3]
      t11 == s[1] + s[2]  t13 == s[1] - s[2]  z1 == c[1] * (t12 + t13)  t12b == d[0] + d[2]
      t13b == d[1] + d[3]  z1c == c[2] * (t12b + t13b)  t10c == -c[7] * (d[0] + d[3])
      t11c == -c[8] * (d[1] + d[2])  t12d == (-c[9] * t12b) + z1c  t13d == (-c[10] * t13b) + z1c
  IN  << 8192 * (t10 + t11),  c[3] * d[0] + t10c + t12d,  z1 + c[11] * t12,
        c[4] * d[1] + t11c + t13d,  8192 * (t10 - t11),  c[5] * d[2] + t11c + t12d,
        z1 - c[12] * t13,  c[6] * d[3] + t10c + t13d >>

Rows9 == << 10887, 5793, 10033, 7447, 3962, 11409, 8192, 8875, 2012 >>
Cols9 == << 17203, 9154, 15855, 11768, 6262, 18029, 12945, 14024, 3179 >>
Fdct9(c, x) ==
  LET s == Sums(9, x)  d == Diffs(9, x)  z1 == s[0] + s[2] + s[3]  z2 == s[1] + x[4]
      z1b == c[1] * (s[0] - s[2])  z2b == c[2] * (s[1] - x[4] - x[4])  t11b == c[3] * d[1]
      t0b == c[4] * (d[0] + d[2])  t1b == c[5] * (d[0] + d[3])  t2b == c[6] * (d[2] - d[3])
  IN  << c[7] * (z1 + z2),  t11b + t0b + t1b,  c[8] * (s[2] - s[3]) + z1b + z2b,
        c[3] * (d[0] - d[2] - d[3]),  c[9] * (s[3] - s[0]) + z1b - z2b,  t0b - t11b - t2b,
        c[2] * (z1 - z2 - z2),  t1b - t11b + t2b >>

Rows10 == << 6810, 8192, 7791, 4815, 2531, 4096, 9373, 3580, 4209, 17828, 11443, 10323, 5260,
            1812 >>
Cols10 == << 8716, 10486, 9973, 6163, 3240, 5243, 11997, 4582, 5387, 22820, 14647, 13213, 6732,
            2320 >>
Fdct10(c, x) ==
  LET s == Sums(10, x)  d == Diffs(10, x)  t10 == s[0] + s[4]  t13 == s[0] - s[4]
      t11 == s[1] + s[3]  t14 == s[1] - s[3]  t12b == s[2] + s[2]  t10b == c[1] * (t13 + t14)
      t10c == d[0] + d[4]  t11b == d[1] - d[3]  t2b == c[2] * d[2]
      t12c == c[3] * (d[0] - d[4]) - c[4] * (d[1] + d[3])
      t13b == c[5] * (t10c + t11b) + c[6] * t11b - t2b
  IN  << c[2] * (t10 + t11 + s[2]),
        c[11] * d[0] + c[12] * d[1] + t2b + c[13] * d[3] + c[14] * d[4],  t10b + c[9] * t13,
        t12c + t13b,  c[7] * (t10 - t12b) - c[8] * (t11 - t12b),  c[2] * (t10c - t11b - d[2]),
        t10b - c[10] * t14,  t12c - t13b >>

Rows11 == << 11116, 1649, 7587, 9746, 10538, 8756, 6263, 14090, 3264, 11467, 10456, 16294,
            10695, 8192, 8342, 11395, 511, 4813, 13275, 6461 >>
Cols11 == << 11759, 1744, 8026, 10310, 11148, 9262, 6626, 14905, 3453, 12131, 11061, 17237,
            11314, 8666, 8825, 12054, 540, 5091, 14043, 6835 >>
Fdct11(c, x) ==
  LET s == Sums(11, x)  d == Diffs(11, x)  t5 == x[5] + x[5]  t0b == s[0] - t5  t1b == s[1] - t5
      t2b == s[2] - t5  t3b == s[3] - t5  t4b == s[4] - t5
      z1 == c[1] * (t0b + t3b) + c[2] * (t2b + t4b)  z2 == c[3] * (t1b - t3b)
      z3 == c[4] * (t0b - t1b)  t1c == c[5] * (d[0] + d[1])  t2c == c[6] * (d[0] + d[2])
      t3c == c[7] * (d[0] + d[3])  t4c == -c[7] * (d[1] + d[2])  t5b == -c[10] * (d[1] + d[3])
      t10b == c[9] * (d[2] + d[3])
  IN  << c[14] * (s[0] + s[1] + s[2] + s[3] + s[4] + x[5]),
        t1c + t2c + t3c - c[8] * d[0] + c[9] * d[4],  z1 + z2 - c[15] * t3b - c[16] * t4b,
        t1c + t4c + t5b + c[11] * d[1] - c[6] * d[4],
        z2 + z3 + c[17] * t1b - c[1] * t2b + c[18] * t4b,
        t2c + t4c + t10b - c[12] * d[2] + c[10] * d[4],  z1 + z3 - c[19] * t0b - c[20] * t2b,
        t3c + t5b + t10b + c[13] * d[3] - c[5] * d[4] >>

\* Rows12[13]: the first pass adds tmp14 - tmp15 without the shift by CONST_BITS.
Rows12 == << 4433, 6270, 15137, 9191, 7053, 4758, 1512, 19165, 5946, 10703, 8192, 10033, 1,
            11190 >>
Cols12 == << 3941, 5573, 13455, 8170, 6269, 4229, 1344, 17036, 5285, 9514, 7282, 8918, 7282,
            9947 >>
Fdct12(c, x) ==
  LET s == Sums(12, x)  d == Diffs(12, x)  t10 == s[0] + s[5]  t13 == s[0] - s[5]
      t14 == s[1] - s[4]  t12 == s[2] + s[3]  t15 == s[2] - s[3]  t10b == c[1] * (d[1] + d[4])
      t14b == t10b + c[2] * d[1]  t15b == t10b - c[3] * d[4]  t12b == c[4] * (d[0] + d[2])
      t13b == c[5] * (d[0] + d[3])  t11b == -c[7] * (d[2] + d[3])
  IN  << c[11] * (t10 + s[1] + s[4] + t12),  t12b + t13b + t14b - c[6] * d[0] + c[7] * d[5],
        c[13] * (t14 - t15) + c[14] * (t13 + t15),
        t15b + c[10] * (d[0] - d[3]) - c[1] * (d[2] + d[5]),  c[12] * (t10 - t12),
        t12b + t11b - t15b - c[8] * d[2] + c[5] * d[5],  c[11] * (t13 - t14 - t15),
        t13b + t11b - t14b + c[9] * d[3] - c[4] * d[5] >>

Rows13 == << 9465, 3570, 2592, 793, 7678, 3989, 10832, 9534, 7682, 2773, 16549, 2611, 6859,
            19183, 5384, 12879, 18515, 18068, 14273, 8192, 11249, 8672, 4108, 1396, 6581,
            10258 >>
Cols13 == << 7169, 2704, 1963, 601, 5816, 3021, 8204, 7221, 5819, 2100, 12534, 1978, 5195,
            14529, 4078, 9754, 14023, 13685, 10811, 6205, 8520, 6568, 3112, 1058, 4985, 7770 >>
Fdct13(c, x) ==
  LET s == Sums(13, x)  d == Diffs(13, x)  t6 == x[6] + x[6]  t0b == s[0] - t6  t1b == s[1] - t6
      t2b == s[2] - t6  t3b == s[3] - t6  t4b == s[4] - t6  t5b == s[5] - t6
      z1 == c[1] * (t0b - t2b) - c[2] * (t3b - t4b) - c[3] * (t1b - t5b)
      z2 == c[4] * (t0b + t2b) - c[5] * (t3b + t4b) + c[6] * (t1b + t5b)
      t1c == c[7] * (d[0] + d[1])  t2c == c[8] * (d[0] + d[2])
      t3c == c[9] * (d[0] + d[3]) + c[10] * (d[4] + d[5])
      t4c == c[9] * (d[4] - d[5]) - c[10] * (d[1] + d[2])  t5c == -c[8] * (d[1] + d[3])
      t6b == -c[15] * (d[2] + d[3])
  IN  << c[20] * (s[0] + s[1] + s[2] + s[3] + s[4] + s[5] + x[6]),
        t1c + t2c + t3c - c[11] * d[0] + c[12] * d[4],
        c[21] * t0b + c[22] * t1b + c[23] * t2b - c[24] * t3b - c[25] * t4b - c[26] * t5b,
        t1c + t4c + t5c + c[13] * d[1] - c[14] * d[4],  z1 + z2,
        t2c + t4c + t6b - c[16] * d[2] + c[17] * d[5],  z1 - z2,
        t3c + t5c + t6b + c[18] * d[3] - c[19] * d[5] >>

\* Rows14[21]: the first pass adds tmp6 to d[1] without the shift, so 9232 - 1.
Rows14 == << 9058, 8192, 1297, 11512, 9810, 6164, 10935, 3826, 10438, 2578, 7223, 2237, 5027,
            14084, 11295, 19447, 9175, 3474, 25148, 9232, 9231 >>
Cols14 == << 5915, 5350, 847, 7518, 6406, 4025, 7141, 2499, 6817, 1684, 4717, 1461, 3283, 9198,
            7376, 12700, 5992, 2269, 16423, 6029, 679 >>
Fdct14(c, x) ==
  LET s == Sums(14, x)  d == Diffs(14, x)  t10 == s[0] + s[6]  t14 == s[0] - s[6]
      t11 == s[1] + s[5]  t15 == s[1] - s[5]  t12 == s[2] + s[4]  t16 == s[2] - s[4]
      t13b == s[3] + s[3]  t10b == c[1] * (t14 + t15)  t10c == d[1] + d[2]  t11b == d[5] - d[4]
      t3b == c[2] * d[3]  t10e == (-c[3] * t10c) + c[4] * t11b - t3b
      t11d == c[5] * (d[0] + d[2]) + c[6] * (d[4] + d[6])
      t12b == c[7] * (d[0] + d[1]) + c[8] * (d[5] - d[6])
  IN  << c[2] * (t10 + t11 + t12 + s[3]),  t11d + t12b + t3b - c[20] * d[0] - c[21] * d[6],
        t10b + c[12] * t14 + c[13] * t16,  t10e + t12b - c[18] * d[1] - c[19] * d[5],
        c[9] * (t10 - t13b) + c[10] * (t11 - t13b) - c[11] * (t12 - t13b),
        t10e + t11d - c[16] * d[2] + c[17] * d[4],  t10b - c[14] * t15 - c[15] * t16,
        c[2] * (d[0] - t10c + d[3] - t11b - d[6]) >>

Rows15 == << 12543, 18336, 6541, 748, 11332, 7752, 6476, 10033, 11018, 6810, 11522, 4712, 3897,
            4209, 13930, 2912, 17828, 7121, 8192, 9373, 3580 >>
Cols15 == << 14271, 20862, 7442, 852, 12893, 8820, 7369, 11415, 12536, 7748, 13109, 5361, 4434,
            4788, 15850, 3314, 20284, 8102, 9321, 10664, 4073 >>
Fdct15(c, x) ==
  LET s == Sums(15, x)  d == Diffs(15, x)  z1 == s[0] + s[4] + s[5]  z2 == s[1] + s[3] + s[6]
      z3 == s[2] + x[7]  z3b == z3 + z3  t2b == s[2] + ((s[1] + s[4]) \div 2) - x[7] - x[7]
      z3c == c[5] * (s[0] - s[3]) + c[6] * (s[6] - s[5]) + c[7] * (s[1] - s[4])
      t12b == c[8] * d[2]
      t4b == c[11] * (d[0] - d[6]) + c[9] * (d[1] + d[4]) + c[12] * (d[3] + d[5])
  IN  << c[19] * (z1 + z2 + z3),  c[13] * d[3] - c[14] * d[4] + c[15] * d[6] + t4b + t12b,
        c[1] * (s[3] - t2b) - c[2] * (s[6] - t2b) + z3c,
        c[9] * (d[0] - d[4] - d[5]) + c[10] * (d[1] - d[3] - d[6]),
        c[3] * (s[5] - t2b) - c[4] * (s[0] - t2b) + z3c,
        c[8] * (d[0] - d[2] - d[3] + d[5] + d[6]),  c[20] * (z1 - z3b) - c[21] * (z2 - z3b),
        (-c[16] * d[0]) - c[17] * d[1] - c[18] * d[5] + t4b - t12b >>

Rows16 == << 2260, 11363, 11086, 3363, 10217, 5461, 8956, 7350, 1136, 11529, 18730, 6387, 589,
            13631, 9222, 10055, 8728, 17760, 10703, 4433, 11893, 17799, 1730, 8697 >>
Fdct16(c, x) ==
  LET s == Sums(16, x)  d == Diffs(16, x)  t10 == s[0] + s[7]  t14 == s[0] - s[7]
      t11 == s[1] + s[6]  t15 == s[1] - s[6]  t12 == s[2] + s[5]  t16 == s[2] - s[5]
      t13 == s[3] + s[4]  t17 == s[3] - s[4]  t10b == c[1] * (t17 - t15) + c[2] * (t14 - t16)
      t11b == c[3] * (d[0] + d[1]) + c[4] * (d[6] - d[7])
      t12b == c[5] * (d[0] + d[2]) + c[6] * (d[5] + d[7])
      t13b == c[7] * (d[0] + d[3]) + c[8] * (d[4] - d[7])
      t14b == c[9] * (d[1] + d[2]) + c[10] * (d[6] - d[5])
      t15b == (-c[6] * (d[1] + d[3])) - c[5] * (d[4] + d[6])
      t16b == (-c[3] * (d[2] + d[3])) + c[4] * (d[5] - d[4])
  IN  << 8192 * (t10 + t11 + t12 + t13),  t11b + t12b + t13b - c[11] * d[0] + c[12] * d[7],
        t10b + c[21] * t15 + c[22] * t16,  t11b + t14b + t15b + c[13] * d[1] - c[14] * d[6],
        c[19] * (t10 - t13) + c[20] * (t11 - t12),
        t12b + t14b + t16b - c[15] * d[2] + c[16] * d[5],  t10b - c[23] * t14 - c[24] * t17,
        t13b + t15b + t16b + c[17] * d[3] + c[18] * d[4] >>

\* The kernel of size n, with the constants of the pass.
Fdct(n, c, x) ==
  CASE n = 1 -> Fdct1(c, x)   [] n = 2 -> Fdct2(c, x)   [] n = 3 -> Fdct3(c, x)
    [] n = 4 -> Fdct4(c, x)   [] n = 5 -> Fdct5(c, x)   [] n = 6 -> Fdct6(c, x)
    [] n = 7 -> Fdct7(c, x)   [] n = 8 -> Fdct8(c, x)   [] n = 9 -> Fdct9(c, x)
    [] n = 10 -> Fdct10(c, x) [] n = 11 -> Fdct11(c, x) [] n = 12 -> Fdct12(c, x)
    [] n = 13 -> Fdct13(c, x) [] n = 14 -> Fdct14(c, x) [] n = 15 -> Fdct15(c, x)
    [] n = 16 -> Fdct16(c, x)
Rows == << <<>>, <<>>, Rows3, Rows4, Rows5, Rows6, Rows7, Rows8, Rows9, Rows10, Rows11,
           Rows12, Rows13, Rows14, Rows15, Rows16 >>
Cols == << <<>>, <<>>, Cols3, Rows4, Cols5, Cols6, Cols7, Rows8, Cols9, Cols10, Cols11,
           Cols12, Cols13, Cols14, Cols15, Rows16 >>

\* Both passes of function f over the samples s[row][column]: data[row][column], 0 beyond
\* the coefficients of the block.
Forward(f, s) ==
  LET w == f.w  h == f.h
      Row(r) == Descaled(Fdct(w, Rows[w], s[r]), f.row)
      rows == ListOf(h, Row)
      OutColumn(u) ==
        Descaled(Fdct(h, Cols[h], [r \in 0 .. h - 1 |-> rows[r + 1][u + 1]]), f.col)
      cols == ListOf(AtMost8(w), OutColumn)
  IN  [v \in 0 .. 7 |-> [u \in 0 .. 7 |->
         IF u < w /\ v < h THEN cols[u + 1][v + 1] ELSE 0]]

\* The functions: their block, and the shifts down of their two passes.
jpeg_fdct_islow == [w |-> 8, h |-> 8, row |-> 11, col |-> 15]
jpeg_fdct_7x7 == [w |-> 7, h |-> 7, row |-> 11, col |-> 15]
jpeg_fdct_6x6 == [w |-> 6, h |-> 6, row |-> 11, col |-> 15]
jpeg_fdct_5x5 == [w |-> 5, h |-> 5, row |-> 10, col |-> 15]
jpeg_fdct_4x4 == [w |-> 4, h |-> 4, row |-> 9, col |-> 15]
jpeg_fdct_3x3 == [w |-> 3, h |-> 3, row |-> 9, col |-> 15]
jpeg_fdct_2x2 == [w |-> 2, h |-> 2, row |-> 13, col |-> 9]
jpeg_fdct_1x1 == [w |-> 1, h |-> 1, row |-> 13, col |-> 7]
jpeg_fdct_9x9 == [w |-> 9, h |-> 9, row |-> 12, col |-> 15]
jpeg_fdct_10x10 == [w |-> 10, h |-> 10, row |-> 12, col |-> 15]
jpeg_fdct_11x11 == [w |-> 11, h |-> 11, row |-> 12, col |-> 15]
jpeg_fdct_12x12 == [w |-> 12, h |-> 12, row |-> 13, col |-> 14]
jpeg_fdct_13x13 == [w |-> 13, h |-> 13, row |-> 13, col |-> 14]
jpeg_fdct_14x14 == [w |-> 14, h |-> 14, row |-> 13, col |-> 14]
jpeg_fdct_15x15 == [w |-> 15, h |-> 15, row |-> 13, col |-> 15]
jpeg_fdct_16x16 == [w |-> 16, h |-> 16, row |-> 11, col |-> 17]
jpeg_fdct_16x8 == [w |-> 16, h |-> 8, row |-> 11, col |-> 16]
jpeg_fdct_14x7 == [w |-> 14, h |-> 7, row |-> 11, col |-> 16]
jpeg_fdct_12x6 == [w |-> 12, h |-> 6, row |-> 11, col |-> 16]
jpeg_fdct_10x5 == [w |-> 10, h |-> 5, row |-> 11, col |-> 15]
jpeg_fdct_8x4 == [w |-> 8, h |-> 4, row |-> 10, col |-> 15]
jpeg_fdct_6x3 == [w |-> 6, h |-> 3, row |-> 10, col |-> 15]
jpeg_fdct_4x2 == [w |-> 4, h |-> 2, row |-> 8, col |-> 15]
jpeg_fdct_2x1 == [w |-> 2, h |-> 1, row |-> 13, col |-> 8]
jpeg_fdct_8x16 == [w |-> 8, h |-> 16, row |-> 11, col |-> 16]
jpeg_fdct_7x14 == [w |-> 7, h |-> 14, row |-> 11, col |-> 15]
jpeg_fdct_6x12 == [w |-> 6, h |-> 12, row |-> 11, col |-> 15]
jpeg_fdct_5x10 == [w |-> 5, h |-> 10, row |-> 11, col |-> 15]
jpeg_fdct_4x8 == [w |-> 4, h |-> 8, row |-> 10, col |-> 15]
jpeg_fdct_3x6 == [w |-> 3, h |-> 6, row |-> 10, col |-> 15]
jpeg_fdct_2x4 == [w |-> 2, h |-> 4, row |-> 10, col |-> 13]
jpeg_fdct_1x2 == [w |-> 1, h |-> 2, row |-> 13, col |-> 8]
====
