----------------------------- MODULE DctManager -----------------------------
(* The DCT managers of libjpeg, src/jpeg-8d/jcdctmgr.c and jddctmgr.c, with  *)
(* the integer method JDCT_ISLOW that is both sides' default: the transform  *)
(* for a component's DCT_h_scaled_size x DCT_v_scaled_size, and quantization *)
(* on the way to coefficients.                                               *)
EXTENDS ForwardDct, InverseDct

\* The sizes start_pass knows; any other is JERR_BAD_DCTSIZE.
ScaledSizes == {<<n, n>> : n \in 1 .. 16} \cup {<<2 * n, n>> : n \in 1 .. 8}
                 \cup {<<n, 2 * n>> : n \in 1 .. 8}

\* The function of a size.
do_dct(size) ==
  CASE size = <<1, 1>> -> jpeg_fdct_1x1             [] size = <<2, 2>> -> jpeg_fdct_2x2
    [] size = <<3, 3>> -> jpeg_fdct_3x3             [] size = <<4, 4>> -> jpeg_fdct_4x4
    [] size = <<5, 5>> -> jpeg_fdct_5x5             [] size = <<6, 6>> -> jpeg_fdct_6x6
    [] size = <<7, 7>> -> jpeg_fdct_7x7             [] size = <<8, 8>> -> jpeg_fdct_islow
    [] size = <<9, 9>> -> jpeg_fdct_9x9             [] size = <<10, 10>> -> jpeg_fdct_10x10
    [] size = <<11, 11>> -> jpeg_fdct_11x11         [] size = <<12, 12>> -> jpeg_fdct_12x12
    [] size = <<13, 13>> -> jpeg_fdct_13x13         [] size = <<14, 14>> -> jpeg_fdct_14x14
    [] size = <<15, 15>> -> jpeg_fdct_15x15         [] size = <<16, 16>> -> jpeg_fdct_16x16
    [] size = <<16, 8>> -> jpeg_fdct_16x8           [] size = <<14, 7>> -> jpeg_fdct_14x7
    [] size = <<12, 6>> -> jpeg_fdct_12x6           [] size = <<10, 5>> -> jpeg_fdct_10x5
    [] size = <<8, 4>> -> jpeg_fdct_8x4             [] size = <<6, 3>> -> jpeg_fdct_6x3
    [] size = <<4, 2>> -> jpeg_fdct_4x2             [] size = <<2, 1>> -> jpeg_fdct_2x1
    [] size = <<8, 16>> -> jpeg_fdct_8x16           [] size = <<7, 14>> -> jpeg_fdct_7x14
    [] size = <<6, 12>> -> jpeg_fdct_6x12           [] size = <<5, 10>> -> jpeg_fdct_5x10
    [] size = <<4, 8>> -> jpeg_fdct_4x8             [] size = <<3, 6>> -> jpeg_fdct_3x6
    [] size = <<2, 4>> -> jpeg_fdct_2x4             [] size = <<1, 2>> -> jpeg_fdct_1x2

inverse_DCT(size) ==
  CASE size = <<1, 1>> -> jpeg_idct_1x1          [] size = <<2, 2>> -> jpeg_idct_2x2
    [] size = <<3, 3>> -> jpeg_idct_3x3          [] size = <<4, 4>> -> jpeg_idct_4x4
    [] size = <<5, 5>> -> jpeg_idct_5x5          [] size = <<6, 6>> -> jpeg_idct_6x6
    [] size = <<7, 7>> -> jpeg_idct_7x7          [] size = <<8, 8>> -> jpeg_idct_islow
    [] size = <<9, 9>> -> jpeg_idct_9x9          [] size = <<10, 10>> -> jpeg_idct_10x10
    [] size = <<11, 11>> -> jpeg_idct_11x11      [] size = <<12, 12>> -> jpeg_idct_12x12
    [] size = <<13, 13>> -> jpeg_idct_13x13      [] size = <<14, 14>> -> jpeg_idct_14x14
    [] size = <<15, 15>> -> jpeg_idct_15x15      [] size = <<16, 16>> -> jpeg_idct_16x16
    [] size = <<16, 8>> -> jpeg_idct_16x8        [] size = <<14, 7>> -> jpeg_idct_14x7
    [] size = <<12, 6>> -> jpeg_idct_12x6        [] size = <<10, 5>> -> jpeg_idct_10x5
    [] size = <<8, 4>> -> jpeg_idct_8x4          [] size = <<6, 3>> -> jpeg_idct_6x3
    [] size = <<4, 2>> -> jpeg_idct_4x2          [] size = <<2, 1>> -> jpeg_idct_2x1
    [] size = <<8, 16>> -> jpeg_idct_8x16        [] size = <<7, 14>> -> jpeg_idct_7x14
    [] size = <<6, 12>> -> jpeg_idct_6x12        [] size = <<5, 10>> -> jpeg_idct_5x10
    [] size = <<4, 8>> -> jpeg_idct_4x8          [] size = <<3, 6>> -> jpeg_idct_3x6
    [] size = <<2, 4>> -> jpeg_idct_2x4          [] size = <<1, 2>> -> jpeg_idct_1x2

\* MUTANT: the quantizer is not scaled up with the output.
Divisor_Unscaled(quantval) == quantval

\* The quantizer scaled up by 8, as the transform's output is.
Divisor(quantval) == quantval * 8

\* MUTANT: the quotient is cut off and not rounded.
Quantized_CutOff(temp, qval) == IF temp < 0 THEN -((-temp) \div qval) ELSE temp \div qval

\* To the nearest multiple of qval, a tie away from zero.
Quantized(temp, qval) ==
  LET magnitude == ((IF temp < 0 THEN -temp ELSE temp) + qval \div 2) \div qval
  IN  IF temp < 0 THEN -magnitude ELSE magnitude

forward_DCT(workspace, quantval) ==
  [v \in 0 .. 7 |-> [u \in 0 .. 7 |->
     Quantized(workspace[v][u], Divisor(quantval[v][u]))]]
====
